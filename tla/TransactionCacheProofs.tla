------------------------ MODULE TransactionCacheProofs ------------------------
(***************************************************************************)
(* What the operators of TransactionCache compute, for every transaction.  *)
(* Its loops are folds, and a fold is followed by its trace: the numbered  *)
(* results of its rounds.  That there is one is shown by induction, for    *)
(* which the naturals and the subsets of a finite set are well-founded.    *)
(***************************************************************************)
EXTENDS TransactionCache, FiniteSetTheorems, SequenceTheorems, WellFoundedInduction, TLAPS

-----------------------------------------------------------------------------
(* Induction, over sets of naturals and sets of sets *)

\* A set of naturals has a least element.
LEMMA LeastNatural ==
    ASSUME NEW T, T \subseteq Nat, T # {}
    PROVE  \E n \in T : \A m \in T : n <= m
<1> DEFINE R == {ss \in Nat \X Nat : ss[1] < ss[2]}
<1>1. IsWellFoundedOn(R, Nat)
  <2>1. R = OpToRel(<, Nat)
    BY Zenon DEF OpToRel
  <2> QED
    BY <2>1, NatLessThanWellFounded, Zenon
<1>2. \E n \in T : \A m \in T : ~(<<m, n>> \in R)
  <2> HIDE DEF R
  <2> QED
    BY <1>1, WFMin, Zenon
<1>3. PICK n \in T : \A m \in T : ~(<<m, n>> \in R)
  BY <1>2
<1>4. ASSUME NEW m \in T
      PROVE  n <= m
  <2>1. m \in Nat /\ n \in Nat /\ ~(<<m, n>> \in R)
    BY <1>3
  <2>2. ~(m < n)
    BY <2>1
  <2> QED
    BY <2>1, <2>2
<1> QED
  BY <1>4

\* A bounded set of naturals has a greatest element.
LEMMA GreatestNatural ==
    ASSUME NEW T, T \subseteq Nat, T # {}, NEW b \in Int, \A n \in T : n <= b
    PROVE  \E n \in T : \A m \in T : m <= n
<1> DEFINE below == {b - n : n \in T}
<1>1. below \subseteq Nat /\ below # {}
  <2>1. \A n \in T : b - n \in Nat
    OBVIOUS
  <2>2. below \subseteq Nat
    BY <2>1
  <2>3. below # {}
    BY Zenon
  <2> QED
    BY <2>2, <2>3
<1> HIDE DEF below
<1>2. PICK d \in below : \A e \in below : d <= e
  BY <1>1, LeastNatural
<1> USE DEF below
<1>3. PICK n \in T : d = b - n
  BY <1>2
<1>4. \A m \in T : b - n <= b - m
  BY <1>2, <1>3
<1>5. \A m \in T : m <= n
  BY <1>4
<1> QED
  BY <1>5

\* Max of such a set is what its name says.
LEMMA MaxNatural ==
    ASSUME NEW T, T \subseteq Nat, T # {}, NEW b \in Int, \A n \in T : n <= b
    PROVE  Max(T) \in T /\ \A m \in T : m <= Max(T)
<1>1. \E n \in T : \A m \in T : n >= m
  <2>1. PICK n \in T : \A m \in T : m <= n
    BY GreatestNatural
  <2> QED
    BY <2>1
<1>2. Max(T) \in T /\ \A m \in T : Max(T) >= m
  BY <1>1 DEF Max
<1> QED
  BY <1>2

\* Induction: a set of naturals that is closed under the step to the next one.
LEMMA NatGrows ==
    ASSUME NEW Good, 0 \in Good, \A n \in Nat : n \in Good => n + 1 \in Good
    PROVE  Nat \subseteq Good
<1> SUFFICES ASSUME Nat \ Good # {}
             PROVE  FALSE
  OBVIOUS
<1>1. PICK n \in Nat \ Good : \A m \in Nat \ Good : n <= m
  <2> DEFINE T == Nat \ Good
  <2>1. T \subseteq Nat /\ T # {}
    OBVIOUS
  <2> HIDE DEF T
  <2>2. \E n \in T : \A m \in T : n <= m
    BY <2>1, LeastNatural
  <2> QED
    BY <2>2 DEF T
<1>2. n - 1 \in Nat /\ n - 1 \in Good
  BY <1>1
<1>3. (n - 1) + 1 \in Good
  BY <1>2
<1> QED
  BY <1>1, <1>3

\* The same up to a bound.
LEMMA UpToGrows ==
    ASSUME NEW n \in Nat, NEW Good, 0 \in Good,
           \A k \in 0..(n - 1) : k \in Good => k + 1 \in Good
    PROVE  \A k \in 0..n : k \in Good
<1> DEFINE Wide == Good \cup {k \in Nat : k > n}
<1>1. 0 \in Wide
  OBVIOUS
<1>2. \A k \in Nat : k \in Wide => k + 1 \in Wide
  <2> TAKE k \in Nat
  <2> HAVE k \in Wide
  <2>1. CASE k < n
    BY <2>1
  <2>2. CASE k >= n
    BY <2>2
  <2> QED
    BY <2>1, <2>2
<1> HIDE DEF Wide
<1>3. Nat \subseteq Wide
  BY <1>1, <1>2, NatGrows
<1> QED
  BY <1>3 DEF Wide

\* Induction over a finite set: all its subsets, when each one is reached by adding
\* an element that may be any of its elements.
LEMMA SubsetsGrow ==
    ASSUME NEW S, IsFiniteSet(S), NEW Good, {} \in Good,
           \A s \in SUBSET S :
               s # {} /\ (\A x \in s : s \ {x} \in Good) => s \in Good
    PROVE  SUBSET S \subseteq Good
<1> DEFINE bad == {Cardinality(s) : s \in {s \in SUBSET S : s \notin Good}}
<1>1. \A s \in SUBSET S : IsFiniteSet(s) /\ Cardinality(s) \in Nat
  BY FS_Subset, FS_CardinalityType
<1>2. SUFFICES ASSUME NEW t \in SUBSET S, t \notin Good
               PROVE  FALSE
  OBVIOUS
<1>3. bad \subseteq Nat /\ bad # {}
  BY <1>1, <1>2
<1> HIDE DEF bad
<1>4. PICK n \in bad : \A m \in bad : n <= m
  BY <1>3, LeastNatural
<1> USE DEF bad
<1>5. PICK s \in SUBSET S : s \notin Good /\ n = Cardinality(s)
  BY <1>4
<1>6. PICK x \in s : s \ {x} \notin Good
  BY <1>5
<1>7. Cardinality(s \ {x}) = Cardinality(s) - 1
  BY <1>1, <1>5, <1>6, FS_RemoveElement
<1>8. Cardinality(s \ {x}) \in bad
  BY <1>5, <1>6
<1> HIDE DEF bad
<1>9. n <= Cardinality(s) - 1 /\ Cardinality(s) \in Nat
  BY <1>1, <1>4, <1>7, <1>8
<1> QED
  BY <1>5, <1>9


-----------------------------------------------------------------------------
(* The recursion behind each fold *)

\* The amounts of a sequence at the places T.
AmountsAt(l, T) == MapThenSumSet(LAMBDA i : l[i].amount, T)

\* g sums up the amounts at every set of places.
AmountsUp(l, T, g) ==
    /\ g[{}] = 0
    /\ \A s \in SUBSET T : s # {} => \E x \in s : g[s] = l[x].amount + g[s \ {x}]


LEMMA AmountsRecursion ==
    ASSUME NEW l, NEW T, IsFiniteSet(T)
    PROVE  \E g : AmountsAt(l, T) = g[T] /\ AmountsUp(l, T, g)
<1> DEFINE S == T
           base == 0
           Op(x, y) == l[x].amount + y
           Ch(s) == CHOOSE i \in s : TRUE
           iter == CHOOSE g : g = [s \in SUBSET S |->
                      IF s = {} THEN base ELSE Op(Ch(s), g[s \ {Ch(s)}])]
<1>1. AmountsAt(l, T) = iter[S]
  BY Zenon DEF AmountsAt, MapThenSumSet, MapThenFoldSet
<1> HIDE DEF base, Op
<1>2. \A s \in SUBSET S : IsFiniteSet(s) /\ Cardinality(s) \in Nat
  <2>1. IsFiniteSet(S)
    OBVIOUS
  <2> QED
    BY <2>1, FS_Subset, FS_CardinalityType
<1>3. ASSUME NEW s \in SUBSET S, s # {}
      PROVE  Ch(s) \in s
  BY <1>3
<1> HIDE DEF Ch, S
<1>4. \A s \in SUBSET S : s # {} => Cardinality(s \ {Ch(s)}) = Cardinality(s) - 1
  BY <1>2, <1>3, FS_RemoveElement
<1>5. \A s \in SUBSET S : Cardinality(s) = 0 <=> s = {}
  BY <1>2, FS_EmptySet
<1> DEFINE Eq(g, s) == g[s] = IF s = {} THEN base ELSE Op(Ch(s), g[s \ {Ch(s)}])
           Solved(k) == \E g : \A s \in SUBSET S : Cardinality(s) <= k => Eq(g, s)
           good == {k \in Nat : Solved(k)}
<1>6. 0 \in good
  <2> DEFINE h == [s \in SUBSET S |-> base]
  <2>1. \A s \in SUBSET S : Cardinality(s) <= 0 => Eq(h, s)
    BY <1>2, <1>5
  <2> HIDE DEF h
  <2> QED
    BY <2>1
<1>7. ASSUME NEW k \in Nat, k \in good
      PROVE  k + 1 \in good
  <2>1. PICK g : \A s \in SUBSET S : Cardinality(s) <= k => Eq(g, s)
    BY <1>7
  <2> DEFINE h == [s \in SUBSET S |-> IF Cardinality(s) <= k THEN g[s]
                                      ELSE Op(Ch(s), g[s \ {Ch(s)}])]
  <2>2. ASSUME NEW s \in SUBSET S, Cardinality(s) <= k + 1
        PROVE  Eq(h, s)
    <3>1. CASE s = {}
      <4>1. Cardinality(s) <= k /\ h[s] = g[s]
        BY <1>5, <3>1
      <4> QED
        BY <2>1, <3>1, <4>1
    <3>2. CASE s # {}
      <4>1. s \ {Ch(s)} \in SUBSET S /\ Cardinality(s \ {Ch(s)}) <= k
        BY <1>2, <1>4, <2>2, <3>2
      <4>2. h[s \ {Ch(s)}] = g[s \ {Ch(s)}]
        BY <4>1
      <4>3. h[s] = Op(Ch(s), g[s \ {Ch(s)}])
        BY <2>1, <3>2
      <4> QED
        BY <3>2, <4>2, <4>3
    <3> QED
      BY <3>1, <3>2
  <2> HIDE DEF h, Eq
  <2>3. Solved(k + 1)
    BY <2>2
  <2> HIDE DEF Solved
  <2> QED
    BY <2>3
<1>8. Cardinality(S) \in good
  <2> HIDE DEF good
  <2>1. Nat \subseteq good
    BY <1>6, <1>7, NatGrows
  <2>2. Cardinality(S) \in Nat
    BY <1>2
  <2> QED
    BY <2>1, <2>2
<1>9. PICK f : \A s \in SUBSET S : Eq(f, s)
  <2>1. PICK f : \A s \in SUBSET S : Cardinality(s) <= Cardinality(S) => Eq(f, s)
    BY <1>8
  <2>2. \A s \in SUBSET S : Cardinality(s) <= Cardinality(S)
    BY <1>2, FS_Subset
  <2> QED
    BY <2>1, <2>2
<1>10. iter = [s \in SUBSET S |->
                      IF s = {} THEN base ELSE Op(Ch(s), iter[s \ {Ch(s)}])]
  <2> DEFINE h == [s \in SUBSET S |-> f[s]]
  <2>1. h = [s \in SUBSET S |->
                      IF s = {} THEN base ELSE Op(Ch(s), h[s \ {Ch(s)}])]
    BY <1>9
  <2> HIDE DEF h
  <2> QED
    BY <2>1
<1> HIDE DEF iter
<1>11. iter[{}] = base
  BY <1>10
<1>12. \A s \in SUBSET S : s # {} => Ch(s) \in s /\ iter[s] = Op(Ch(s), iter[s \ {Ch(s)}])
  BY <1>3, <1>10
<1>13. \A s \in SUBSET S : s # {} => \E x \in s : iter[s] = Op(x, iter[s \ {x}])
  BY <1>12
<1> QED
  BY <1>1, <1>11, <1>13 DEF S, base, Op, AmountsUp

\* The recursion behind AmountOf.
LEMMA AmountOfRecursion ==
    ASSUME NEW l, NEW n \in Nat, DOMAIN l = 1..n
    PROVE  \E g : /\ AmountOf(l) = g[(1..n)]
                  /\ g[{}] = 0
                  /\ \A s \in SUBSET (1..n) : s # {} =>
                        LET x == Max(s)
                        IN  x \in s /\ g[s] = g[s \ {x}] + l[x].amount
<1> DEFINE S == (1..n)
           base == 0
           Op(x, y) == y + l[x].amount
           Ch(s) == Max(s)
           iter == CHOOSE g : g = [s \in SUBSET S |->
                      IF s = {} THEN base ELSE Op(Ch(s), g[s \ {Ch(s)}])]
<1>1. AmountOf(l) = iter[S]
  BY Zenon DEF AmountOf, FoldLeft, MapThenFoldSet
<1> HIDE DEF base, Op
<1>2. \A s \in SUBSET S : IsFiniteSet(s) /\ Cardinality(s) \in Nat
  <2>1. IsFiniteSet(S)
    BY FS_Interval
  <2> QED
    BY <2>1, FS_Subset, FS_CardinalityType
<1>3. ASSUME NEW s \in SUBSET S, s # {}
      PROVE  Ch(s) \in s
  <2>1. s \subseteq Nat /\ \A i \in s : i <= n
    OBVIOUS
  <2>2. n \in Int
    OBVIOUS
  <2> QED
    BY <1>3, <2>1, <2>2, MaxNatural
<1> HIDE DEF Ch, S
<1>4. \A s \in SUBSET S : s # {} => Cardinality(s \ {Ch(s)}) = Cardinality(s) - 1
  BY <1>2, <1>3, FS_RemoveElement
<1>5. \A s \in SUBSET S : Cardinality(s) = 0 <=> s = {}
  BY <1>2, FS_EmptySet
<1> DEFINE Eq(g, s) == g[s] = IF s = {} THEN base ELSE Op(Ch(s), g[s \ {Ch(s)}])
           Solved(k) == \E g : \A s \in SUBSET S : Cardinality(s) <= k => Eq(g, s)
           good == {k \in Nat : Solved(k)}
<1>6. 0 \in good
  <2> DEFINE h == [s \in SUBSET S |-> base]
  <2>1. \A s \in SUBSET S : Cardinality(s) <= 0 => Eq(h, s)
    BY <1>2, <1>5
  <2> HIDE DEF h
  <2> QED
    BY <2>1
<1>7. ASSUME NEW k \in Nat, k \in good
      PROVE  k + 1 \in good
  <2>1. PICK g : \A s \in SUBSET S : Cardinality(s) <= k => Eq(g, s)
    BY <1>7
  <2> DEFINE h == [s \in SUBSET S |-> IF Cardinality(s) <= k THEN g[s]
                                      ELSE Op(Ch(s), g[s \ {Ch(s)}])]
  <2>2. ASSUME NEW s \in SUBSET S, Cardinality(s) <= k + 1
        PROVE  Eq(h, s)
    <3>1. CASE s = {}
      <4>1. Cardinality(s) <= k /\ h[s] = g[s]
        BY <1>5, <3>1
      <4> QED
        BY <2>1, <3>1, <4>1
    <3>2. CASE s # {}
      <4>1. s \ {Ch(s)} \in SUBSET S /\ Cardinality(s \ {Ch(s)}) <= k
        BY <1>2, <1>4, <2>2, <3>2
      <4>2. h[s \ {Ch(s)}] = g[s \ {Ch(s)}]
        BY <4>1
      <4>3. h[s] = Op(Ch(s), g[s \ {Ch(s)}])
        BY <2>1, <3>2
      <4> QED
        BY <3>2, <4>2, <4>3
    <3> QED
      BY <3>1, <3>2
  <2> HIDE DEF h, Eq
  <2>3. Solved(k + 1)
    BY <2>2
  <2> HIDE DEF Solved
  <2> QED
    BY <2>3
<1>8. Cardinality(S) \in good
  <2> HIDE DEF good
  <2>1. Nat \subseteq good
    BY <1>6, <1>7, NatGrows
  <2>2. Cardinality(S) \in Nat
    BY <1>2
  <2> QED
    BY <2>1, <2>2
<1>9. PICK f : \A s \in SUBSET S : Eq(f, s)
  <2>1. PICK f : \A s \in SUBSET S : Cardinality(s) <= Cardinality(S) => Eq(f, s)
    BY <1>8
  <2>2. \A s \in SUBSET S : Cardinality(s) <= Cardinality(S)
    BY <1>2, FS_Subset
  <2> QED
    BY <2>1, <2>2
<1>10. iter = [s \in SUBSET S |->
                      IF s = {} THEN base ELSE Op(Ch(s), iter[s \ {Ch(s)}])]
  <2> DEFINE h == [s \in SUBSET S |-> f[s]]
  <2>1. h = [s \in SUBSET S |->
                      IF s = {} THEN base ELSE Op(Ch(s), h[s \ {Ch(s)}])]
    BY <1>9
  <2> HIDE DEF h
  <2> QED
    BY <2>1
<1> HIDE DEF iter
<1>11. iter[{}] = base
  BY <1>10
<1>12. \A s \in SUBSET S : s # {} => Ch(s) \in s /\ iter[s] = Op(Ch(s), iter[s \ {Ch(s)}])
  BY <1>3, <1>10
<1> QED
  BY <1>1, <1>11, <1>12 DEF S, base, Op, Ch


-----------------------------------------------------------------------------
(* Sums over finite sets *)

\* The sum of the weights w of the elements of S.
SumOver(w, S) == MapThenSumSet(LAMBDA i : w[i], S)

Weighs(w, S) == \A i \in S : w[i] \in Nat

\* g sums up the weights of every subset, element by element in some order.
SumsUp(w, S, g) ==
    /\ g[{}] = 0
    /\ \A s \in SUBSET S : s # {} => \E x \in s : g[s] = w[x] + g[s \ {x}]

\* The recursion behind SumOver.
LEMMA SumRecursion ==
    ASSUME NEW w, NEW T, IsFiniteSet(T)
    PROVE  \E g : SumOver(w, T) = g[T] /\ SumsUp(w, T, g)
<1> DEFINE S == T
           base == 0
           Op(x, y) == w[x] + y
           Ch(s) == CHOOSE i \in s : TRUE
           iter == CHOOSE g : g = [s \in SUBSET S |->
                      IF s = {} THEN base ELSE Op(Ch(s), g[s \ {Ch(s)}])]
<1>1. SumOver(w, T) = iter[S]
  BY Zenon DEF SumOver, MapThenSumSet, MapThenFoldSet
<1> HIDE DEF base, Op
<1>2. \A s \in SUBSET S : IsFiniteSet(s) /\ Cardinality(s) \in Nat
  <2>1. IsFiniteSet(S)
    OBVIOUS
  <2> QED
    BY <2>1, FS_Subset, FS_CardinalityType
<1>3. ASSUME NEW s \in SUBSET S, s # {}
      PROVE  Ch(s) \in s
  BY <1>3
<1> HIDE DEF Ch, S
<1>4. \A s \in SUBSET S : s # {} => Cardinality(s \ {Ch(s)}) = Cardinality(s) - 1
  BY <1>2, <1>3, FS_RemoveElement
<1>5. \A s \in SUBSET S : Cardinality(s) = 0 <=> s = {}
  BY <1>2, FS_EmptySet
<1> DEFINE Eq(g, s) == g[s] = IF s = {} THEN base ELSE Op(Ch(s), g[s \ {Ch(s)}])
           Solved(k) == \E g : \A s \in SUBSET S : Cardinality(s) <= k => Eq(g, s)
           good == {k \in Nat : Solved(k)}
<1>6. 0 \in good
  <2> DEFINE h == [s \in SUBSET S |-> base]
  <2>1. \A s \in SUBSET S : Cardinality(s) <= 0 => Eq(h, s)
    BY <1>2, <1>5
  <2> HIDE DEF h
  <2> QED
    BY <2>1
<1>7. ASSUME NEW k \in Nat, k \in good
      PROVE  k + 1 \in good
  <2>1. PICK g : \A s \in SUBSET S : Cardinality(s) <= k => Eq(g, s)
    BY <1>7
  <2> DEFINE h == [s \in SUBSET S |-> IF Cardinality(s) <= k THEN g[s]
                                      ELSE Op(Ch(s), g[s \ {Ch(s)}])]
  <2>2. ASSUME NEW s \in SUBSET S, Cardinality(s) <= k + 1
        PROVE  Eq(h, s)
    <3>1. CASE s = {}
      <4>1. Cardinality(s) <= k /\ h[s] = g[s]
        BY <1>5, <3>1
      <4> QED
        BY <2>1, <3>1, <4>1
    <3>2. CASE s # {}
      <4>1. s \ {Ch(s)} \in SUBSET S /\ Cardinality(s \ {Ch(s)}) <= k
        BY <1>2, <1>4, <2>2, <3>2
      <4>2. h[s \ {Ch(s)}] = g[s \ {Ch(s)}]
        BY <4>1
      <4>3. h[s] = Op(Ch(s), g[s \ {Ch(s)}])
        BY <2>1, <3>2
      <4> QED
        BY <3>2, <4>2, <4>3
    <3> QED
      BY <3>1, <3>2
  <2> HIDE DEF h, Eq
  <2>3. Solved(k + 1)
    BY <2>2
  <2> HIDE DEF Solved
  <2> QED
    BY <2>3
<1>8. Cardinality(S) \in good
  <2> HIDE DEF good
  <2>1. Nat \subseteq good
    BY <1>6, <1>7, NatGrows
  <2>2. Cardinality(S) \in Nat
    BY <1>2
  <2> QED
    BY <2>1, <2>2
<1>9. PICK f : \A s \in SUBSET S : Eq(f, s)
  <2>1. PICK f : \A s \in SUBSET S : Cardinality(s) <= Cardinality(S) => Eq(f, s)
    BY <1>8
  <2>2. \A s \in SUBSET S : Cardinality(s) <= Cardinality(S)
    BY <1>2, FS_Subset
  <2> QED
    BY <2>1, <2>2
<1>10. iter = [s \in SUBSET S |->
                      IF s = {} THEN base ELSE Op(Ch(s), iter[s \ {Ch(s)}])]
  <2> DEFINE h == [s \in SUBSET S |-> f[s]]
  <2>1. h = [s \in SUBSET S |->
                      IF s = {} THEN base ELSE Op(Ch(s), h[s \ {Ch(s)}])]
    BY <1>9
  <2> HIDE DEF h
  <2> QED
    BY <2>1
<1> HIDE DEF iter
<1>11. iter[{}] = base
  BY <1>10
<1>12. \A s \in SUBSET S : s # {} => Ch(s) \in s /\ iter[s] = Op(Ch(s), iter[s \ {Ch(s)}])
  BY <1>3, <1>10
<1>13. \A s \in SUBSET S : s # {} => \E x \in s : iter[s] = Op(x, iter[s \ {x}])
  BY <1>12
<1> QED
  BY <1>1, <1>11, <1>13 DEF S, base, Op, SumsUp

\* The order of a sum does not matter.
LEMMA SumInAnyOrder ==
    ASSUME NEW S, IsFiniteSet(S), NEW w, Weighs(w, S), NEW g, SumsUp(w, S, g)
    PROVE  \A s \in SUBSET S :
               g[s] \in Nat /\ \A x \in s : g[s] = w[x] + g[s \ {x}]
<1>0. \A s \in SUBSET S : g[s] \in Nat
  <2> DEFINE Good == {s \in SUBSET S : g[s] \in Nat}
  <2>1. {} \in Good
    BY DEF SumsUp
  <2>2. ASSUME NEW s \in SUBSET S, s # {}, \A x \in s : s \ {x} \in Good
        PROVE  s \in Good
    <3>1. PICK c \in s : g[s] = w[c] + g[s \ {c}]
      BY <2>2 DEF SumsUp
    <3>2. w[c] \in Nat /\ g[s \ {c}] \in Nat
      BY <2>2 DEF Weighs
    <3> QED
      BY <3>1, <3>2
  <2> HIDE DEF Good
  <2>3. SUBSET S \subseteq Good
    BY <2>1, <2>2, SubsetsGrow
  <2> QED
    BY <2>3 DEF Good
<1> DEFINE Good == {s \in SUBSET S : \A x \in s : g[s] = w[x] + g[s \ {x}]}
<1>1. {} \in Good
  OBVIOUS
<1>2. ASSUME NEW s \in SUBSET S, s # {}, \A x \in s : s \ {x} \in Good
      PROVE  s \in Good
  <2>1. PICK c \in s : g[s] = w[c] + g[s \ {c}]
    BY <1>2 DEF SumsUp
  <2>2. ASSUME NEW x \in s, x # c
        PROVE  g[s] = w[x] + g[s \ {x}]
    <3> DEFINE rest == (s \ {c}) \ {x}
    <3>1. (s \ {x}) \ {c} = rest
      OBVIOUS
    <3>2. g[s \ {c}] = w[x] + g[rest]
      BY <1>2, <2>2
    <3>3. g[s \ {x}] = w[c] + g[(s \ {x}) \ {c}]
      BY <1>2, <2>2
    <3>4. g[rest] \in Nat /\ w[x] \in Nat /\ w[c] \in Nat
      BY <1>0 DEF Weighs
    <3> HIDE DEF rest
    <3> QED
      BY <2>1, <3>1, <3>2, <3>3, <3>4
  <2> QED
    BY <2>1, <2>2
<1> HIDE DEF Good
<1>3. SUBSET S \subseteq Good
  BY <1>1, <1>2, SubsetsGrow
<1> QED
  BY <1>0, <1>3 DEF Good


\* A sum is a natural, and an element can be taken out of it.
LEMMA SumTakesOut ==
    ASSUME NEW S, IsFiniteSet(S), NEW w, Weighs(w, S)
    PROVE  /\ SumOver(w, S) \in Nat
           /\ SumOver(w, {}) = 0
           /\ \A x \in S : SumOver(w, S) = w[x] + SumOver(w, S \ {x})
<1> DEFINE Good == {s \in SUBSET S :
               SumOver(w, s) \in Nat /\ \A x \in s : SumOver(w, s) = w[x] + SumOver(w, s \ {x})}
           Ways(s, g) == /\ SumOver(w, s) = g[s]
                         /\ SumsUp(w, s, g)
<1>1. \A s \in SUBSET S : IsFiniteSet(s) /\ Weighs(w, s)
  BY FS_Subset DEF Weighs
<1>2. ASSUME NEW s, IsFiniteSet(s), Weighs(w, s)
      PROVE  \E g : Ways(s, g)
  BY <1>2, SumRecursion
<1>3. SumOver(w, {}) = 0
  <2>1. IsFiniteSet({}) /\ Weighs(w, {})
    BY FS_EmptySet DEF Weighs
  <2>2. PICK g : Ways({}, g)
    BY <1>2, <2>1
  <2> QED
    BY <2>2 DEF SumsUp
<1>4. \A s \in SUBSET S : SumOver(w, s) \in Nat
  <2> TAKE s \in SUBSET S
  <2>1. PICK g : Ways(s, g)
    BY <1>1, <1>2
  <2>2. g[s] \in Nat
    BY <1>1, <2>1, SumInAnyOrder
  <2> QED
    BY <2>1, <2>2
<1>5. PICK g : Ways(S, g)
  BY <1>2
<1>6. \A s \in SUBSET S : g[s] \in Nat /\ \A x \in s : g[s] = w[x] + g[s \ {x}]
  BY <1>5, SumInAnyOrder
<1> DEFINE Same == {s \in SUBSET S : SumOver(w, s) = g[s]}
<1>7. {} \in Same
  BY <1>3, <1>5 DEF SumsUp
<1>8. ASSUME NEW s \in SUBSET S, s # {}, \A x \in s : s \ {x} \in Same
      PROVE  s \in Same
  <2>1. PICK h : Ways(s, h)
    BY <1>1, <1>2
  <2>2. PICK x \in s : h[s] = w[x] + h[s \ {x}]
    BY <1>8, <2>1 DEF SumsUp
  <2>3. SumsUp(w, s \ {x}, h)
    BY <2>1 DEF SumsUp
  <2>4. g[s] = w[x] + g[s \ {x}] /\ g[s \ {x}] = SumOver(w, s \ {x})
    BY <1>6, <1>8
  <2> DEFINE t == s \ {x}
             Agree == {u \in SUBSET t : h[u] = g[u]}
  <2>5. SUBSET t \subseteq Agree
    <3>1. IsFiniteSet(t) /\ Weighs(w, t)
      BY <1>1
    <3>2. {} \in Agree
      BY <1>5, <2>1 DEF SumsUp
    <3>3. \A u \in SUBSET t : \A y \in u : h[u] = w[y] + h[u \ {y}]
      <4> HIDE DEF t
      <4>1. SumsUp(w, t, h)
        BY <2>3 DEF t
      <4>2. \A u \in SUBSET t :
               h[u] \in Nat /\ \A y \in u : h[u] = w[y] + h[u \ {y}]
        BY <3>1, <4>1, SumInAnyOrder
      <4> QED
        BY <4>2
    <3>4. \A u \in SUBSET t : \A y \in u : g[u] = w[y] + g[u \ {y}]
      BY <1>6
    <3>5. ASSUME NEW u \in SUBSET t, u # {}, \A y \in u : u \ {y} \in Agree
          PROVE  u \in Agree
      <4>1. PICK y \in u : TRUE
        BY <3>5
      <4>2. h[u \ {y}] = g[u \ {y}]
        BY <3>5
      <4> QED
        BY <3>3, <3>4, <4>1, <4>2
    <3> HIDE DEF Agree, t
    <3> QED
      BY <3>1, <3>2, <3>5, SubsetsGrow
  <2>6. h[t] = g[t]
    BY <2>5
  <2> QED
    BY <2>1, <2>2, <2>4, <2>6
<1> HIDE DEF Same
<1>9. SUBSET S \subseteq Same
  BY <1>7, <1>8, SubsetsGrow
<1>10. ASSUME NEW x \in S
       PROVE  SumOver(w, S) = w[x] + SumOver(w, S \ {x})
  <2>1. SumOver(w, S) = g[S] /\ SumOver(w, S \ {x}) = g[S \ {x}]
    BY <1>9 DEF Same
  <2> QED
    BY <1>6, <2>1
<1> QED
  BY <1>3, <1>4, <1>10

\* The sum is the one thing that sums up the weights.
LEMMA SumIs ==
    ASSUME NEW S, IsFiniteSet(S), NEW w, Weighs(w, S), NEW g, SumsUp(w, S, g)
    PROVE  g[S] = SumOver(w, S)
<1> DEFINE Good == {s \in SUBSET S : g[s] = SumOver(w, s)}
<1>1. {} \in Good
  BY SumTakesOut DEF SumsUp
<1>2. ASSUME NEW s \in SUBSET S, s # {}, \A x \in s : s \ {x} \in Good
      PROVE  s \in Good
  <2>1. PICK x \in s : g[s] = w[x] + g[s \ {x}]
    BY <1>2 DEF SumsUp
  <2>2. IsFiniteSet(s) /\ Weighs(w, s)
    BY FS_Subset DEF Weighs
  <2>3. SumOver(w, s) = w[x] + SumOver(w, s \ {x})
    BY <2>2, SumTakesOut
  <2> QED
    BY <1>2, <2>1, <2>3
<1> HIDE DEF Good
<1>3. SUBSET S \subseteq Good
  BY <1>1, <1>2, SubsetsGrow
<1> QED
  BY <1>3 DEF Good

\* A sum depends on the weights of its elements alone.
LEMMA SumSame ==
    ASSUME NEW S, IsFiniteSet(S), NEW w, Weighs(w, S), NEW v,
           \A x \in S : v[x] = w[x]
    PROVE  SumOver(v, S) = SumOver(w, S)
<1>1. Weighs(v, S)
  BY DEF Weighs
<1>2. PICK g : SumOver(v, S) = g[S] /\ SumsUp(v, S, g)
  BY SumRecursion
<1>3. SumsUp(w, S, g)
  BY <1>2 DEF SumsUp
<1> QED
  BY <1>2, <1>3, SumIs

\* The sum over two sets that do not meet.
LEMMA SumUnion ==
    ASSUME NEW S, NEW T, IsFiniteSet(S), IsFiniteSet(T), S \cap T = {},
           NEW w, Weighs(w, S), Weighs(w, T)
    PROVE  /\ IsFiniteSet(S \cup T)
           /\ Weighs(w, S \cup T)
           /\ SumOver(w, S \cup T) = SumOver(w, S) + SumOver(w, T)
<1>0. IsFiniteSet(S \cup T) /\ Weighs(w, S \cup T)
  BY FS_Union DEF Weighs
<1> DEFINE Good == {s \in SUBSET S : SumOver(w, s \cup T) = SumOver(w, s) + SumOver(w, T)}
<1>1. {} \in Good
  <2>1. {} \cup T = T
    OBVIOUS
  <2>2. SumOver(w, {}) = 0 /\ SumOver(w, T) \in Nat
    BY SumTakesOut
  <2> QED
    BY <2>1, <2>2
<1>2. ASSUME NEW s \in SUBSET S, s # {}, \A x \in s : s \ {x} \in Good
      PROVE  s \in Good
  <2>1. PICK x \in s : TRUE
    BY <1>2
  <2>2. IsFiniteSet(s) /\ Weighs(w, s) /\ IsFiniteSet(s \ {x}) /\ Weighs(w, s \ {x})
    BY FS_Subset DEF Weighs
  <2>3. IsFiniteSet(s \cup T) /\ Weighs(w, s \cup T)
    BY <1>0, <2>2, FS_Union DEF Weighs
  <2>4. SumOver(w, s) = w[x] + SumOver(w, s \ {x})
    BY <2>2, SumTakesOut
  <2>5. SumOver(w, s \cup T) = w[x] + SumOver(w, (s \cup T) \ {x})
    BY <2>3, SumTakesOut
  <2>6. (s \cup T) \ {x} = (s \ {x}) \cup T
    OBVIOUS
  <2>7. SumOver(w, (s \ {x}) \cup T) = SumOver(w, s \ {x}) + SumOver(w, T)
    BY <1>2
  <2>8. w[x] \in Nat /\ SumOver(w, s \ {x}) \in Nat /\ SumOver(w, T) \in Nat
    BY <2>2, SumTakesOut DEF Weighs
  <2>9. SumOver(w, s \cup T) = w[x] + (SumOver(w, s \ {x}) + SumOver(w, T))
    BY <2>5, <2>6, <2>7
  <2>10. SumOver(w, s \cup T) = SumOver(w, s) + SumOver(w, T)
    BY <2>4, <2>8, <2>9
  <2> QED
    BY <2>10
<1> HIDE DEF Good
<1>3. SUBSET S \subseteq Good
  BY <1>1, <1>2, SubsetsGrow
<1> QED
  BY <1>0, <1>3 DEF Good

\* The sum over a part is the smaller one.
LEMMA SumOfPart ==
    ASSUME NEW S, IsFiniteSet(S), NEW T \in SUBSET S, NEW w, Weighs(w, S)
    PROVE  /\ SumOver(w, T) \in Nat /\ SumOver(w, S) \in Nat
           /\ SumOver(w, T) <= SumOver(w, S)
<1>1. IsFiniteSet(T) /\ IsFiniteSet(S \ T) /\ Weighs(w, T) /\ Weighs(w, S \ T)
  BY FS_Subset DEF Weighs
<1>2. T \cap (S \ T) = {} /\ T \cup (S \ T) = S
  OBVIOUS
<1>3. SumOver(w, T \cup (S \ T)) = SumOver(w, T) + SumOver(w, S \ T)
  BY <1>1, <1>2, SumUnion
<1>4. SumOver(w, T) \in Nat /\ SumOver(w, S \ T) \in Nat /\ SumOver(w, S) \in Nat
  BY <1>1, SumTakesOut
<1> QED
  BY <1>2, <1>3, <1>4

\* The numbers of S, moved up by k.
Up(k, S) == {k + i : i \in S}

\* Weights moved up by k sum up to the same.
LEMMA SumShifted ==
    ASSUME NEW S, IsFiniteSet(S), S \subseteq Nat, NEW k \in Nat,
           NEW w, NEW v, Weighs(v, S), \A i \in S : w[k + i] = v[i]
    PROVE  /\ IsFiniteSet(Up(k, S))
           /\ Weighs(w, Up(k, S))
           /\ SumOver(w, Up(k, S)) = SumOver(v, S)
<1>1. \A s \in SUBSET S : IsFiniteSet(s) /\ Weighs(v, s)
  BY FS_Subset DEF Weighs
<1>2. \A s \in SUBSET S : IsFiniteSet(Up(k, s)) /\ Weighs(w, Up(k, s))
  <2> TAKE s \in SUBSET S
  <2>1. IsFiniteSet(Up(k, s))
    <3> DEFINE f == [i \in s |-> k + i]
    <3>1. f \in Surjection(s, Up(k, s))
      BY DEF Surjection, Up
    <3> HIDE DEF f
    <3> QED
      BY <1>1, <3>1, FS_Surjection
  <2>2. Weighs(w, Up(k, s))
    BY <1>1 DEF Weighs, Up
  <2> QED
    BY <2>1, <2>2
<1> DEFINE Good == {s \in SUBSET S : SumOver(w, Up(k, s)) = SumOver(v, s)}
<1>3. {} \in Good
  <2>1. Up(k, {}) = {}
    BY DEF Up
  <2>2. SumOver(w, {}) = 0 /\ SumOver(v, {}) = 0
    <3>1. Weighs(w, {}) /\ Weighs(v, {}) /\ IsFiniteSet({})
      BY FS_EmptySet DEF Weighs
    <3> QED
      BY <3>1, SumTakesOut
  <2> QED
    BY <2>1, <2>2
<1>4. ASSUME NEW s \in SUBSET S, s # {}, \A x \in s : s \ {x} \in Good
      PROVE  s \in Good
  <2>1. PICK x \in s : TRUE
    BY <1>4
  <2>2. SumOver(v, s) = v[x] + SumOver(v, s \ {x})
    BY <1>1, SumTakesOut
  <2>3. k + x \in Up(k, s) /\ Up(k, s) \ {k + x} = Up(k, s \ {x})
    BY DEF Up
  <2>4. SumOver(w, Up(k, s)) = w[k + x] + SumOver(w, Up(k, s) \ {k + x})
    BY <1>2, <2>3, SumTakesOut
  <2>5. SumOver(w, Up(k, s \ {x})) = SumOver(v, s \ {x})
    BY <1>4
  <2>6. w[k + x] = v[x]
    OBVIOUS
  <2> QED
    BY <2>2, <2>3, <2>4, <2>5, <2>6
<1> HIDE DEF Good
<1>5. SUBSET S \subseteq Good
  BY <1>3, <1>4, SubsetsGrow
<1> QED
  BY <1>2, <1>5 DEF Good


-----------------------------------------------------------------------------
(* Deques of balances *)

\* Balances of the addresses A, None among them for what was minted or premined.
Deques(A) == Seq([address : A, amount : Nat])

Amounts(l) == [i \in DOMAIN l |-> l[i].amount]

\* What the addresses in Q have in the deque l.
AmountFrom(l, Q) == SumOver(Amounts(l), {i \in DOMAIN l : l[i].address \in Q})

LEMMA DequeElements ==
    ASSUME NEW A, NEW l \in Deques(A)
    PROVE  /\ Len(l) \in Nat
           /\ DOMAIN l = 1..Len(l)
           /\ \A i \in 1..Len(l) : l[i].amount \in Nat /\ l[i].address \in A
<1>1. Len(l) \in Nat /\ DOMAIN l = 1..Len(l)
  BY DEF Deques
<1>2. \A i \in 1..Len(l) : l[i] \in [address : A, amount : Nat]
  <2> DEFINE R == [address : A, amount : Nat]
  <2>1. l \in Seq(R)
    BY DEF Deques
  <2> HIDE DEF R
  <2>2. \A i \in 1..Len(l) : l[i] \in R
    BY <2>1
  <2> QED
    BY <2>2 DEF R
<1> QED
  BY <1>1, <1>2

LEMMA AmountsAtIsSum ==
    ASSUME NEW l, NEW T, IsFiniteSet(T), T \subseteq DOMAIN l,
           \A i \in T : l[i].amount \in Nat
    PROVE  AmountsAt(l, T) = SumOver(Amounts(l), T) /\ Weighs(Amounts(l), T)
<1>1. PICK g : AmountsAt(l, T) = g[T] /\ AmountsUp(l, T, g)
  BY AmountsRecursion
<1>2. Weighs(Amounts(l), T)
  BY DEF Weighs, Amounts
<1>3. SumsUp(Amounts(l), T, g)
  BY <1>1 DEF Amounts, SumsUp, AmountsUp
<1> QED
  BY <1>1, <1>2, <1>3, SumIs

LEMMA AmountOfIsSum ==
    ASSUME NEW A, NEW l \in Deques(A)
    PROVE  /\ AmountOf(l) = SumOver(Amounts(l), DOMAIN l)
           /\ AmountOf(l) = AmountFrom(l, A)
           /\ AmountOf(l) \in Nat
           /\ IsFiniteSet(DOMAIN l) /\ Weighs(Amounts(l), DOMAIN l)
<1> DEFINE n == Len(l)
<1>1. n \in Nat /\ DOMAIN l = 1..n /\ \A i \in 1..n : l[i].amount \in Nat /\ l[i].address \in A
  BY DequeElements
<1> HIDE DEF n
<1>2. PICK g : /\ AmountOf(l) = g[1..n]
               /\ g[{}] = 0
               /\ \A s \in SUBSET (1..n) : s # {} =>
                     LET x == Max(s)
                     IN  x \in s /\ g[s] = g[s \ {x}] + l[x].amount
  BY <1>1, AmountOfRecursion
<1>3. IsFiniteSet(1..n) /\ Weighs(Amounts(l), 1..n)
  <2>1. IsFiniteSet(1..n)
    BY <1>1, FS_Interval
  <2>2. Weighs(Amounts(l), 1..n)
    BY <1>1 DEF Weighs, Amounts
  <2> QED
    BY <2>1, <2>2
<1>4. \A s \in SUBSET (1..n) : s # {} =>
          \E x \in s : g[s] = g[s \ {x}] + l[x].amount
  BY <1>2
<1> DEFINE good == {s \in SUBSET (1..n) : g[s] \in Nat}
<1>5. SUBSET (1..n) \subseteq good
  <2>1. {} \in good
    BY <1>2
  <2>2. ASSUME NEW s \in SUBSET (1..n), s # {}, \A x \in s : s \ {x} \in good
        PROVE  s \in good
    <3>1. PICK x \in s : g[s] = g[s \ {x}] + l[x].amount
      BY <1>4, <2>2
    <3>2. g[s \ {x}] \in Nat /\ l[x].amount \in Nat
      BY <1>1, <2>2
    <3> QED
      BY <3>1, <3>2
  <2> DEFINE all == 1..n
  <2>3. IsFiniteSet(all) /\ \A s \in SUBSET all :
            s # {} /\ (\A x \in s : s \ {x} \in good) => s \in good
    BY <1>3, <2>2
  <2> HIDE DEF good, all
  <2>4. SUBSET all \subseteq good
    BY <2>1, <2>3, SubsetsGrow
  <2> QED
    BY <2>4 DEF all
<1>6. SumsUp(Amounts(l), 1..n, g)
  <2>1. ASSUME NEW s \in SUBSET (1..n), s # {}
        PROVE  \E x \in s : g[s] = Amounts(l)[x] + g[s \ {x}]
    <3>1. PICK x \in s : g[s] = g[s \ {x}] + l[x].amount
      BY <1>4, <2>1
    <3>2. g[s \ {x}] \in Nat /\ l[x].amount \in Nat /\ Amounts(l)[x] = l[x].amount
      BY <1>1, <1>5 DEF Amounts
    <3>3. g[s] = Amounts(l)[x] + g[s \ {x}]
      BY <3>1, <3>2
    <3> QED
      BY <3>3
  <2> QED
    BY <1>2, <2>1 DEF SumsUp
<1>7. AmountOf(l) = SumOver(Amounts(l), 1..n)
  BY <1>2, <1>3, <1>6, SumIs
<1>8. SumOver(Amounts(l), 1..n) \in Nat
  BY <1>3, SumTakesOut
<1>9. {i \in DOMAIN l : l[i].address \in A} = 1..n
  BY <1>1
<1> QED
  BY <1>1, <1>3, <1>7, <1>8, <1>9 DEF AmountFrom

\* What a balance at the end adds.
LEMMA AmountFromAppend ==
    ASSUME NEW A, NEW l \in Deques(A), NEW b \in [address : A, amount : Nat], NEW Q
    PROVE  /\ Append(l, b) \in Deques(A)
           /\ AmountFrom(l, Q) \in Nat
           /\ AmountFrom(Append(l, b), Q)
                  = AmountFrom(l, Q) + (IF b.address \in Q THEN b.amount ELSE 0)
<1> DEFINE n == Len(l)
           m == Append(l, b)
           S == {i \in DOMAIN l : l[i].address \in Q}
           T == {i \in DOMAIN m : m[i].address \in Q}
<1>1. /\ m \in Deques(A) /\ n \in Nat /\ DOMAIN l = 1..n /\ DOMAIN m = 1..(n + 1)
      /\ m[n + 1] = b /\ \A i \in 1..n : m[i] = l[i]
  BY DEF Deques
<1>2. \A i \in 1..n : l[i].amount \in Nat
  BY <1>1, DequeElements
<1> HIDE DEF n, m
<1>3. IsFiniteSet(S) /\ IsFiniteSet(T) /\ S \subseteq 1..n /\ T \subseteq 1..(n + 1)
  <2>1. IsFiniteSet(1..n) /\ IsFiniteSet(1..(n + 1))
    BY <1>1, FS_Interval
  <2> QED
    BY <1>1, <2>1, FS_Subset
<1>4. Weighs(Amounts(l), S) /\ Weighs(Amounts(m), T)
  <2>1. \A i \in 1..(n + 1) : m[i].amount \in Nat
    <3>1. b.amount \in Nat
      OBVIOUS
    <3> QED
      BY <1>1, <1>2, <3>1
  <2> QED
    BY <1>1, <1>2, <1>3, <2>1 DEF Weighs, Amounts
<1>5. \A i \in S : Amounts(m)[i] = Amounts(l)[i]
  BY <1>1, <1>3 DEF Amounts
<1>6. SumOver(Amounts(m), S) = SumOver(Amounts(l), S)
  BY <1>3, <1>4, <1>5, SumSame
<1>7. SumOver(Amounts(l), S) \in Nat
  BY <1>3, <1>4, SumTakesOut
<1>8. AmountFrom(l, Q) = SumOver(Amounts(l), S) /\ m = Append(l, b)
       /\ AmountFrom(m, Q) = SumOver(Amounts(m), T)
  BY DEF AmountFrom, m
<1>9. CASE b.address \in Q
  <2>1. T \ {n + 1} = S /\ n + 1 \in T
    BY <1>1, <1>9
  <2>2. SumOver(Amounts(m), T) = Amounts(m)[n + 1] + SumOver(Amounts(m), T \ {n + 1})
    BY <1>3, <1>4, <2>1, SumTakesOut
  <2>3. Amounts(m)[n + 1] = b.amount /\ b.amount \in Nat
    BY <1>1 DEF Amounts
  <2> HIDE DEF S, T
  <2>4. SumOver(Amounts(m), T \ {n + 1}) = SumOver(Amounts(l), S)
    BY <1>6, <2>1
  <2>5. SumOver(Amounts(m), T) = b.amount + SumOver(Amounts(l), S)
    BY <2>2, <2>3, <2>4
  <2>6. SumOver(Amounts(m), T) = SumOver(Amounts(l), S) + b.amount
    BY <1>7, <2>3, <2>5
  <2> QED
    BY <1>1, <1>7, <1>9, <2>6, <1>8
<1>10. CASE b.address \notin Q
  <2>1. T = S
    BY <1>1, <1>10
  <2> HIDE DEF S, T
  <2>2. SumOver(Amounts(m), T) = SumOver(Amounts(l), S) + 0
    BY <1>6, <1>7, <2>1
  <2> QED
    BY <1>1, <1>7, <1>10, <2>2, <1>8
<1> QED
  BY <1>9, <1>10

LEMMA AmountFromEmpty ==
    ASSUME NEW A, NEW Q
    PROVE  <<>> \in Deques(A) /\ AmountFrom(<<>>, Q) = 0 /\ AmountOf(<<>>) = 0
<1>1. <<>> \in Deques(A)
  BY DEF Deques
<1>2. {i \in DOMAIN <<>> : <<>>[i].address \in Q} = {} /\ DOMAIN <<>> = {}
  OBVIOUS
<1>3. IsFiniteSet({}) /\ Weighs(Amounts(<<>>), {})
  BY FS_EmptySet DEF Weighs
<1>4. SumOver(Amounts(<<>>), {}) = 0
  BY <1>3, SumTakesOut
<1>5. AmountOf(<<>>) = SumOver(Amounts(<<>>), DOMAIN <<>>)
  BY <1>1, AmountOfIsSum
<1> QED
  BY <1>1, <1>2, <1>4, <1>5 DEF AmountFrom

\* A part of the addresses has a part of the amounts.
LEMMA AmountFromPart ==
    ASSUME NEW A, NEW l \in Deques(A), NEW Q
    PROVE  AmountFrom(l, Q) \in Nat /\ AmountFrom(l, Q) <= AmountOf(l)
<1> DEFINE S == {i \in DOMAIN l : l[i].address \in Q}
<1>1. IsFiniteSet(DOMAIN l) /\ Weighs(Amounts(l), DOMAIN l)
      /\ AmountOf(l) = SumOver(Amounts(l), DOMAIN l)
  BY AmountOfIsSum
<1>2. S \in SUBSET DOMAIN l
  OBVIOUS
<1> HIDE DEF S
<1>3. SumOver(Amounts(l), S) \in Nat /\ SumOver(Amounts(l), S) <= SumOver(Amounts(l), DOMAIN l)
  BY <1>1, <1>2, SumOfPart
<1> QED
  BY <1>1, <1>3 DEF AmountFrom, S


-----------------------------------------------------------------------------
(* TakeBalance: what is sent and what is left *)

NothingTaken == [sent |-> 0, senders |-> <<>>, left |-> <<>>, done |-> FALSE]

\* The rounds of TakeBalance.
Takes(b, amount, n, h) ==
    /\ h[0] = NothingTaken
    /\ \A k \in 1..n : h[k] = PopBalance(amount, h[k - 1], b[k])

\* The greatest of the first k places.
LEMMA MaxOfFirst ==
    ASSUME NEW k \in Nat \ {0}
    PROVE  Max(1..k) = k /\ (1..k) \ {k} = 1..(k - 1)
<1> DEFINE T == 1..k
<1>1. T \subseteq Nat /\ T # {} /\ k \in Int /\ \A n \in T : n <= k
  OBVIOUS
<1>2. \A n \in T : k <= n => n = k
  OBVIOUS
<1>3. k \in T
  OBVIOUS
<1> HIDE DEF T
<1>4. Max(T) \in T /\ \A m \in T : m <= Max(T)
  BY <1>1, MaxNatural
<1>5. Max(T) = k
  BY <1>2, <1>3, <1>4
<1>6. (1..k) \ {k} = 1..(k - 1)
  OBVIOUS
<1> QED
  BY <1>5, <1>6 DEF T

LEMMA TakeTrace ==
    ASSUME NEW b, NEW n \in Nat, DOMAIN b = 1..n, NEW amount
    PROVE  \E h : Takes(b, amount, n, h) /\ TakeBalance(b, amount) = h[n]
<1> DEFINE S == (1..n)
           base == NothingTaken
           Op(x, y) == PopBalance(amount, y, b[x])
           Ch(s) == Max(s)
           iter == CHOOSE g : g = [s \in SUBSET S |->
                      IF s = {} THEN base ELSE Op(Ch(s), g[s \ {Ch(s)}])]
<1>1. TakeBalance(b, amount) = iter[S]
  BY Zenon DEF TakeBalance, NothingTaken, FoldLeft, MapThenFoldSet
<1> HIDE DEF base, Op
<1>2. \A s \in SUBSET S : IsFiniteSet(s) /\ Cardinality(s) \in Nat
  <2>1. IsFiniteSet(S)
    BY FS_Interval
  <2> QED
    BY <2>1, FS_Subset, FS_CardinalityType
<1>3. ASSUME NEW s \in SUBSET S, s # {}
      PROVE  Ch(s) \in s
  <2>1. s \subseteq Nat /\ \A i \in s : i <= n
    OBVIOUS
  <2>2. n \in Int
    OBVIOUS
  <2> QED
    BY <1>3, <2>1, <2>2, MaxNatural
<1> HIDE DEF Ch, S
<1>4. \A s \in SUBSET S : s # {} => Cardinality(s \ {Ch(s)}) = Cardinality(s) - 1
  BY <1>2, <1>3, FS_RemoveElement
<1>5. \A s \in SUBSET S : Cardinality(s) = 0 <=> s = {}
  BY <1>2, FS_EmptySet
<1> DEFINE Eq(g, s) == g[s] = IF s = {} THEN base ELSE Op(Ch(s), g[s \ {Ch(s)}])
           Solved(k) == \E g : \A s \in SUBSET S : Cardinality(s) <= k => Eq(g, s)
           good == {k \in Nat : Solved(k)}
<1>6. 0 \in good
  <2> DEFINE h == [s \in SUBSET S |-> base]
  <2>1. \A s \in SUBSET S : Cardinality(s) <= 0 => Eq(h, s)
    BY <1>2, <1>5
  <2> HIDE DEF h
  <2> QED
    BY <2>1
<1>7. ASSUME NEW k \in Nat, k \in good
      PROVE  k + 1 \in good
  <2>1. PICK g : \A s \in SUBSET S : Cardinality(s) <= k => Eq(g, s)
    BY <1>7
  <2> DEFINE h == [s \in SUBSET S |-> IF Cardinality(s) <= k THEN g[s]
                                      ELSE Op(Ch(s), g[s \ {Ch(s)}])]
  <2>2. ASSUME NEW s \in SUBSET S, Cardinality(s) <= k + 1
        PROVE  Eq(h, s)
    <3>1. CASE s = {}
      <4>1. Cardinality(s) <= k /\ h[s] = g[s]
        BY <1>5, <3>1
      <4> QED
        BY <2>1, <3>1, <4>1
    <3>2. CASE s # {}
      <4>1. s \ {Ch(s)} \in SUBSET S /\ Cardinality(s \ {Ch(s)}) <= k
        BY <1>2, <1>4, <2>2, <3>2
      <4>2. h[s \ {Ch(s)}] = g[s \ {Ch(s)}]
        BY <4>1
      <4>3. h[s] = Op(Ch(s), g[s \ {Ch(s)}])
        BY <2>1, <3>2
      <4> QED
        BY <3>2, <4>2, <4>3
    <3> QED
      BY <3>1, <3>2
  <2> HIDE DEF h, Eq
  <2>3. Solved(k + 1)
    BY <2>2
  <2> HIDE DEF Solved
  <2> QED
    BY <2>3
<1>8. Cardinality(S) \in good
  <2> HIDE DEF good
  <2>1. Nat \subseteq good
    BY <1>6, <1>7, NatGrows
  <2>2. Cardinality(S) \in Nat
    BY <1>2
  <2> QED
    BY <2>1, <2>2
<1>9. PICK f : \A s \in SUBSET S : Eq(f, s)
  <2>1. PICK f : \A s \in SUBSET S : Cardinality(s) <= Cardinality(S) => Eq(f, s)
    BY <1>8
  <2>2. \A s \in SUBSET S : Cardinality(s) <= Cardinality(S)
    BY <1>2, FS_Subset
  <2> QED
    BY <2>1, <2>2
<1>10. iter = [s \in SUBSET S |->
                      IF s = {} THEN base ELSE Op(Ch(s), iter[s \ {Ch(s)}])]
  <2> DEFINE h == [s \in SUBSET S |-> f[s]]
  <2>1. h = [s \in SUBSET S |->
                      IF s = {} THEN base ELSE Op(Ch(s), h[s \ {Ch(s)}])]
    BY <1>9
  <2> HIDE DEF h
  <2> QED
    BY <2>1
<1> HIDE DEF iter
<1>11. iter[{}] = base
  BY <1>10
<1>12. \A s \in SUBSET S : s # {} => Ch(s) \in s /\ iter[s] = Op(Ch(s), iter[s \ {Ch(s)}])
  BY <1>3, <1>10
<1> DEFINE h == [k \in 0..n |-> iter[1..k]]
<1>13. h[0] = NothingTaken
  <2>1. 1..0 = {}
    OBVIOUS
  <2> QED
    BY <1>11, <2>1 DEF base
<1>14. ASSUME NEW k \in 1..n
       PROVE  h[k] = PopBalance(amount, h[k - 1], b[k])
  <2>1. 1..k \in SUBSET S /\ 1..k # {}
    <3>1. k \in 1..k /\ \A i \in 1..k : i \in 1..n
      OBVIOUS
    <3> QED
      BY <3>1 DEF S
  <2>2. Ch(1..k) = k /\ (1..k) \ {k} = 1..(k - 1)
    BY MaxOfFirst DEF Ch
  <2>3. iter[1..k] = Op(k, iter[1..(k - 1)])
    BY <1>12, <2>1, <2>2
  <2>4. h[k] = iter[1..k] /\ h[k - 1] = iter[1..(k - 1)]
    OBVIOUS
  <2> QED
    BY <2>3, <2>4 DEF Op
<1>15. h[n] = iter[S]
  BY DEF S
<1> HIDE DEF h
<1> QED
  BY <1>1, <1>13, <1>14, <1>15 DEF Takes

Takings(A) == [sent : Nat, senders : Deques(A \ {None}), left : Deques(A), done : BOOLEAN]

\* One round neither makes up nor loses anything.
LEMMA PopStep ==
    ASSUME NEW A, NEW bal \in [address : A, amount : Nat], NEW amount \in Nat,
           NEW acc \in Takings(A), ~acc.done /\ amount # 0 => acc.sent < amount
    PROVE  LET new == PopBalance(amount, acc, bal)
           IN  /\ new \in Takings(A)
               /\ ~new.done /\ amount # 0 => new.sent < amount
               /\ new.sent + AmountFrom(new.left, A)
                      = acc.sent + AmountFrom(acc.left, A) + bal.amount
               /\ AmountFrom(acc.senders, A) <= acc.sent =>
                      AmountFrom(new.senders, A) <= new.sent
               /\ \A Q \in SUBSET (A \ {None}) :
                      AmountFrom(new.senders, Q) + AmountFrom(new.left, Q)
                          = AmountFrom(acc.senders, Q) + AmountFrom(acc.left, Q)
                                + (IF bal.address \in Q THEN bal.amount ELSE 0)
<1> DEFINE new == PopBalance(amount, acc, bal)
<1>0. /\ acc.sent \in Nat /\ acc.senders \in Deques(A \ {None}) /\ acc.left \in Deques(A)
      /\ bal.address \in A /\ bal.amount \in Nat
  BY DEF Takings
<1>1. ASSUME NEW Q
      PROVE  /\ AmountFrom(acc.left, Q) \in Nat /\ AmountFrom(acc.senders, Q) \in Nat
             /\ \A n \in Nat :
                   LET part == [address |-> bal.address, amount |-> n]
                   IN  /\ Append(acc.left, part) \in Deques(A)
                       /\ AmountFrom(Append(acc.left, part), Q) = AmountFrom(acc.left, Q)
                              + (IF bal.address \in Q THEN n ELSE 0)
                       /\ bal.address # None =>
                            /\ Append(acc.senders, part) \in Deques(A \ {None})
                            /\ AmountFrom(Append(acc.senders, part), Q)
                                 = AmountFrom(acc.senders, Q)
                                     + (IF bal.address \in Q THEN n ELSE 0)
  <2>1. AmountFrom(acc.left, Q) \in Nat /\ AmountFrom(acc.senders, Q) \in Nat
    BY <1>0, AmountFromPart
  <2>2. ASSUME NEW n \in Nat, NEW part, part = [address |-> bal.address, amount |-> n]
        PROVE  /\ Append(acc.left, part) \in Deques(A)
               /\ AmountFrom(Append(acc.left, part), Q) = AmountFrom(acc.left, Q)
                       + (IF bal.address \in Q THEN n ELSE 0)
    <3>1. part \in [address : A, amount : Nat] /\ part.address = bal.address /\ part.amount = n
      BY <1>0, <2>2
    <3>2. /\ Append(acc.left, part) \in Deques(A)
          /\ AmountFrom(Append(acc.left, part), Q)
                 = AmountFrom(acc.left, Q) + (IF part.address \in Q THEN part.amount ELSE 0)
      BY <1>0, <3>1, AmountFromAppend
    <3> QED
      BY <3>1, <3>2
  <2>3. ASSUME NEW n \in Nat, NEW part, part = [address |-> bal.address, amount |-> n],
               bal.address # None
        PROVE  /\ Append(acc.senders, part) \in Deques(A \ {None})
               /\ AmountFrom(Append(acc.senders, part), Q) = AmountFrom(acc.senders, Q)
                       + (IF bal.address \in Q THEN n ELSE 0)
    <3>1. part \in [address : A \ {None}, amount : Nat] /\ part.address = bal.address
          /\ part.amount = n
      BY <1>0, <2>3
    <3>2. /\ Append(acc.senders, part) \in Deques(A \ {None})
          /\ AmountFrom(Append(acc.senders, part), Q)
                 = AmountFrom(acc.senders, Q) + (IF part.address \in Q THEN part.amount ELSE 0)
      BY <1>0, <3>1, AmountFromAppend
    <3> QED
      BY <3>1, <3>2
  <2> QED
    BY <2>1, <2>2, <2>3
<1>2. bal = [address |-> bal.address, amount |-> bal.amount]
  OBVIOUS
<1>3. CASE acc.done
  <2>1. new = [acc EXCEPT !.left = Append(@, bal)]
    BY <1>3 DEF PopBalance
  <2>2. /\ new.sent = acc.sent /\ new.senders = acc.senders /\ new.done
        /\ new.left = Append(acc.left, bal)
    BY <1>3, <2>1 DEF Takings
  <2>3. Append(acc.left, bal) \in Deques(A)
    BY <1>0, <1>1, <1>2
  <2>4. new \in Takings(A)
    BY <1>3, <2>1, <2>3 DEF Takings
  <2>5. \A Q : AmountFrom(new.left, Q) = AmountFrom(acc.left, Q)
                   + (IF bal.address \in Q THEN bal.amount ELSE 0)
    BY <1>0, <1>1, <1>2, <2>2
  <2>6. new.sent + AmountFrom(new.left, A) = acc.sent + AmountFrom(acc.left, A) + bal.amount
    BY <1>0, <1>1, <2>2, <2>5
  <2>7. ASSUME NEW Q \in SUBSET (A \ {None})
        PROVE  AmountFrom(new.senders, Q) + AmountFrom(new.left, Q)
                          = AmountFrom(acc.senders, Q) + AmountFrom(acc.left, Q)
                                + (IF bal.address \in Q THEN bal.amount ELSE 0)
    BY <1>0, <1>1, <2>2, <2>5
  <2> HIDE DEF new
  <2> QED
    BY <2>2, <2>4, <2>6, <2>7 DEF new
<1>4. CASE ~acc.done
  <2> DEFINE taken == IF amount = 0 THEN bal.amount
                      ELSE AtMost(bal.amount, amount - acc.sent)
             rest  == bal.amount - taken
             part(n) == [address |-> bal.address, amount |-> n]
  <2>1. taken \in Nat /\ rest \in Nat /\ taken + rest = bal.amount
        /\ (amount # 0 => acc.sent + taken <= amount)
        /\ (amount # 0 /\ rest = 0 /\ acc.sent + taken # amount => acc.sent + taken < amount)
    BY <1>0, <1>4 DEF AtMost
  <2>2. new = [sent |-> acc.sent + taken,
               senders |-> IF bal.address = None THEN acc.senders
                           ELSE Append(acc.senders, [bal EXCEPT !.amount = taken]),
               left |-> IF rest > 0 THEN Append(acc.left, [bal EXCEPT !.amount = rest])
                        ELSE acc.left,
               done |-> rest > 0 \/ acc.sent + taken = amount]
    BY <1>4 DEF PopBalance
  <2>3. [bal EXCEPT !.amount = taken] = part(taken) /\ [bal EXCEPT !.amount = rest] = part(rest)
    <3> HIDE DEF taken, rest
    <3> QED
      BY <1>2
  <2> HIDE DEF taken, rest
  <2>4. /\ new.sent = acc.sent + taken
        /\ new.senders = IF bal.address = None THEN acc.senders
                         ELSE Append(acc.senders, part(taken))
        /\ new.left = IF rest > 0 THEN Append(acc.left, part(rest)) ELSE acc.left
        /\ new.done = (rest > 0 \/ acc.sent + taken = amount)
    BY <2>2, <2>3
  <2>5. new.senders \in Deques(A \ {None}) /\ new.left \in Deques(A)
    <3> HIDE DEF new
    <3>1. Append(acc.left, part(rest)) \in Deques(A)
      BY <1>1, <2>1
    <3>2. bal.address # None => Append(acc.senders, part(taken)) \in Deques(A \ {None})
      BY <1>1, <2>1
    <3> HIDE DEF part
    <3>3. new.senders = acc.senders \/ (bal.address # None /\ new.senders = Append(acc.senders, part(taken)))
      BY <2>4
    <3>4. new.left = acc.left \/ new.left = Append(acc.left, part(rest))
      BY <2>4
    <3> QED
      BY <1>0, <3>1, <3>2, <3>3, <3>4
  <2>6. new \in Takings(A)
    <3>1. new.sent \in Nat /\ new.done \in BOOLEAN
      BY <1>0, <2>1, <2>4
    <3>2. new = [sent |-> new.sent, senders |-> new.senders, left |-> new.left, done |-> new.done]
      BY <2>2
    <3> HIDE DEF new
    <3> QED
      BY <2>5, <3>1, <3>2 DEF Takings
  <2>7. ASSUME NEW Q
        PROVE  /\ AmountFrom(new.left, Q) = AmountFrom(acc.left, Q)
                       + (IF bal.address \in Q THEN rest ELSE 0)
               /\ AmountFrom(new.senders, Q) = AmountFrom(acc.senders, Q)
                       + (IF bal.address \in Q /\ bal.address # None THEN taken ELSE 0)
    <3>1. AmountFrom(acc.left, Q) \in Nat /\ AmountFrom(acc.senders, Q) \in Nat
      BY <1>1
    <3> HIDE DEF new
    <3>2. AmountFrom(new.left, Q) = AmountFrom(acc.left, Q)
                       + (IF bal.address \in Q THEN rest ELSE 0)
      <4>1. CASE rest > 0
        BY <1>1, <2>1, <2>4, <4>1
      <4>2. CASE ~(rest > 0)
        <5>1. rest = 0 /\ new.left = acc.left
          BY <2>1, <2>4, <4>2
        <5> QED
          BY <3>1, <5>1
      <4> QED
        BY <4>1, <4>2
    <3>3. AmountFrom(new.senders, Q) = AmountFrom(acc.senders, Q)
                       + (IF bal.address \in Q /\ bal.address # None THEN taken ELSE 0)
      <4>1. CASE bal.address # None
        BY <1>1, <2>1, <2>4, <4>1
      <4>2. CASE bal.address = None
        BY <2>4, <3>1, <4>2
      <4> QED
        BY <4>1, <4>2
    <3> QED
      BY <3>2, <3>3
  <2>8. /\ AmountFrom(acc.left, A) \in Nat /\ AmountFrom(acc.senders, A) \in Nat
        /\ AmountFrom(new.left, A) = AmountFrom(acc.left, A) + rest
        /\ AmountFrom(new.senders, A)
               = AmountFrom(acc.senders, A) + (IF bal.address # None THEN taken ELSE 0)
    BY <1>0, <1>1, <2>7
  <2> HIDE DEF new
  <2>9. ~new.done /\ amount # 0 => new.sent < amount
    <3>1. ~new.done => ~(rest > 0) /\ acc.sent + taken # amount
      BY <2>4, Zenon
    <3>2. ~(rest > 0) => rest = 0
      BY <2>1
    <3> QED
      BY <2>1, <2>4, <3>1, <3>2
  <2>10. new.sent + AmountFrom(new.left, A) = acc.sent + AmountFrom(acc.left, A) + bal.amount
    BY <1>0, <2>1, <2>4, <2>8
  <2>11. AmountFrom(acc.senders, A) <= acc.sent => AmountFrom(new.senders, A) <= new.sent
    BY <1>0, <2>1, <2>4, <2>8
  <2>12. ASSUME NEW Q \in SUBSET (A \ {None})
         PROVE  AmountFrom(new.senders, Q) + AmountFrom(new.left, Q)
                          = AmountFrom(acc.senders, Q) + AmountFrom(acc.left, Q)
                                + (IF bal.address \in Q THEN bal.amount ELSE 0)
    <3>1. AmountFrom(acc.left, Q) \in Nat /\ AmountFrom(acc.senders, Q) \in Nat
      BY <1>1
    <3>2. bal.address \in Q => bal.address # None
      OBVIOUS
    <3> QED
      BY <2>1, <2>7, <3>1, <3>2
  <2> QED
    BY <2>6, <2>9, <2>10, <2>11, <2>12 DEF new
<1> QED
  BY <1>3, <1>4

\* Fewer addresses, fewer deques.
LEMMA SubDeques ==
    ASSUME NEW A, NEW B \in SUBSET A, NEW l \in Deques(B)
    PROVE  l \in Deques(A)
<1> DEFINE R == [address : B, amount : Nat]
           W == [address : A, amount : Nat]
<1>1. l \in Seq(R) /\ R \subseteq W
  BY DEF Deques
<1> HIDE DEF R, W
<1>2. l \in Seq(W)
  BY <1>1
<1> QED
  BY <1>2 DEF Deques, W

\* What TakeBalance takes from a deque and what it leaves are what the deque held, in
\* sum and for each address; the senders account for no more than is sent.
THEOREM TakenAddsUp ==
    ASSUME NEW A, NEW b \in Deques(A), NEW amount \in Nat
    PROVE  LET taken == TakeBalance(b, amount)
           IN  /\ taken \in Takings(A)
               /\ taken.sent + AmountOf(taken.left) = AmountOf(b)
               /\ AmountOf(taken.senders) <= taken.sent
               /\ \A Q \in SUBSET (A \ {None}) :
                      AmountFrom(taken.senders, Q) + AmountFrom(taken.left, Q)
                          = AmountFrom(b, Q)
<1> DEFINE n == Len(b)
<1>1. n \in Nat /\ DOMAIN b = 1..n
  BY DequeElements
<1>2. \A k \in 1..n : b[k] \in [address : A, amount : Nat]
  <2> DEFINE R == [address : A, amount : Nat]
  <2>1. b \in Seq(R)
    BY DEF Deques
  <2> HIDE DEF R
  <2>2. \A i \in 1..Len(b) : b[i] \in R
    BY <2>1
  <2> QED
    BY <2>2 DEF R
<1> HIDE DEF n
<1>3. PICK h : Takes(b, amount, n, h) /\ TakeBalance(b, amount) = h[n]
  BY <1>1, TakeTrace
<1> DEFINE first(k) == SubSeq(b, 1, k)
           Fair(k) ==
               /\ h[k] \in Takings(A)
               /\ ~h[k].done /\ amount # 0 => h[k].sent < amount
               /\ h[k].sent + AmountFrom(h[k].left, A) = AmountFrom(first(k), A)
               /\ AmountFrom(h[k].senders, A) <= h[k].sent
               /\ \A Q \in SUBSET (A \ {None}) :
                      AmountFrom(h[k].senders, Q) + AmountFrom(h[k].left, Q)
                          = AmountFrom(first(k), Q)
           good == {k \in 0..n : Fair(k)}
<1>4. 0 \in good
  <2>1. h[0] = NothingTaken /\ first(0) = <<>>
    BY <1>3 DEF Takes
  <2>2. <<>> \in Deques(A) /\ <<>> \in Deques(A \ {None}) /\ \A Q : AmountFrom(<<>>, Q) = 0
    BY AmountFromEmpty
  <2>3. h[0].sent = 0 /\ h[0].senders = <<>> /\ h[0].left = <<>> /\ h[0].done = FALSE
        /\ h[0] \in Takings(A)
    BY <2>1, <2>2 DEF NothingTaken, Takings
  <2> HIDE DEF first
  <2>4. Fair(0)
    BY <2>1, <2>2, <2>3
  <2> QED
    BY <1>1, <2>4
<1>5. ASSUME NEW k \in 0..(n - 1), k \in good
      PROVE  k + 1 \in good
  <2>1. Fair(k)
    BY <1>5
  <2>2. k + 1 \in 1..n /\ (k + 1) - 1 = k /\ k + 1 \in 0..n
    BY <1>1
  <2>3. h[k + 1] = PopBalance(amount, h[k], b[k + 1])
    BY <1>3, <2>2 DEF Takes
  <2>4. first(k) \in Deques(A) /\ first(k + 1) = Append(first(k), b[k + 1])
    <3> DEFINE R == [address : A, amount : Nat]
    <3>1. b \in Seq(R) /\ n = Len(b)
      BY DEF Deques, n
    <3> HIDE DEF R
    <3>2. first(k) \in Seq(R) /\ first(k + 1) \in Seq(R) /\ Len(first(k)) = k /\ Len(first(k + 1)) = k + 1
          /\ (\A i \in 1..k : first(k)[i] = b[i]) /\ (\A i \in 1..(k + 1) : first(k + 1)[i] = b[i])
      BY <1>1, <2>2, <3>1
    <3> HIDE DEF first
    <3>3. first(k + 1) = Append(first(k), b[k + 1])
      BY <1>1, <2>2, <3>1, <3>2
    <3> QED
      BY <3>2, <3>3 DEF R, Deques
  <2>5. b[k + 1] \in [address : A, amount : Nat]
    BY <1>2, <2>2
  <2> HIDE DEF first
  <2>6. \A Q : /\ AmountFrom(first(k), Q) \in Nat
               /\ AmountFrom(first(k + 1), Q) = AmountFrom(first(k), Q)
                     + (IF b[k + 1].address \in Q THEN b[k + 1].amount ELSE 0)
    <3> TAKE Q
    <3> DEFINE l == first(k)
               x == b[k + 1]
    <3>1. l \in Deques(A) /\ x \in [address : A, amount : Nat] /\ first(k + 1) = Append(l, x)
      BY <2>4, <2>5
    <3> HIDE DEF l, x, first
    <3>2. /\ AmountFrom(l, Q) \in Nat
          /\ AmountFrom(Append(l, x), Q)
                 = AmountFrom(l, Q) + (IF x.address \in Q THEN x.amount ELSE 0)
      <4>1. l \in Deques(A) /\ x \in [address : A, amount : Nat]
        BY <3>1
      <4> QED
        BY <4>1, AmountFromAppend, SMTT(30)
    <3> QED
      BY <3>1, <3>2 DEF l, x
  <2> DEFINE old == h[k]
             new == h[k + 1]
             bal == b[k + 1]
  <2>7. /\ new \in Takings(A)
        /\ ~new.done /\ amount # 0 => new.sent < amount
        /\ new.sent + AmountFrom(new.left, A)
               = old.sent + AmountFrom(old.left, A) + bal.amount
        /\ AmountFrom(old.senders, A) <= old.sent =>
               AmountFrom(new.senders, A) <= new.sent
        /\ \A Q \in SUBSET (A \ {None}) :
               AmountFrom(new.senders, Q) + AmountFrom(new.left, Q)
                   = AmountFrom(old.senders, Q) + AmountFrom(old.left, Q)
                         + (IF bal.address \in Q THEN bal.amount ELSE 0)
    <3>1. old \in Takings(A) /\ (~old.done /\ amount # 0 => old.sent < amount)
      BY <2>1
    <3> HIDE DEF old, bal
    <3>2. bal \in [address : A, amount : Nat] /\ new = PopBalance(amount, old, bal)
      BY <2>3, <2>5 DEF old, bal
    <3> HIDE DEF new
    <3> QED
      BY <3>1, <3>2, PopStep
  <2>8. bal.address \in A /\ bal.amount \in Nat
    BY <2>5
  <2> HIDE DEF bal
  <2>9. new.sent + AmountFrom(new.left, A) = AmountFrom(first(k + 1), A)
    BY <2>1, <2>6, <2>7, <2>8 DEF bal
  <2>10. ASSUME NEW Q \in SUBSET (A \ {None})
         PROVE  AmountFrom(new.senders, Q) + AmountFrom(new.left, Q) = AmountFrom(first(k + 1), Q)
    BY <2>1, <2>6, <2>7, <2>8 DEF bal
  <2>11. AmountFrom(new.senders, A) <= new.sent
    BY <2>1, <2>7
  <2>12. Fair(k + 1)
    BY <2>7, <2>9, <2>10, <2>11
  <2> HIDE DEF Fair
  <2> QED
    BY <2>2, <2>12
<1> HIDE DEF good
<1>6. \A k \in 0..n : k \in good
  BY <1>1, <1>4, <1>5, UpToGrows
<1>7. Fair(n) /\ first(n) = b
  <2>1. n \in good
    BY <1>1, <1>6
  <2>2. SubSeq(b, 1, Len(b)) = b
    BY DEF Deques
  <2> QED
    BY <2>1, <2>2 DEF good, n
<1> DEFINE taken == TakeBalance(b, amount)
<1>8. taken = h[n]
  BY <1>3
<1> HIDE DEF taken, first
<1>9. taken.senders \in Deques(A \ {None}) /\ taken.left \in Deques(A)
  BY <1>7, <1>8 DEF Takings
<1>10. /\ AmountOf(taken.left) = AmountFrom(taken.left, A)
       /\ AmountOf(b) = AmountFrom(b, A)
  BY <1>9, AmountOfIsSum
<1>11. AmountOf(taken.senders) = AmountFrom(taken.senders, A)
  <2>1. taken.senders \in Deques(A)
    BY <1>9, SubDeques
  <2> QED
    BY <2>1, AmountOfIsSum
<1> QED
  BY <1>7, <1>8, <1>10, <1>11 DEF taken

-----------------------------------------------------------------------------
(* What entries pay *)

\* The amounts of the entries of l that are in E.
Paid(l, E) == SumOver(Amounts(l), {i \in DOMAIN l : l[i] \in E})

HasAmounts(E) == \A e \in E : e.amount \in Nat

LEMMA PaidIsNat ==
    ASSUME NEW T, NEW l \in Seq(T), NEW E, HasAmounts(E)
    PROVE  LET S == {i \in DOMAIN l : l[i] \in E}
           IN  /\ IsFiniteSet(S) /\ Weighs(Amounts(l), S) /\ S \subseteq 1..Len(l)
               /\ Paid(l, E) \in Nat
<1> DEFINE S == {i \in DOMAIN l : l[i] \in E}
<1>1. Len(l) \in Nat /\ DOMAIN l = 1..Len(l)
  OBVIOUS
<1>2. IsFiniteSet(S)
  <2>1. IsFiniteSet(1..Len(l))
    BY <1>1, FS_Interval
  <2> QED
    BY <1>1, <2>1, FS_Subset
<1>3. Weighs(Amounts(l), S)
  BY DEF Weighs, Amounts, HasAmounts
<1>4. SumOver(Amounts(l), S) \in Nat
  <2> HIDE DEF S
  <2> QED
    BY <1>2, <1>3, SumTakesOut
<1> QED
  BY <1>1, <1>2, <1>3, <1>4 DEF Paid

LEMMA PaidConcat ==
    ASSUME NEW T, NEW l \in Seq(T), NEW m \in Seq(T), NEW E, HasAmounts(E)
    PROVE  Paid(l \o m, E) = Paid(l, E) + Paid(m, E)
<1> DEFINE n == Len(l)
           c == l \o m
           I == {i \in DOMAIN l : l[i] \in E}
           J == {j \in DOMAIN m : m[j] \in E}
           K == {k \in DOMAIN c : c[k] \in E}
           up == Up(n, J)
<1>1. /\ n \in Nat /\ Len(m) \in Nat /\ DOMAIN l = 1..n /\ DOMAIN m = 1..Len(m)
      /\ c \in Seq(T) /\ DOMAIN c = 1..(n + Len(m))
      /\ \A i \in 1..n : c[i] = l[i]
      /\ \A j \in 1..Len(m) : c[n + j] = m[j]
  OBVIOUS
<1> HIDE DEF n, c
<1>2. /\ IsFiniteSet(I) /\ Weighs(Amounts(l), I) /\ I \subseteq 1..n
      /\ IsFiniteSet(J) /\ Weighs(Amounts(m), J) /\ J \subseteq 1..Len(m)
  BY PaidIsNat DEF n
<1>3. K = I \cup up
  <2>0. up = {n + j : j \in J}
    BY DEF Up
  <2>1. ASSUME NEW k \in K
        PROVE  k \in I \cup {n + j : j \in J}
    <3>1. CASE k <= n
      BY <1>1, <3>1
    <3>2. CASE k > n
      <4>1. k - n \in 1..Len(m) /\ n + (k - n) = k
        BY <1>1, <3>2
      <4>2. m[k - n] = c[k]
        BY <1>1, <4>1
      <4>3. k - n \in J
        BY <1>1, <4>1, <4>2
      <4> QED
        BY <4>1, <4>3
    <3> QED
      BY <1>1, <3>1, <3>2
  <2>2. ASSUME NEW i \in I
        PROVE  i \in K
    BY <1>1
  <2>3. ASSUME NEW j \in J
        PROVE  n + j \in K
    BY <1>1
  <2> HIDE DEF I, J, K, up
  <2> QED
    BY <2>0, <2>1, <2>2, <2>3
<1>4. \A j \in J : Amounts(c)[n + j] = Amounts(m)[j]
  BY <1>1 DEF Amounts
<1>5. \A i \in I : Amounts(c)[i] = Amounts(l)[i]
  BY <1>1 DEF Amounts
<1>6. I \cap up = {}
  BY <1>1, <1>2 DEF Up
<1>7. J \subseteq Nat
  BY <1>1
<1> HIDE DEF I, J, K
<1>8. IsFiniteSet(up) /\ Weighs(Amounts(c), up) /\ SumOver(Amounts(c), up) = SumOver(Amounts(m), J)
  <2> DEFINE w == Amounts(c)
             v == Amounts(m)
  <2>1. n \in Nat /\ IsFiniteSet(J) /\ J \subseteq Nat /\ Weighs(v, J) /\ \A j \in J : w[n + j] = v[j]
    BY <1>1, <1>2, <1>4, <1>7
  <2> HIDE DEF w, v
  <2>2. IsFiniteSet(up) /\ Weighs(w, up) /\ SumOver(w, up) = SumOver(v, J)
    <3> DEFINE s == Up(n, J)
    <3>1. IsFiniteSet(s) /\ Weighs(w, s) /\ SumOver(w, s) = SumOver(v, J)
      BY <2>1, SumShifted, ZenonT(30)
    <3> QED
      BY <3>1 DEF up
  <2> QED
    BY <2>2 DEF w, v
<1>9. SumOver(Amounts(c), I) = SumOver(Amounts(l), I)
  BY <1>2, <1>5, SumSame
<1>10. Weighs(Amounts(c), I)
  BY <1>2, <1>5 DEF Weighs
<1> HIDE DEF up
<1>11. SumOver(Amounts(c), I \cup up) = SumOver(Amounts(c), I) + SumOver(Amounts(c), up)
  BY <1>2, <1>6, <1>8, <1>10, SumUnion
<1> QED
  BY <1>3, <1>8, <1>9, <1>11 DEF Paid, c, I, J, K

LEMMA PaidOne ==
    ASSUME NEW E, HasAmounts(E), NEW e
    PROVE  /\ Paid(<<>>, E) = 0
           /\ Paid(<<e>>, E) = IF e \in E THEN e.amount ELSE 0
<1>1. Paid(<<>>, E) = 0
  <2>1. {i \in DOMAIN <<>> : <<>>[i] \in E} = {}
    OBVIOUS
  <2>2. IsFiniteSet({}) /\ Weighs(Amounts(<<>>), {})
    BY FS_EmptySet DEF Weighs
  <2>3. SumOver(Amounts(<<>>), {}) = 0
    BY <2>2, SumTakesOut
  <2> QED
    BY <2>1, <2>3 DEF Paid
<1> DEFINE l == <<e>>
           S == {i \in DOMAIN l : l[i] \in E}
<1>2. IsFiniteSet(S) /\ Weighs(Amounts(l), S)
  <2>1. l \in Seq({e})
    OBVIOUS
  <2> HIDE DEF l
  <2> QED
    BY <2>1, PaidIsNat
<1>3. Amounts(l)[1] = e.amount
  BY DEF Amounts
<1>4. CASE e \in E
  <2>1. 1 \in S /\ S \ {1} = {}
    BY <1>4
  <2> HIDE DEF l, S
  <2>2. SumOver(Amounts(l), S) = Amounts(l)[1] + SumOver(Amounts(l), S \ {1})
        /\ SumOver(Amounts(l), {}) = 0
    BY <1>2, <2>1, SumTakesOut
  <2>3. e.amount \in Nat
    BY <1>4 DEF HasAmounts
  <2>4. SumOver(Amounts(l), S) = e.amount
    BY <1>3, <2>1, <2>2, <2>3
  <2>5. Paid(l, E) = e.amount
    BY <2>4 DEF Paid, S
  <2> QED
    BY <1>1, <1>4, <2>5 DEF l
<1>5. CASE e \notin E
  <2>1. S = {}
    BY <1>5
  <2> HIDE DEF l, S
  <2>2. SumOver(Amounts(l), S) = 0
    BY <1>2, <2>1, SumTakesOut
  <2>3. Paid(l, E) = 0
    BY <2>2 DEF Paid, S
  <2> QED
    BY <1>1, <1>5, <2>3 DEF l
<1> QED
  BY <1>4, <1>5

\* Entries written one for each balance of a deque.
LEMMA PaidLike ==
    ASSUME NEW A, NEW b \in Deques(A), NEW m, DOMAIN m = DOMAIN b,
           \A i \in DOMAIN b : m[i].amount = b[i].amount,
           NEW E, NEW Q, \A i \in DOMAIN b : m[i] \in E <=> b[i].address \in Q
    PROVE  Paid(m, E) = AmountFrom(b, Q)
<1> DEFINE S == {i \in DOMAIN b : b[i].address \in Q}
<1>1. {i \in DOMAIN m : m[i] \in E} = S
  OBVIOUS
<1>2. IsFiniteSet(DOMAIN b) /\ Weighs(Amounts(b), DOMAIN b)
  BY AmountOfIsSum
<1>3. IsFiniteSet(S) /\ Weighs(Amounts(b), S)
  BY <1>2, FS_Subset DEF Weighs
<1>4. \A i \in S : Amounts(m)[i] = Amounts(b)[i]
  BY DEF Amounts
<1> HIDE DEF S
<1>5. SumOver(Amounts(m), S) = SumOver(Amounts(b), S)
  BY <1>3, <1>4, SumSame
<1> QED
  BY <1>1, <1>5 DEF Paid, AmountFrom, S

-----------------------------------------------------------------------------
(* The transaction *)

IsTransaction(tc) ==
    tc = [location |-> tc.location, next_event_index |-> tc.next_event_index,
          etching |-> tc.etching, output_pointer |-> tc.output_pointer,
          input_runes |-> tc.input_runes, eligible_outputs |-> tc.eligible_outputs,
          total_outputs |-> tc.total_outputs]

\* What moving runes leaves as it is.
SameTransaction(tc, new) ==
    /\ new.location = tc.location
    /\ new.etching = tc.etching
    /\ new.output_pointer = tc.output_pointer
    /\ new.eligible_outputs = tc.eligible_outputs
    /\ new.total_outputs = tc.total_outputs

\* Writing a field of the transaction cache leaves the others alone.
LEMMA TransactionFields ==
    ASSUME NEW tc, IsTransaction(tc), NEW v
    PROVE  /\ IsTransaction([tc EXCEPT !.input_runes = v])
           /\ [tc EXCEPT !.input_runes = v].location = tc.location
           /\ [tc EXCEPT !.input_runes = v].etching = tc.etching
           /\ IsTransaction([tc EXCEPT !.next_event_index = v])
           /\ [tc EXCEPT !.next_event_index = v].location = tc.location
           /\ [tc EXCEPT !.next_event_index = v].etching = tc.etching
           /\ IsTransaction([tc EXCEPT !.etching = v])
           /\ [tc EXCEPT !.etching = v].location = tc.location
           /\ [tc EXCEPT !.etching = v].etching = v
           /\ IsTransaction([tc EXCEPT !.output_pointer = v])
           /\ [tc EXCEPT !.output_pointer = v].location = tc.location
  BY DEF IsTransaction

LEMMA InputRunesField ==
    ASSUME NEW tc, IsTransaction(tc), NEW v
    PROVE  LET new == [tc EXCEPT !.input_runes = v]
           IN  /\ IsTransaction(new) /\ SameTransaction(tc, new)
               /\ new.input_runes = v
               /\ new.next_event_index = tc.next_event_index
  BY DEF IsTransaction, SameTransaction

LEMMA EventField ==
    ASSUME NEW tc, IsTransaction(tc), NEW v
    PROVE  LET new == [tc EXCEPT !.next_event_index = v]
           IN  /\ IsTransaction(new) /\ SameTransaction(tc, new)
               /\ new.input_runes = tc.input_runes
               /\ new.next_event_index = v
  BY DEF IsTransaction, SameTransaction

LEMMA EtchingField ==
    ASSUME NEW tc, IsTransaction(tc), NEW v
    PROVE  LET new == [tc EXCEPT !.etching = v]
           IN  /\ IsTransaction(new)
               /\ new.etching = v
               /\ new.location = tc.location
               /\ new.output_pointer = tc.output_pointer
               /\ new.eligible_outputs = tc.eligible_outputs
               /\ new.total_outputs = tc.total_outputs
               /\ new.input_runes = tc.input_runes
               /\ new.next_event_index = tc.next_event_index
  BY DEF IsTransaction

LEMMA PointerField ==
    ASSUME NEW tc, IsTransaction(tc), NEW v
    PROVE  LET new == [tc EXCEPT !.output_pointer = v]
           IN  /\ IsTransaction(new)
               /\ new.output_pointer = v
               /\ new.etching = tc.etching
               /\ new.location = tc.location
               /\ new.eligible_outputs = tc.eligible_outputs
               /\ new.total_outputs = tc.total_outputs
               /\ new.input_runes = tc.input_runes
               /\ new.next_event_index = tc.next_event_index
  BY DEF IsTransaction

\* A transaction whose inputs and outputs belong to the addresses A.
Carries(tc, A) ==
    /\ None \in A
    /\ IsTransaction(tc)
    /\ tc.input_runes \in [RuneKeys -> Deques(A)]
    /\ tc.next_event_index \in Nat
    /\ \A o \in DOMAIN tc.eligible_outputs : tc.eligible_outputs[o] \in A

-----------------------------------------------------------------------------
(* The entries of one move *)

\* The ledger entries of a transaction at loc that names the addresses A and the
\* outputs O: only an etching has no amount, and what is received is something.
Logs(loc, A, O) ==
    {e \in [rune : RuneKeys, height : {loc.height}, tx : {loc.tx}, event : Nat,
            output : O, address : A, receiver : A, amount : Nat \cup {None},
            op : {"etching", "mint", "burn", "send", "receive"}] :
        /\ e.op # "etching" => e.amount \in Nat
        /\ e.op = "receive" => e.amount > 0 /\ e.address # None}

\* The entries of T that put units of the rune into an output or burn them.
PaidOut(T, rune) == {e \in T : e.op \in {"receive", "burn"} /\ e.rune = rune}

\* The entries of T that charge a sender.
Charged(T, rune, a) == {e \in T : e.op \in {"send", "burn"} /\ e.rune = rune /\ e.address = a}

LEMMA ChargesHaveAmounts ==
    ASSUME NEW loc, NEW A, NEW O, NEW rune, NEW a
    PROVE  HasAmounts(PaidOut(Logs(loc, A, O), rune)) /\ HasAmounts(Charged(Logs(loc, A, O), rune, a))
  BY DEF HasAmounts, PaidOut, Charged, Logs

\* The entry of the output that receives.
Receives(tc, output, rune, sent) ==
    IF ReceiverOf(tc, output) # None /\ sent > 0
    THEN <<Entry(tc, 0, rune, sent, output, ReceiverOf(tc, output), None, "receive")>>
    ELSE <<>>

LEMMA ReceiveLogged ==
    ASSUME NEW A, NEW O, NEW tc, Carries(tc, A), NEW output \in O,
           NEW rune \in RuneKeys, NEW sent \in Nat
    PROVE  LET T == Logs(tc.location, A, O)
               m == Receives(tc, output, rune, sent)
           IN  /\ m \in Seq(T) /\ Len(m) \in Nat
               /\ \A i \in DOMAIN m : m[i].event = tc.next_event_index + i - 1
               /\ \A r \in RuneKeys :
                     /\ Paid(m, PaidOut(T, r)) \in Nat
                     /\ Paid(m, PaidOut(T, r))
                            <= IF r = rune /\ ReceiverOf(tc, output) # None THEN sent ELSE 0
                     /\ \A a \in A : Paid(m, Charged(T, r, a)) = 0
<1> DEFINE T == Logs(tc.location, A, O)
           m == Receives(tc, output, rune, sent)
           receiver == ReceiverOf(tc, output)
           e == Entry(tc, 0, rune, sent, output, receiver, None, "receive")
<1>1. receiver \in A /\ None \in A /\ tc.next_event_index \in Nat
  BY DEF Carries, ReceiverOf
<1>2. m = IF receiver # None /\ sent > 0 THEN <<e>> ELSE <<>>
  BY DEF Receives
<1> HIDE DEF m, receiver
<1>3. ASSUME receiver # None, sent > 0
      PROVE  /\ e \in T /\ e.event = tc.next_event_index
             /\ e.rune = rune /\ e.amount = sent /\ e.op = "receive"
  <2>1. /\ e \in Logs(tc.location, A, O)
        /\ e.event = tc.next_event_index + 0
        /\ e.rune = rune /\ e.amount = sent /\ e.op = "receive"
    BY <1>1, <1>3 DEF Entry, Logs, e
  <2> QED
    BY <1>1, <2>1
<1> HIDE DEF e, T
<1>4. /\ m \in Seq(T) /\ Len(m) \in Nat
      /\ \A i \in DOMAIN m : m[i].event = tc.next_event_index + i - 1
  BY <1>1, <1>2, <1>3
<1>5. ASSUME NEW r \in RuneKeys
      PROVE  /\ Paid(m, PaidOut(T, r)) \in Nat
             /\ Paid(m, PaidOut(T, r)) <= IF r = rune /\ receiver # None THEN sent ELSE 0
             /\ \A a \in A : Paid(m, Charged(T, r, a)) = 0
  <2>1. ASSUME NEW E, HasAmounts(E)
        PROVE  Paid(m, E) = IF receiver # None /\ sent > 0 /\ e \in E THEN sent ELSE 0
    <3>1. Paid(<<>>, E) = 0 /\ Paid(<<e>>, E) = IF e \in E THEN e.amount ELSE 0
      BY <2>1, PaidOne
    <3> QED
      BY <1>2, <1>3, <3>1
  <2>2. HasAmounts(PaidOut(T, r)) /\ \A a \in A : HasAmounts(Charged(T, r, a))
    BY ChargesHaveAmounts DEF T
  <2>3. receiver # None /\ sent > 0 /\ e \in PaidOut(T, r) => r = rune
    BY <1>3 DEF PaidOut
  <2>4. \A a \in A : receiver # None /\ sent > 0 => e \notin Charged(T, r, a)
    BY <1>3 DEF Charged
  <2> QED
    BY <2>1, <2>2, <2>3, <2>4
<1> QED
  BY <1>4, <1>5 DEF m, T, receiver

\* The entries of the senders, from the k-th after those already written.
Sends(tc, k, output, rune, senders) ==
    [i \in DOMAIN senders |->
        Entry(tc, k + i - 1, rune, senders[i].amount, output, senders[i].address,
              ReceiverOf(tc, output),
              IF ReceiverOf(tc, output) = None THEN "burn" ELSE "send")]

\* m are entries for these senders of the rune, numbered from k on.
ChargeSenders(A, O, tc, k, output, rune, senders, m) ==
    LET T == Logs(tc.location, A, O)
    IN  /\ m \in Seq(T) /\ Len(m) = Len(senders)
        /\ \A i \in DOMAIN m : m[i].event = tc.next_event_index + k + i - 1
        /\ \A r \in RuneKeys :
              /\ Paid(m, PaidOut(T, r)) \in Nat
              /\ Paid(m, PaidOut(T, r))
                     = IF r = rune /\ ReceiverOf(tc, output) = None
                       THEN AmountOf(senders) ELSE 0
              /\ \A a \in A \ {None} :
                    Paid(m, Charged(T, r, a))
                        = IF r = rune THEN AmountFrom(senders, {a}) ELSE 0

LEMMA SendsLogged ==
    ASSUME NEW A, NEW O, NEW tc, Carries(tc, A), NEW output \in O,
           NEW rune \in RuneKeys, NEW senders \in Deques(A \ {None}), NEW k \in Nat
    PROVE  ChargeSenders(A, O, tc, k, output, rune, senders,
                         Sends(tc, k, output, rune, senders))
<1> DEFINE T == Logs(tc.location, A, O)
           m == Sends(tc, k, output, rune, senders)
           receiver == ReceiverOf(tc, output)
           op == IF receiver = None THEN "burn" ELSE "send"
           B == A \ {None}
<1>1. receiver \in A /\ None \in A /\ tc.next_event_index \in Nat
  BY DEF Carries, ReceiverOf
<1>2. /\ Len(senders) \in Nat /\ DOMAIN senders = 1..Len(senders)
      /\ \A i \in 1..Len(senders) : senders[i].amount \in Nat /\ senders[i].address \in B
  BY DequeElements
<1>3. /\ DOMAIN m = DOMAIN senders
      /\ \A i \in DOMAIN senders :
            m[i] = Entry(tc, k + i - 1, rune, senders[i].amount, output, senders[i].address,
                         receiver, op)
  BY DEF Sends
<1>4. op \in {"mint", "burn", "send", "receive"} /\ op # "receive"
  OBVIOUS
<1> HIDE DEF m, receiver, op
<1>5. ASSUME NEW i \in DOMAIN senders
      PROVE  /\ m[i] \in T
             /\ m[i].event = tc.next_event_index + k + i - 1
             /\ m[i].rune = rune /\ m[i].amount = senders[i].amount
             /\ m[i].op = op /\ m[i].address = senders[i].address
  <2> DEFINE off == k + i - 1
             am == senders[i].amount
             ad == senders[i].address
  <2>1. off \in Nat /\ am \in Nat /\ ad \in A
    BY <1>2
  <2>2. m[i] = Entry(tc, off, rune, am, output, ad, receiver, op)
    BY <1>3
  <2> HIDE DEF off, am, ad
  <2>3. /\ Entry(tc, off, rune, am, output, ad, receiver, op) \in Logs(tc.location, A, O)
        /\ Entry(tc, off, rune, am, output, ad, receiver, op).event = tc.next_event_index + off
        /\ Entry(tc, off, rune, am, output, ad, receiver, op).rune = rune
        /\ Entry(tc, off, rune, am, output, ad, receiver, op).amount = am
        /\ Entry(tc, off, rune, am, output, ad, receiver, op).op = op
        /\ Entry(tc, off, rune, am, output, ad, receiver, op).address = ad
    BY <1>1, <1>4, <2>1 DEF Entry, Logs
  <2>4. tc.next_event_index + off = tc.next_event_index + k + i - 1
    BY <1>1, <1>2 DEF off
  <2> QED
    BY <2>2, <2>3, <2>4 DEF am, ad
<1> HIDE DEF T
<1>6. m \in Seq(T) /\ Len(m) = Len(senders)
  <2> DEFINE n == Len(senders)
  <2>1. DOMAIN m = 1..n /\ n \in Nat /\ \A i \in 1..n : m[i] \in T
    BY <1>2, <1>3, <1>5
  <2>2. m = [i \in 1..n |-> m[i]]
    BY <1>2, <1>3 DEF m, Sends
  <2> HIDE DEF n
  <2>3. m \in [1..n -> T]
    BY <2>1, <2>2
  <2>4. m \in Seq(T)
    BY <2>1, <2>3
  <2>5. Len(m) = n
    BY <2>1, <2>4
  <2> QED
    BY <2>4, <2>5 DEF n
<1>7. ASSUME NEW E, NEW Q, \A i \in DOMAIN senders : m[i] \in E <=> senders[i].address \in Q
      PROVE  Paid(m, E) = AmountFrom(senders, Q)
  <2>1. \A i \in DOMAIN senders : m[i].amount = senders[i].amount
    BY <1>5
  <2> QED
    BY <1>3, <1>7, <2>1, PaidLike
<1>8. AmountFrom(senders, {}) = 0
  <2>1. {i \in DOMAIN senders : senders[i].address \in {}} = {}
    OBVIOUS
  <2>2. SumOver(Amounts(senders), {}) = 0
    <3>1. IsFiniteSet({}) /\ Weighs(Amounts(senders), {})
      BY FS_EmptySet DEF Weighs
    <3> QED
      BY <3>1, SumTakesOut
  <2> QED
    BY <2>1, <2>2 DEF AmountFrom
<1>9. AmountOf(senders) = AmountFrom(senders, B) /\ AmountOf(senders) \in Nat
  BY AmountOfIsSum
<1>10. ASSUME NEW r \in RuneKeys
       PROVE  /\ Paid(m, PaidOut(T, r)) \in Nat
              /\ Paid(m, PaidOut(T, r))
                     = IF r = rune /\ receiver = None THEN AmountOf(senders) ELSE 0
              /\ \A a \in A \ {None} :
                    Paid(m, Charged(T, r, a))
                        = IF r = rune THEN AmountFrom(senders, {a}) ELSE 0
  <2>1. \A i \in DOMAIN senders : m[i] \in PaidOut(T, r) <=> r = rune /\ receiver = None
    BY <1>5 DEF PaidOut, op
  <2>2. \A i \in DOMAIN senders : senders[i].address \in B
    BY <1>2
  <2>3. Paid(m, PaidOut(T, r)) = IF r = rune /\ receiver = None THEN AmountOf(senders) ELSE 0
    <3>1. CASE r = rune /\ receiver = None
      <4>1. Paid(m, PaidOut(T, r)) = AmountFrom(senders, B)
        BY <1>7, <2>1, <2>2, <3>1
      <4> QED
        BY <1>9, <3>1, <4>1
    <3>2. CASE ~(r = rune /\ receiver = None)
      <4>1. Paid(m, PaidOut(T, r)) = AmountFrom(senders, {})
        BY <1>7, <2>1, <3>2
      <4> QED
        BY <1>8, <3>2, <4>1
    <3> QED
      BY <3>1, <3>2
  <2>4. ASSUME NEW a \in A \ {None}
        PROVE  Paid(m, Charged(T, r, a)) = IF r = rune THEN AmountFrom(senders, {a}) ELSE 0
    <3>1. \A i \in DOMAIN senders :
              m[i] \in Charged(T, r, a) <=> r = rune /\ senders[i].address = a
      BY <1>5 DEF Charged, op
    <3>2. CASE r = rune
      <4>1. \A i \in DOMAIN senders : m[i] \in Charged(T, r, a) <=> senders[i].address \in {a}
        BY <3>1, <3>2
      <4> QED
        BY <1>7, <3>2, <4>1
    <3>3. CASE r # rune
      <4>1. \A i \in DOMAIN senders : m[i] \in Charged(T, r, a) <=> senders[i].address \in {}
        BY <3>1, <3>3
      <4> QED
        BY <1>7, <1>8, <3>3, <4>1
    <3> QED
      BY <3>2, <3>3
  <2>5. Paid(m, PaidOut(T, r)) \in Nat
    BY <1>9, <2>3
  <2> QED
    BY <2>3, <2>4, <2>5
<1> QED
  BY <1>3, <1>5, <1>6, <1>10 DEF m, T, receiver, ChargeSenders

-----------------------------------------------------------------------------
(* Addressed balances stand first *)

\* Balances of senders come before what is minted or premined, and are not empty.
Orderly(l) ==
    \A i, j \in DOMAIN l :
        i <= j /\ l[j].address # None => l[i].address # None /\ l[i].amount > 0

AllMinted(l) == \A i \in DOMAIN l : l[i].address = None

LEMMA OrderlyAppend ==
    ASSUME NEW A, NEW l \in Deques(A), Orderly(l), NEW b \in [address : A, amount : Nat],
           b.address # None => b.amount > 0 /\ \A i \in DOMAIN l : l[i].address # None
    PROVE  /\ Orderly(Append(l, b))
           /\ AllMinted(l) /\ b.address = None => AllMinted(Append(l, b))
           /\ \A i \in DOMAIN Append(l, b) :
                 Append(l, b)[i].address = None =>
                     b.address = None \/ \E j \in DOMAIN l : l[j].address = None
<1> DEFINE m == Append(l, b)
           n == Len(l)
<1>1. /\ n \in Nat /\ DOMAIN l = 1..n /\ DOMAIN m = 1..(n + 1)
      /\ m[n + 1] = b /\ \A i \in 1..n : m[i] = l[i]
  BY DEF Deques
<1> HIDE DEF m, n
<1>2. ASSUME NEW i \in DOMAIN m, NEW j \in DOMAIN m, i <= j, m[j].address # None
      PROVE  m[i].address # None /\ m[i].amount > 0
  <2>1. CASE j \in 1..n
    <3>1. i \in 1..n
      BY <1>1, <1>2, <2>1
    <3> QED
      BY <1>1, <1>2, <2>1, <3>1 DEF Orderly
  <2>2. CASE j = n + 1
    <3>1. b.address # None
      BY <1>1, <1>2, <2>2
    <3>2. CASE i = n + 1
      BY <1>1, <3>1, <3>2
    <3>3. CASE i \in 1..n
      <4>1. l[i].address # None /\ m[i] = l[i] /\ i <= i /\ i \in DOMAIN l
        BY <1>1, <3>1, <3>3
      <4>2. l[i].amount > 0
        BY <4>1 DEF Orderly
      <4> QED
        BY <4>1, <4>2
    <3> QED
      BY <1>1, <3>2, <3>3
  <2> QED
    BY <1>1, <2>1, <2>2
<1>3. Orderly(m)
  BY <1>2 DEF Orderly
<1>4. AllMinted(l) /\ b.address = None => AllMinted(m)
  BY <1>1 DEF AllMinted
<1>5. \A i \in DOMAIN m : m[i].address = None =>
          b.address = None \/ \E j \in DOMAIN l : l[j].address = None
  BY <1>1
<1> QED
  BY <1>3, <1>4, <1>5 DEF m

\* What one round of TakeBalance leaves: all that was left so far and perhaps a part
\* of the balance it popped.
Leaves(A, amount, acc, bal, new) ==
    /\ \/ new.left = acc.left
       \/ \E part \in [address : A, amount : Nat] :
             /\ part.address = bal.address
             /\ bal.amount > 0 => part.amount > 0
             /\ new.left = Append(acc.left, part)
    /\ amount = 0 /\ ~acc.done =>
          new.left = acc.left /\ (bal.amount > 0 => ~new.done)

LEMMA PopLeaves ==
    ASSUME NEW A, NEW bal \in [address : A, amount : Nat], NEW amount \in Nat,
           NEW acc \in Takings(A), ~acc.done /\ amount # 0 => acc.sent < amount
    PROVE  Leaves(A, amount, acc, bal, PopBalance(amount, acc, bal))
<1> DEFINE new == PopBalance(amount, acc, bal)
<1>1. acc.sent \in Nat /\ bal.amount \in Nat /\ bal.address \in A
  BY DEF Takings
<1>2. CASE acc.done
  <2>1. new.left = Append(acc.left, bal)
    BY <1>2 DEF PopBalance, Takings
  <2> QED
    BY <1>2, <2>1 DEF Leaves
<1>3. CASE ~acc.done
  <2> DEFINE taken == IF amount = 0 THEN bal.amount
                      ELSE AtMost(bal.amount, amount - acc.sent)
             rest  == bal.amount - taken
             part  == [bal EXCEPT !.amount = rest]
  <2>1. taken \in Nat /\ rest \in Nat /\ (amount = 0 => taken = bal.amount /\ rest = 0)
    BY <1>1, <1>3 DEF AtMost
  <2>2. new = [sent |-> acc.sent + taken,
               senders |-> IF bal.address = None THEN acc.senders
                           ELSE Append(acc.senders, [bal EXCEPT !.amount = taken]),
               left |-> IF rest > 0 THEN Append(acc.left, part) ELSE acc.left,
               done |-> rest > 0 \/ acc.sent + taken = amount]
    BY <1>3 DEF PopBalance
  <2> HIDE DEF taken, rest
  <2>3. part \in [address : A, amount : Nat] /\ part.address = bal.address /\ part.amount = rest
    BY <2>1
  <2> HIDE DEF part
  <2>4. /\ new.left = IF rest > 0 THEN Append(acc.left, part) ELSE acc.left
        /\ new.done = (rest > 0 \/ acc.sent + taken = amount)
    BY <2>2
  <2> HIDE DEF new
  <2>5. CASE rest > 0
    <3>1. amount # 0 /\ new.left = Append(acc.left, part) /\ part.amount > 0
      BY <2>1, <2>3, <2>4, <2>5
    <3> QED
      BY <2>3, <3>1 DEF new, Leaves
  <2>6. CASE ~(rest > 0)
    <3>1. new.left = acc.left /\ (new.done = (acc.sent + taken = amount))
      BY <2>4, <2>6
    <3>2. amount = 0 /\ bal.amount > 0 => acc.sent + taken # amount
      BY <1>1, <2>1
    <3> QED
      BY <3>1, <3>2 DEF new, Leaves
  <2> QED
    BY <2>5, <2>6
<1> QED
  BY <1>2, <1>3

\* What TakeBalance leaves is in order again, and with the amount 0, for all there is,
\* it leaves nothing to a sender.
LEMMA LeftOrderly ==
    ASSUME NEW A, NEW b \in Deques(A), Orderly(b), NEW amount \in Nat
    PROVE  LET taken == TakeBalance(b, amount)
           IN  /\ Orderly(taken.left)
               /\ amount = 0 => AllMinted(taken.left)
<1> DEFINE n == Len(b)
<1>1. n \in Nat /\ DOMAIN b = 1..n
  BY DequeElements
<1>2. \A k \in 1..n : b[k] \in [address : A, amount : Nat]
  <2> DEFINE R == [address : A, amount : Nat]
  <2>1. b \in Seq(R)
    BY DEF Deques
  <2> HIDE DEF R
  <2>2. \A k \in 1..n : b[k] \in R
    BY <2>1
  <2> QED
    BY <2>2 DEF R
<1> HIDE DEF n
<1>3. PICK h : Takes(b, amount, n, h) /\ TakeBalance(b, amount) = h[n]
  BY <1>1, TakeTrace
<1> DEFINE Minted(k) == \E j \in 1..k : b[j].address = None
           Good(k) ==
               /\ h[k] \in Takings(A)
               /\ ~h[k].done /\ amount # 0 => h[k].sent < amount
               /\ Orderly(h[k].left)
               /\ (\E i \in DOMAIN h[k].left : h[k].left[i].address = None) => Minted(k)
               /\ amount = 0 => AllMinted(h[k].left) /\ (h[k].done => Minted(k))
           good == {k \in 0..n : Good(k)}
<1>4. 0 \in good
  <2>1. h[0] = NothingTaken
    BY <1>3 DEF Takes
  <2>2. <<>> \in Deques(A) /\ <<>> \in Deques(A \ {None})
    BY AmountFromEmpty
  <2>3. h[0] \in Takings(A)
    BY <2>1, <2>2 DEF NothingTaken, Takings
  <2>4. h[0].left = <<>> /\ ~h[0].done /\ h[0].sent = 0
    BY <2>1 DEF NothingTaken
  <2>5. Orderly(h[0].left) /\ AllMinted(h[0].left)
        /\ ~(\E i \in DOMAIN h[0].left : h[0].left[i].address = None)
    BY <2>4 DEF Orderly, AllMinted
  <2> QED
    BY <1>1, <2>3, <2>4, <2>5
<1>5. ASSUME NEW k \in 0..(n - 1), k \in good
      PROVE  k + 1 \in good
  <2> DEFINE acc == h[k]
             bal == b[k + 1]
             new == h[k + 1]
  <2>1. k + 1 \in 1..n /\ (k + 1) - 1 = k /\ k \in Nat
    BY <1>1
  <2>2. new = PopBalance(amount, acc, bal)
    BY <1>3, <2>1 DEF Takes
  <2>3. bal \in [address : A, amount : Nat]
    BY <1>2, <2>1
  <2>4. /\ acc \in Takings(A) /\ (~acc.done /\ amount # 0 => acc.sent < amount)
        /\ Orderly(acc.left)
        /\ (\E i \in DOMAIN acc.left : acc.left[i].address = None) => Minted(k)
        /\ amount = 0 => AllMinted(acc.left) /\ (acc.done => Minted(k))
    BY <1>5
  <2>5. Minted(k) => bal.address = None /\ Minted(k + 1)
    <3>1. ASSUME NEW j \in 1..k, b[j].address = None
          PROVE  bal.address = None
      <4>1. j \in DOMAIN b /\ k + 1 \in DOMAIN b /\ j <= k + 1
        BY <1>1, <2>1
      <4> QED
        BY <3>1, <4>1 DEF Orderly
    <3>2. 1..k \subseteq 1..(k + 1)
      BY <2>1
    <3> QED
      BY <3>1, <3>2
  <2>6. bal.address = None => Minted(k + 1)
    <3>1. k + 1 \in 1..(k + 1)
      BY <2>1
    <3> QED
      BY <3>1
  <2>7. bal.address # None => bal.amount > 0
    <3>1. k + 1 \in DOMAIN b /\ k + 1 <= k + 1
      BY <1>1, <2>1
    <3> QED
      BY <3>1 DEF Orderly
  <2> HIDE DEF Minted, acc, bal, new
  <2>8. /\ new \in Takings(A)
        /\ ~new.done /\ amount # 0 => new.sent < amount
    BY <2>2, <2>3, <2>4, PopStep
  <2>9. /\ \/ new.left = acc.left
           \/ \E part \in [address : A, amount : Nat] :
                 /\ part.address = bal.address
                 /\ bal.amount > 0 => part.amount > 0
                 /\ new.left = Append(acc.left, part)
        /\ amount = 0 /\ ~acc.done =>
              new.left = acc.left /\ (bal.amount > 0 => ~new.done)
    <3>1. Leaves(A, amount, acc, bal, new)
      BY <2>2, <2>3, <2>4, PopLeaves
    <3> QED
      BY <3>1 DEF Leaves
  <2>10. acc.left \in Deques(A)
    BY <2>4 DEF Takings
  <2>11. /\ Orderly(new.left)
         /\ (\E i \in DOMAIN new.left : new.left[i].address = None) => Minted(k + 1)
         /\ AllMinted(acc.left) /\ bal.address = None => AllMinted(new.left)
    <3>1. CASE new.left = acc.left
      BY <2>4, <2>5, <3>1
    <3>2. ASSUME NEW part \in [address : A, amount : Nat],
                 part.address = bal.address, bal.amount > 0 => part.amount > 0,
                 new.left = Append(acc.left, part)
          PROVE  <2>11!1 /\ <2>11!2 /\ <2>11!3
      <4>1. bal.address # None => \A i \in DOMAIN acc.left : acc.left[i].address # None
        BY <2>4, <2>5
      <4>2. part.address # None =>
                part.amount > 0 /\ \A i \in DOMAIN acc.left : acc.left[i].address # None
        BY <2>7, <3>2, <4>1
      <4>3. /\ Orderly(Append(acc.left, part))
            /\ AllMinted(acc.left) /\ part.address = None => AllMinted(Append(acc.left, part))
            /\ \A i \in DOMAIN Append(acc.left, part) :
                  Append(acc.left, part)[i].address = None =>
                      part.address = None \/ \E j \in DOMAIN acc.left : acc.left[j].address = None
        BY <2>4, <2>10, <4>2, OrderlyAppend
      <4> QED
        BY <2>4, <2>5, <2>6, <3>2, <4>3
    <3> QED
      BY <2>9, <3>1, <3>2
  <2>12. amount = 0 => AllMinted(new.left) /\ (new.done => Minted(k + 1))
    <3> SUFFICES ASSUME amount = 0
                 PROVE  AllMinted(new.left) /\ (new.done => Minted(k + 1))
      OBVIOUS
    <3>1. CASE acc.done
      BY <2>4, <2>5, <2>11, <3>1
    <3>2. CASE ~acc.done
      BY <2>4, <2>6, <2>7, <2>9, <3>2
    <3> QED
      BY <3>1, <3>2
  <2>13. Good(k + 1)
    BY <2>8, <2>11, <2>12 DEF new
  <2> QED
    BY <2>1, <2>13
<1> HIDE DEF good
<1>6. \A k \in 0..n : k \in good
  BY <1>1, <1>4, <1>5, UpToGrows
<1>7. Good(n)
  BY <1>1, <1>6 DEF good
<1> QED
  BY <1>3, <1>7

-----------------------------------------------------------------------------
(* MoveRuneBalance *)

\* What MoveRuneBalance leaves of the transaction.
MoveResult(res, output, rune, amount, new) ==
    LET tc       == res.tc
        taken    == TakeBalance(tc.input_runes[rune], amount)
        receives == Receives(tc, output, rune, taken.sent)
        sends    == Sends(tc, Len(receives), output, rune, taken.senders)
    IN  /\ IsTransaction(new.tc) /\ SameTransaction(tc, new.tc)
        /\ new.tc.input_runes = [tc.input_runes EXCEPT ![rune] = taken.left]
        /\ new.tc.next_event_index
               = tc.next_event_index + Len(receives) + Len(sends)
        /\ new.entries = (res.entries \o receives) \o sends

LEMMA MovedTransaction ==
    ASSUME NEW res, IsTransaction(res.tc), NEW rune, NEW output, NEW amount
    PROVE  MoveResult(res, output, rune, amount, MoveRuneBalance(res, output, rune, amount))
<1> DEFINE tc       == res.tc
           taken    == TakeBalance(tc.input_runes[rune], amount)
           receives == Receives(tc, output, rune, taken.sent)
           sends    == Sends(tc, Len(receives), output, rune, taken.senders)
           runes == [tc.input_runes EXCEPT ![rune] = taken.left]
           held  == [tc EXCEPT !.input_runes = runes]
           event == tc.next_event_index + Len(receives) + Len(sends)
           new   == MoveRuneBalance(res, output, rune, amount)
<1>1. new = [tc |-> [tc EXCEPT !.input_runes[rune] = taken.left,
                           !.next_event_index = @ + Len(receives) + Len(sends)],
             entries |-> res.entries \o receives \o sends]
  BY Zenon DEF MoveRuneBalance, Receives, Sends
<1>2. IsTransaction(tc)
  OBVIOUS
<1> HIDE DEF tc, taken, receives, sends, new
<1>3. new.tc = [held EXCEPT !.next_event_index = event]
  BY <1>1, <1>2 DEF IsTransaction
<1>4. /\ IsTransaction(held) /\ SameTransaction(tc, held)
      /\ held.input_runes = runes
  BY <1>2, InputRunesField
<1> HIDE DEF held, event, runes
<1>5. /\ IsTransaction(new.tc) /\ SameTransaction(held, new.tc)
      /\ new.tc.input_runes = held.input_runes
      /\ new.tc.next_event_index = event
  BY <1>3, <1>4, EventField
<1>6. SameTransaction(tc, new.tc)
  BY <1>4, <1>5 DEF SameTransaction
<1>7. new.entries = (res.entries \o receives) \o sends
  BY <1>1
<1> QED
  BY <1>4, <1>5, <1>6, <1>7 DEF tc, taken, receives, sends, runes, event, new, MoveResult

\* The entries of one move: the receiver's, then those of the senders.
Moved(tc, output, rune, taken) ==
    LET receives == Receives(tc, output, rune, taken.sent)
    IN  receives \o Sends(tc, Len(receives), output, rune, taken.senders)

\* The entries of moves alone.
Shifts(l) == \A i \in DOMAIN l : l[i].op \in {"burn", "send", "receive"}

LEMMA MovedShifts ==
    ASSUME NEW tc, NEW output, NEW rune, NEW taken, NEW T, NEW U,
           Receives(tc, output, rune, taken.sent) \in Seq(T),
           Sends(tc, Len(Receives(tc, output, rune, taken.sent)), output, rune, taken.senders)
               \in Seq(U)
    PROVE  Shifts(Moved(tc, output, rune, taken))
<1> DEFINE first == Receives(tc, output, rune, taken.sent)
           k     == Len(first)
           rest  == Sends(tc, k, output, rune, taken.senders)
<1>1. Shifts(first)
  <2> DEFINE e == Entry(tc, 0, rune, taken.sent, output, ReceiverOf(tc, output), None,
                        "receive")
  <2>1. e.op = "receive"
    BY DEF Entry
  <2>2. first = <<e>> \/ first = <<>>
    BY DEF Receives
  <2> HIDE DEF e, first
  <2> QED
    BY <2>1, <2>2 DEF Shifts
<1> HIDE DEF first, k
<1>2. Shifts(rest)
  <2> DEFINE s     == taken.senders
             op    == IF ReceiverOf(tc, output) = None THEN "burn" ELSE "send"
             At(i) == Entry(tc, k + i - 1, rune, s[i].amount, output, s[i].address,
                            ReceiverOf(tc, output), IF ReceiverOf(tc, output) = None THEN "burn" ELSE "send")
  <2>1. \A i \in DOMAIN s : At(i).op = op
    BY DEF Entry
  <2>2. rest = [i \in DOMAIN s |-> At(i)]
    BY Zenon DEF Sends
  <2>3. op \in {"burn", "send", "receive"}
    OBVIOUS
  <2> HIDE DEF rest, At, op
  <2> QED
    BY <2>1, <2>2, <2>3 DEF Shifts
<1> HIDE DEF rest
<1>3. first \in Seq(T) /\ rest \in Seq(U)
  BY DEF first, k, rest
<1>4. Shifts(first \o rest)
  <2> SUFFICES ASSUME NEW i \in DOMAIN (first \o rest)
               PROVE  (first \o rest)[i].op \in {"burn", "send", "receive"}
    BY DEF Shifts
  <2>1. /\ Len(first) \in Nat /\ Len(rest) \in Nat
        /\ DOMAIN first = 1..Len(first) /\ DOMAIN rest = 1..Len(rest)
        /\ DOMAIN (first \o rest) = 1..(Len(first) + Len(rest))
    BY <1>3
  <2>2. CASE i <= Len(first)
    <3>1. i \in DOMAIN first /\ (first \o rest)[i] = first[i]
      BY <1>3, <2>1, <2>2
    <3> QED
      BY <1>1, <3>1 DEF Shifts
  <2>3. CASE ~(i <= Len(first))
    <3>1. i - Len(first) \in DOMAIN rest /\ (first \o rest)[i] = rest[i - Len(first)]
      BY <1>3, <2>1, <2>3
    <3> QED
      BY <1>2, <3>1 DEF Shifts
  <2> QED
    BY <2>2, <2>3
<1> QED
  BY <1>4 DEF Moved, first, k, rest

\* The entries m pay out no more than was taken of the rune and charge each sender
\* for its part.
PaysFor(A, O, tc, rune, taken, m) ==
    LET T == Logs(tc.location, A, O)
    IN  /\ m \in Seq(T) /\ Shifts(m)
        /\ \A i \in DOMAIN m : m[i].event = tc.next_event_index + i - 1
        /\ \A r \in RuneKeys :
              /\ Paid(m, PaidOut(T, r)) \in Nat
              /\ Paid(m, PaidOut(T, r)) <= IF r = rune THEN taken.sent ELSE 0
              /\ \A a \in A \ {None} :
                    Paid(m, Charged(T, r, a))
                        = IF r = rune THEN AmountFrom(taken.senders, {a}) ELSE 0

LEMMA MovedLogged ==
    ASSUME NEW A, NEW O, NEW tc, Carries(tc, A), NEW output \in O, NEW rune \in RuneKeys,
           NEW taken, taken.sent \in Nat, taken.senders \in Deques(A \ {None}),
           AmountOf(taken.senders) <= taken.sent
    PROVE  PaysFor(A, O, tc, rune, taken, Moved(tc, output, rune, taken))
<1> DEFINE T == Logs(tc.location, A, O)
           first == Receives(tc, output, rune, taken.sent)
           k == Len(first)
           rest == Sends(tc, k, output, rune, taken.senders)
           m == Moved(tc, output, rune, taken)
           B == A \ {None}
<1>0. /\ tc.next_event_index \in Nat /\ None \in A
      /\ AmountOf(taken.senders) \in Nat
      /\ \A a \in A : AmountFrom(taken.senders, {a}) \in Nat
  <2>1. taken.senders \in Deques(B)
    OBVIOUS
  <2>2. AmountOf(taken.senders) \in Nat
    BY <2>1, AmountOfIsSum
  <2>3. \A a \in A : AmountFrom(taken.senders, {a}) \in Nat
    BY <2>1, AmountFromPart
  <2> QED
    BY <2>2, <2>3 DEF Carries
<1>1. /\ first \in Seq(T) /\ k \in Nat
      /\ \A i \in DOMAIN first : first[i].event = tc.next_event_index + i - 1
      /\ \A r \in RuneKeys :
            /\ Paid(first, PaidOut(T, r)) \in Nat
            /\ Paid(first, PaidOut(T, r))
                   <= IF r = rune /\ ReceiverOf(tc, output) # None THEN taken.sent ELSE 0
            /\ \A a \in A : Paid(first, Charged(T, r, a)) = 0
  BY ReceiveLogged
<1> HIDE DEF k
<1>2. /\ rest \in Seq(T) /\ Len(rest) = Len(taken.senders)
      /\ \A i \in DOMAIN rest : rest[i].event = tc.next_event_index + k + i - 1
      /\ \A r \in RuneKeys :
            /\ Paid(rest, PaidOut(T, r)) \in Nat
            /\ Paid(rest, PaidOut(T, r))
                   = IF r = rune /\ ReceiverOf(tc, output) = None
                     THEN AmountOf(taken.senders) ELSE 0
            /\ \A a \in A \ {None} :
                  Paid(rest, Charged(T, r, a))
                      = IF r = rune THEN AmountFrom(taken.senders, {a}) ELSE 0
  <2>1. taken.senders \in Deques(B)
    OBVIOUS
  <2> HIDE DEF first, T, B
  <2>2. ChargeSenders(A, O, tc, k, output, rune, taken.senders, rest)
    BY <1>1, <2>1, SendsLogged DEF B
  <2> HIDE DEF rest
  <2> QED
    BY <2>2 DEF ChargeSenders, T
<1>3. m = first \o rest
  BY DEF Moved, k
<1>14. Shifts(m)
  <2>1. first \in Seq(T) /\ rest \in Seq(T)
    BY <1>1, <1>2
  <2> HIDE DEF T
  <2> QED
    BY <2>1, MovedShifts DEF first, rest, m, k
<1>4. \A r : HasAmounts(PaidOut(T, r)) /\ \A a : HasAmounts(Charged(T, r, a))
  BY ChargesHaveAmounts
<1>5. k = Len(first)
  BY DEF k
<1>15. Len(rest) \in Nat
  <2> HIDE DEF rest, T
  <2> QED
    BY <1>2
<1> HIDE DEF m, first, rest, T
<1>6. m \in Seq(T)
  BY <1>1, <1>2, <1>3
<1>7. ASSUME NEW i \in DOMAIN m
      PROVE  m[i].event = tc.next_event_index + i - 1
  <2>1. DOMAIN first = 1..k /\ DOMAIN rest = 1..Len(rest) /\ DOMAIN m = 1..(k + Len(rest))
    <3>1. first \in Seq(T) /\ rest \in Seq(T)
      BY <1>1, <1>2
    <3> QED
      BY <1>3, <1>5, <3>1
  <2>2. CASE i <= k
    <3>1. i \in DOMAIN first /\ m[i] = first[i]
      BY <1>1, <1>2, <1>3, <1>5, <2>1, <2>2
    <3> QED
      BY <1>1, <3>1
  <2>3. CASE ~(i <= k)
    <3>1. i - k \in DOMAIN rest /\ m[i] = rest[i - k]
      BY <1>1, <1>2, <1>3, <1>5, <2>1, <2>3
    <3>2. m[i].event = tc.next_event_index + k + (i - k) - 1
      BY <1>2, <3>1
    <3>3. i \in Nat
      BY <1>1, <1>15, <2>1
    <3>4. tc.next_event_index \in Nat /\ k \in Nat
      BY <1>0, <1>1
    <3>5. tc.next_event_index + k + (i - k) - 1 = tc.next_event_index + i - 1
      BY <3>3, <3>4
    <3> QED
      BY <3>2, <3>5
  <2> QED
    BY <2>2, <2>3
<1>8. \A E : HasAmounts(E) => Paid(m, E) = Paid(first, E) + Paid(rest, E)
  BY <1>1, <1>2, <1>3, PaidConcat
<1>9. ASSUME NEW r \in RuneKeys
      PROVE  /\ Paid(m, PaidOut(T, r)) \in Nat
             /\ Paid(m, PaidOut(T, r)) <= IF r = rune THEN taken.sent ELSE 0
             /\ \A a \in A \ {None} :
                   Paid(m, Charged(T, r, a))
                       = IF r = rune THEN AmountFrom(taken.senders, {a}) ELSE 0
  <2> DEFINE p == Paid(first, PaidOut(T, r))
             q == Paid(rest, PaidOut(T, r))
  <2>1. Paid(m, PaidOut(T, r)) = p + q
    BY <1>4, <1>8
  <2>2. p \in Nat /\ q \in Nat
    BY <1>1, <1>2
  <2>3. p <= IF r = rune /\ ReceiverOf(tc, output) # None THEN taken.sent ELSE 0
    BY <1>1
  <2>4. q = IF r = rune /\ ReceiverOf(tc, output) = None THEN AmountOf(taken.senders) ELSE 0
    BY <1>2
  <2> HIDE DEF p, q
  <2>5. p + q \in Nat /\ p + q <= IF r = rune THEN taken.sent ELSE 0
    BY <1>0, <2>2, <2>3, <2>4
  <2>6. ASSUME NEW a \in A \ {None}
        PROVE  Paid(m, Charged(T, r, a))
                       = IF r = rune THEN AmountFrom(taken.senders, {a}) ELSE 0
    <3>1. Paid(m, Charged(T, r, a)) = Paid(first, Charged(T, r, a)) + Paid(rest, Charged(T, r, a))
      BY <1>4, <1>8
    <3>2. Paid(first, Charged(T, r, a)) = 0
      BY <1>1
    <3>3. Paid(rest, Charged(T, r, a)) = IF r = rune THEN AmountFrom(taken.senders, {a}) ELSE 0
      BY <1>2
    <3> QED
      BY <1>0, <3>1, <3>2, <3>3
  <2> QED
    BY <2>1, <2>5, <2>6
<1> QED
  BY <1>6, <1>7, <1>9, <1>14 DEF m, T, PaysFor

\* What an operation that moves runes of the transaction tc leaves, res, accounts for
\* the deque of each rune: what its entries pay out and what remains is no more than
\* there was, and each sender is charged for what left its balances.
Accounted(A, T, rune, old, new, entries) ==
    /\ Paid(entries, PaidOut(T, rune)) \in Nat
    /\ Paid(entries, PaidOut(T, rune)) + AmountOf(new) <= AmountOf(old)
    /\ \A a \in A \ {None} :
          Paid(entries, Charged(T, rune, a)) + AmountFrom(new, {a}) = AmountFrom(old, {a})
    /\ Orderly(old) => Orderly(new)

Settled(A, O, tc, res) ==
    /\ Carries(res.tc, A) /\ SameTransaction(tc, res.tc)
    /\ res.entries \in Seq(Logs(tc.location, A, O)) /\ Shifts(res.entries)
    /\ res.tc.next_event_index = tc.next_event_index + Len(res.entries)
    /\ \A i \in DOMAIN res.entries : res.entries[i].event = tc.next_event_index + i - 1
    /\ \A rune \in RuneKeys :
          Accounted(A, Logs(tc.location, A, O), rune,
                    tc.input_runes[rune], res.tc.input_runes[rune], res.entries)

LEMMA NothingMoved ==
    ASSUME NEW A, NEW O, NEW tc, Carries(tc, A)
    PROVE  Settled(A, O, tc, [tc |-> tc, entries |-> <<>>])
<1> DEFINE res == [tc |-> tc, entries |-> <<>>]
           T == Logs(tc.location, A, O)
<1>1. /\ SameTransaction(tc, tc) /\ <<>> \in Seq(T) /\ Len(<<>>) = 0 /\ DOMAIN <<>> = {}
      /\ tc.next_event_index \in Nat
  BY DEF SameTransaction, Carries
<1>2. ASSUME NEW rune \in RuneKeys
      PROVE  Accounted(A, T, rune, tc.input_runes[rune], tc.input_runes[rune], <<>>)
  <2> DEFINE old == tc.input_runes[rune]
  <2>1. old \in Deques(A)
    BY DEF Carries
  <2>2. HasAmounts(PaidOut(T, rune)) /\ \A a : HasAmounts(Charged(T, rune, a))
    BY ChargesHaveAmounts
  <2>3. Paid(<<>>, PaidOut(T, rune)) = 0 /\ \A a : Paid(<<>>, Charged(T, rune, a)) = 0
    BY <2>2, PaidOne
  <2>4. AmountOf(old) \in Nat /\ \A a : AmountFrom(old, {a}) \in Nat
    BY <2>1, AmountOfIsSum, AmountFromPart
  <2> HIDE DEF old, T
  <2>5. \A a \in A \ {None} :
            Paid(<<>>, Charged(T, rune, a)) + AmountFrom(old, {a}) = AmountFrom(old, {a})
    <3> TAKE a \in A \ {None}
    <3> DEFINE f == AmountFrom(old, {a})
    <3>1. Paid(<<>>, Charged(T, rune, a)) = 0 /\ f \in Nat
      BY <2>3, <2>4
    <3> HIDE DEF f
    <3>2. Paid(<<>>, Charged(T, rune, a)) + f = f
      BY <3>1
    <3> QED
      BY <3>2 DEF f
  <2>6. Paid(<<>>, PaidOut(T, rune)) \in Nat
        /\ Paid(<<>>, PaidOut(T, rune)) + AmountOf(old) <= AmountOf(old)
    BY <2>3, <2>4
  <2>7. Accounted(A, T, rune, old, old, <<>>)
    BY <2>5, <2>6, Zenon DEF Accounted
  <2> QED
    BY <2>7 DEF old
<1>3. res.tc = tc /\ res.entries = <<>>
  OBVIOUS
<1> HIDE DEF res
<1>4. res.tc.next_event_index = tc.next_event_index + Len(res.entries)
  BY <1>1, <1>3
<1>5. Shifts(res.entries)
  BY <1>1, <1>3 DEF Shifts
<1> QED
  BY <1>1, <1>2, <1>3, <1>4, <1>5 DEF Settled, res

\* MoveRuneBalance in the terms above.
OneMove(res, output, rune, amount, new) ==
    LET taken == TakeBalance(res.tc.input_runes[rune], amount)
        m     == Moved(res.tc, output, rune, taken)
    IN  /\ IsTransaction(new.tc) /\ SameTransaction(res.tc, new.tc)
        /\ new.tc.input_runes = [res.tc.input_runes EXCEPT ![rune] = taken.left]
        /\ new.tc.next_event_index = res.tc.next_event_index + Len(m)
        /\ new.entries = res.entries \o m

LEMMA MoveIsMoved ==
    ASSUME NEW A, NEW O, NEW tc, NEW res, Settled(A, O, tc, res),
           NEW output \in O, NEW rune \in RuneKeys, NEW amount \in Nat
    PROVE  OneMove(res, output, rune, amount, MoveRuneBalance(res, output, rune, amount))
<1> DEFINE taken == TakeBalance(res.tc.input_runes[rune], amount)
           old   == res.tc
           T     == Logs(old.location, A, O)
           receives == Receives(old, output, rune, taken.sent)
           sends == Sends(old, Len(receives), output, rune, taken.senders)
           m     == Moved(old, output, rune, taken)
           new   == MoveRuneBalance(res, output, rune, amount)
<1>1. Carries(old, A) /\ SameTransaction(tc, old) /\ res.entries \in Seq(Logs(tc.location, A, O))
  BY DEF Settled
<1>2. T = Logs(tc.location, A, O)
  BY <1>1 DEF SameTransaction
<1>3. old.input_runes[rune] \in Deques(A) /\ old.next_event_index \in Nat
  BY <1>1 DEF Carries
<1>4. taken \in Takings(A)
  BY <1>3, TakenAddsUp
<1>5. taken.sent \in Nat /\ taken.senders \in Deques(A \ {None})
  BY <1>4 DEF Takings
<1>6. receives \in Seq(T) /\ Len(receives) \in Nat
  BY <1>1, <1>5, ReceiveLogged
<1>7. sends \in Seq(T)
  BY <1>1, <1>5, <1>6, SendsLogged DEF ChargeSenders
<1>8. m = receives \o sends
  BY DEF Moved
<1>9. /\ IsTransaction(new.tc) /\ SameTransaction(old, new.tc)
      /\ new.tc.input_runes = [old.input_runes EXCEPT ![rune] = taken.left]
      /\ new.tc.next_event_index = old.next_event_index + Len(receives) + Len(sends)
      /\ new.entries = (res.entries \o receives) \o sends
  <2>1. MoveResult(res, output, rune, amount, new)
    BY <1>1, MovedTransaction DEF Carries
  <2> HIDE DEF new
  <2> QED
    BY <2>1 DEF MoveResult
<1> HIDE DEF receives, sends, T, m, new, taken, old
<1>10. res.entries \in Seq(T)
  BY <1>1, <1>2
<1>11. new.entries = res.entries \o m /\ Len(m) = Len(receives) + Len(sends)
  <2>1. (res.entries \o receives) \o sends = res.entries \o (receives \o sends)
    <3>1. \A a, b, c \in Seq(T) : (a \o b) \o c = a \o (b \o c)
      BY ConcatAssociative
    <3> DEFINE e == res.entries
    <3>2. e \in Seq(T)
      BY <1>10
    <3> HIDE DEF e
    <3>3. (e \o receives) \o sends = e \o (receives \o sends)
      BY <1>6, <1>7, <3>1, <3>2
    <3> QED
      BY <3>3 DEF e
  <2>2. Len(receives \o sends) = Len(receives) + Len(sends)
    BY <1>6, <1>7
  <2> QED
    BY <1>8, <1>9, <2>1, <2>2
<1>12. new.tc.next_event_index = old.next_event_index + Len(m)
  BY <1>3, <1>6, <1>7, <1>9, <1>11
<1> QED
  BY <1>9, <1>11, <1>12 DEF m, new, taken, old, OneMove

Stepped(A, O, tc, res, rune, amount, new) ==
    /\ Settled(A, O, tc, new)
    /\ \A r \in RuneKeys \ {rune} : new.tc.input_runes[r] = res.tc.input_runes[r]
    /\ amount = 0 /\ Orderly(res.tc.input_runes[rune]) =>
          AllMinted(new.tc.input_runes[rune])

\* Moving an amount of one rune settles what the move before settled, and with the
\* amount 0 leaves nothing of the rune to a sender.
LEMMA MoveStep ==
    ASSUME NEW A, NEW O, NEW tc, Carries(tc, A), NEW res, Settled(A, O, tc, res),
           NEW output \in O, NEW rune \in RuneKeys, NEW amount \in Nat
    PROVE  Stepped(A, O, tc, res, rune, amount, MoveRuneBalance(res, output, rune, amount))
<1> DEFINE mid   == res.tc
           taken == TakeBalance(mid.input_runes[rune], amount)
           m     == Moved(mid, output, rune, taken)
           new   == MoveRuneBalance(res, output, rune, amount)
           T     == Logs(tc.location, A, O)
           n     == Len(res.entries)
<1>1. /\ Carries(mid, A) /\ SameTransaction(tc, mid)
      /\ res.entries \in Seq(T) /\ Shifts(res.entries)
      /\ mid.next_event_index = tc.next_event_index + n
      /\ \A i \in DOMAIN res.entries : res.entries[i].event = tc.next_event_index + i - 1
      /\ \A r \in RuneKeys :
            Accounted(A, T, r, tc.input_runes[r], mid.input_runes[r], res.entries)
  BY DEF Settled
<1>2. /\ None \in A /\ IsTransaction(mid)
      /\ mid.input_runes \in [RuneKeys -> Deques(A)]
      /\ mid.next_event_index \in Nat
      /\ \A o \in DOMAIN mid.eligible_outputs : mid.eligible_outputs[o] \in A
  BY <1>1 DEF Carries
<1>3. mid.input_runes[rune] \in Deques(A) /\ mid.location = tc.location
  BY <1>1, <1>2 DEF SameTransaction
<1>4. /\ taken \in Takings(A)
      /\ taken.sent + AmountOf(taken.left) = AmountOf(mid.input_runes[rune])
      /\ AmountOf(taken.senders) <= taken.sent
      /\ \A Q \in SUBSET (A \ {None}) :
             AmountFrom(taken.senders, Q) + AmountFrom(taken.left, Q)
                 = AmountFrom(mid.input_runes[rune], Q)
  BY <1>3, TakenAddsUp
<1>5. /\ taken.sent \in Nat /\ taken.senders \in Deques(A \ {None}) /\ taken.left \in Deques(A)
  BY <1>4 DEF Takings
<1>6. Orderly(mid.input_runes[rune]) =>
          Orderly(taken.left) /\ (amount = 0 => AllMinted(taken.left))
  BY <1>3, LeftOrderly
<1>7. /\ IsTransaction(new.tc) /\ SameTransaction(mid, new.tc)
      /\ new.tc.input_runes = [mid.input_runes EXCEPT ![rune] = taken.left]
      /\ new.tc.next_event_index = mid.next_event_index + Len(m)
      /\ new.entries = res.entries \o m
  <2>1. OneMove(res, output, rune, amount, new)
    BY MoveIsMoved
  <2> HIDE DEF new
  <2> QED
    BY <2>1 DEF OneMove
<1> HIDE DEF mid, taken
<1>8. PaysFor(A, O, mid, rune, taken, m)
  BY <1>1, <1>4, <1>5, MovedLogged
<1> HIDE DEF m, new, T
<1>9. /\ m \in Seq(T) /\ Shifts(m)
      /\ \A i \in DOMAIN m : m[i].event = mid.next_event_index + i - 1
      /\ \A r \in RuneKeys :
            /\ Paid(m, PaidOut(T, r)) \in Nat
            /\ Paid(m, PaidOut(T, r)) <= IF r = rune THEN taken.sent ELSE 0
            /\ \A a \in A \ {None} :
                  Paid(m, Charged(T, r, a))
                      = IF r = rune THEN AmountFrom(taken.senders, {a}) ELSE 0
  BY <1>3, <1>8 DEF PaysFor, T
<1>10. n \in Nat /\ Len(m) \in Nat /\ tc.next_event_index \in Nat
  BY <1>1, <1>9 DEF Carries
<1>11. /\ new.entries \in Seq(T) /\ Len(new.entries) = n + Len(m)
       /\ DOMAIN new.entries = 1..(n + Len(m))
       /\ \A i \in 1..n : i \in DOMAIN res.entries /\ new.entries[i] = res.entries[i]
       /\ \A j \in 1..Len(m) : j \in DOMAIN m /\ new.entries[n + j] = m[j]
  BY <1>1, <1>7, <1>9
<1> HIDE DEF n
<1>12. /\ SameTransaction(tc, new.tc)
       /\ \A o \in DOMAIN new.tc.eligible_outputs : new.tc.eligible_outputs[o] \in A
  BY <1>1, <1>2, <1>7 DEF SameTransaction
<1>13. /\ new.tc.input_runes \in [RuneKeys -> Deques(A)]
       /\ new.tc.input_runes[rune] = taken.left
       /\ \A r \in RuneKeys \ {rune} : new.tc.input_runes[r] = mid.input_runes[r]
  BY <1>2, <1>5, <1>7
<1>14. new.tc.next_event_index \in Nat
       /\ new.tc.next_event_index = tc.next_event_index + Len(new.entries)
  BY <1>1, <1>2, <1>7, <1>10, <1>11
<1>15. Carries(new.tc, A)
  BY <1>2, <1>7, <1>12, <1>13, <1>14 DEF Carries
<1>16. ASSUME NEW i \in DOMAIN new.entries
       PROVE  new.entries[i].event = tc.next_event_index + i - 1
  <2>1. i \in 1..(n + Len(m))
    BY <1>11
  <2>2. CASE i <= n
    <3>1. i \in 1..n
      BY <1>10, <2>1, <2>2
    <3> QED
      BY <1>1, <1>11, <3>1
  <2>3. CASE ~(i <= n)
    <3> DEFINE j == i - n
    <3>1. j \in 1..Len(m) /\ i = n + j /\ j \in Nat
      BY <1>10, <2>1, <2>3
    <3> HIDE DEF j
    <3>2. new.entries[i] = m[j] /\ j \in DOMAIN m
      BY <1>11, <3>1
    <3>3. m[j].event = mid.next_event_index + j - 1
      BY <1>9, <3>2
    <3>4. mid.next_event_index + j - 1 = tc.next_event_index + i - 1
      BY <1>1, <1>10, <3>1
    <3> QED
      BY <3>2, <3>3, <3>4
  <2> QED
    BY <2>2, <2>3
<1>17. ASSUME NEW E, HasAmounts(E)
       PROVE  Paid(new.entries, E) = Paid(res.entries, E) + Paid(m, E)
  BY <1>1, <1>7, <1>9, <1>17, PaidConcat
<1>18. ASSUME NEW r \in RuneKeys
       PROVE  Accounted(A, T, r, tc.input_runes[r], new.tc.input_runes[r], new.entries)
  <2> DEFINE old  == tc.input_runes[r]
             was  == mid.input_runes[r]
             now  == new.tc.input_runes[r]
             P    == PaidOut(T, r)
             C(a) == Charged(T, r, a)
  <2>1. HasAmounts(P) /\ \A a : HasAmounts(C(a))
    BY ChargesHaveAmounts DEF T
  <2>2. /\ Paid(res.entries, P) \in Nat
        /\ Paid(res.entries, P) + AmountOf(was) <= AmountOf(old)
        /\ \A a \in A \ {None} :
              Paid(res.entries, C(a)) + AmountFrom(was, {a}) = AmountFrom(old, {a})
        /\ Orderly(old) => Orderly(was)
    <3>1. Accounted(A, T, r, old, was, res.entries)
      BY <1>1
    <3> HIDE DEF old, was, P, C
    <3> QED
      BY <3>1, Zenon DEF Accounted, P, C
  <2>3. /\ Paid(m, P) \in Nat /\ Paid(m, P) <= IF r = rune THEN taken.sent ELSE 0
        /\ \A a \in A \ {None} :
              Paid(m, C(a)) = IF r = rune THEN AmountFrom(taken.senders, {a}) ELSE 0
    BY <1>9
  <2>4. /\ Paid(new.entries, P) = Paid(res.entries, P) + Paid(m, P)
        /\ \A a : Paid(new.entries, C(a)) = Paid(res.entries, C(a)) + Paid(m, C(a))
    BY <1>17, <2>1
  <2>5. old \in Deques(A) /\ was \in Deques(A) /\ now \in Deques(A)
    BY <1>2, <1>13 DEF Carries
  <2>6. AmountOf(old) \in Nat /\ AmountOf(was) \in Nat /\ AmountOf(now) \in Nat
    BY <2>5, AmountOfIsSum
  <2>7. /\ r = rune => now = taken.left /\ was = mid.input_runes[rune]
        /\ r # rune => now = was
    BY <1>13
  <2> HIDE DEF old, was, now, P, C
  <2>8. Paid(new.entries, P) \in Nat
    BY <2>2, <2>3, <2>4
  <2>9. Paid(m, P) + AmountOf(now) <= AmountOf(was)
    <3>1. CASE r = rune
      <4>1. taken.sent + AmountOf(now) = AmountOf(was)
        BY <1>4, <2>7, <3>1
      <4>2. Paid(m, P) <= taken.sent
        BY <2>3, <3>1
      <4> QED
        BY <1>5, <2>3, <2>6, <4>1, <4>2
    <3>2. CASE r # rune
      <4>1. Paid(m, P) = 0 /\ now = was
        BY <2>3, <2>7, <3>2
      <4> QED
        BY <2>6, <4>1
    <3> QED
      BY <3>1, <3>2
  <2>10. Paid(new.entries, P) + AmountOf(now) <= AmountOf(old)
    BY <2>2, <2>3, <2>4, <2>6, <2>9
  <2>11. ASSUME NEW a \in A \ {None}
         PROVE  Paid(new.entries, C(a)) + AmountFrom(now, {a}) = AmountFrom(old, {a})
    <3> DEFINE x == AmountFrom(now, {a})
               y == AmountFrom(was, {a})
               z == AmountFrom(taken.senders, {a})
               p == Paid(res.entries, C(a))
               q == Paid(m, C(a))
    <3>1. x \in Nat /\ y \in Nat /\ z \in Nat
      BY <1>5, <2>5, AmountFromPart
    <3>2. p + y = AmountFrom(old, {a})
      BY <2>2
    <3>3. q = IF r = rune THEN z ELSE 0
      BY <2>3
    <3>4. Paid(new.entries, C(a)) = p + q
      BY <2>4
    <3>5. r = rune => z + x = y
      BY <1>4, <2>7
    <3>6. r # rune => x = y
      BY <2>7
    <3>7. p \in Nat
      <4>1. HasAmounts(C(a))
        BY <2>1
      <4> HIDE DEF T
      <4> QED
        BY <1>1, <4>1, PaidIsNat
    <3> HIDE DEF x, y, z, p, q
    <3>8. p + q + x = p + y
      BY <3>1, <3>3, <3>5, <3>6, <3>7
    <3> QED
      BY <3>2, <3>4, <3>8 DEF x
  <2>12. Orderly(old) => Orderly(now)
    BY <1>6, <2>2, <2>7
  <2>13. Accounted(A, T, r, old, now, new.entries)
    BY <2>8, <2>10, <2>11, <2>12, Zenon DEF Accounted, P, C
  <2> QED
    BY <2>13 DEF old, now
<1>20. Shifts(new.entries)
  <2> SUFFICES ASSUME NEW i \in DOMAIN new.entries
               PROVE  new.entries[i].op \in {"burn", "send", "receive"}
    BY DEF Shifts
  <2>1. i \in 1..(n + Len(m))
    BY <1>11
  <2>2. CASE i <= n
    <3>1. i \in 1..n
      BY <1>10, <2>1, <2>2
    <3> QED
      BY <1>1, <1>11, <3>1 DEF Shifts
  <2>3. CASE ~(i <= n)
    <3> DEFINE j == i - n
    <3>1. j \in 1..Len(m) /\ i = n + j
      BY <1>10, <2>1, <2>3
    <3> HIDE DEF j
    <3> QED
      BY <1>9, <1>11, <3>1 DEF Shifts
  <2> QED
    BY <2>2, <2>3
<1>19. Settled(A, O, tc, new)
  BY <1>11, <1>12, <1>14, <1>15, <1>16, <1>18, <1>20 DEF Settled, T
<1> QED
  BY <1>6, <1>13, <1>19 DEF new, mid, Stepped

-----------------------------------------------------------------------------
(* MoveToEach: one move for each share *)

\* The rounds of MoveToEach.
MovesInTurn(outputs, rune, shares, start, n, h) ==
    /\ h[0] = start
    /\ \A k \in 1..n : h[k] = MoveRuneBalance(h[k - 1], outputs[k], rune, shares[k])

LEMMA EachTrace ==
    ASSUME NEW result, NEW rune, NEW shares, NEW n \in Nat, DOMAIN shares = 1..n
    PROVE  \E h : /\ MovesInTurn(EligibleInOrder(result.tc), rune, shares, result, n, h)
                  /\ MoveToEach(result, rune, shares) = h[n]
<1> DEFINE outputs == EligibleInOrder(result.tc)
           S == (1..n)
           base == result
           Op(x, y) == MoveRuneBalance(y, outputs[x], rune, shares[x])
           Ch(s) == Max(s)
           iter == CHOOSE g : g = [s \in SUBSET S |->
                      IF s = {} THEN base ELSE Op(Ch(s), g[s \ {Ch(s)}])]
<1>1. MoveToEach(result, rune, shares) = iter[S]
  <2> DEFINE idx == [i \in DOMAIN shares |-> i]
             Step(x, y) == MoveRuneBalance(y, outputs[idx[x]], rune, shares[idx[x]])
             Pick(s) == Max(s)
             it == CHOOSE g : g = [s \in SUBSET DOMAIN idx |->
                      IF s = {} THEN base ELSE Step(Pick(s), g[s \ {Pick(s)}])]
  <2>1. MoveToEach(result, rune, shares) = it[DOMAIN idx]
    BY Zenon DEF MoveToEach, FoldLeft, MapThenFoldSet
  <2>2. DOMAIN idx = S /\ \A x \in S : idx[x] = x
    OBVIOUS
  <2>3. \A s \in SUBSET S : s # {} => Pick(s) \in S
    <3> SUFFICES ASSUME NEW s \in SUBSET S, s # {}
                 PROVE  Pick(s) \in S
      OBVIOUS
    <3>1. s \subseteq Nat /\ \A i \in s : i <= n
      OBVIOUS
    <3>2. n \in Int
      OBVIOUS
    <3>3. Pick(s) \in s
      BY <3>1, <3>2, MaxNatural
    <3> QED
      BY <3>3
  <2> HIDE DEF idx, Pick, S
  <2>4. \A s \in SUBSET S : s # {} => \A y : Step(Pick(s), y) = Op(Pick(s), y)
    BY <2>2, <2>3
  <2> HIDE DEF Step, Op, base, it, iter
  <2>5. \A g : [s \in SUBSET DOMAIN idx |->
                    IF s = {} THEN base ELSE Step(Pick(s), g[s \ {Pick(s)}])]
                 = [s \in SUBSET S |->
                    IF s = {} THEN base ELSE Op(Pick(s), g[s \ {Pick(s)}])]
    BY <2>2, <2>4
  <2>6. it = iter
    BY <2>5, Zenon DEF it, iter, Pick, Ch
  <2> QED
    BY <2>1, <2>2, <2>6
<1> HIDE DEF base, Op
<1>2. \A s \in SUBSET S : IsFiniteSet(s) /\ Cardinality(s) \in Nat
  <2>1. IsFiniteSet(S)
    BY FS_Interval
  <2> QED
    BY <2>1, FS_Subset, FS_CardinalityType
<1>3. ASSUME NEW s \in SUBSET S, s # {}
      PROVE  Ch(s) \in s
  <2>1. s \subseteq Nat /\ \A i \in s : i <= n
    OBVIOUS
  <2>2. n \in Int
    OBVIOUS
  <2> QED
    BY <1>3, <2>1, <2>2, MaxNatural
<1> HIDE DEF Ch, S
<1>4. \A s \in SUBSET S : s # {} => Cardinality(s \ {Ch(s)}) = Cardinality(s) - 1
  BY <1>2, <1>3, FS_RemoveElement
<1>5. \A s \in SUBSET S : Cardinality(s) = 0 <=> s = {}
  BY <1>2, FS_EmptySet
<1> DEFINE Eq(g, s) == g[s] = IF s = {} THEN base ELSE Op(Ch(s), g[s \ {Ch(s)}])
           Solved(k) == \E g : \A s \in SUBSET S : Cardinality(s) <= k => Eq(g, s)
           good == {k \in Nat : Solved(k)}
<1>6. 0 \in good
  <2> DEFINE h == [s \in SUBSET S |-> base]
  <2>1. \A s \in SUBSET S : Cardinality(s) <= 0 => Eq(h, s)
    BY <1>2, <1>5
  <2> HIDE DEF h
  <2> QED
    BY <2>1
<1>7. ASSUME NEW k \in Nat, k \in good
      PROVE  k + 1 \in good
  <2>1. PICK g : \A s \in SUBSET S : Cardinality(s) <= k => Eq(g, s)
    BY <1>7
  <2> DEFINE h == [s \in SUBSET S |-> IF Cardinality(s) <= k THEN g[s]
                                      ELSE Op(Ch(s), g[s \ {Ch(s)}])]
  <2>2. ASSUME NEW s \in SUBSET S, Cardinality(s) <= k + 1
        PROVE  Eq(h, s)
    <3>1. CASE s = {}
      <4>1. Cardinality(s) <= k /\ h[s] = g[s]
        BY <1>5, <3>1
      <4> QED
        BY <2>1, <3>1, <4>1
    <3>2. CASE s # {}
      <4>1. s \ {Ch(s)} \in SUBSET S /\ Cardinality(s \ {Ch(s)}) <= k
        BY <1>2, <1>4, <2>2, <3>2
      <4>2. h[s \ {Ch(s)}] = g[s \ {Ch(s)}]
        BY <4>1
      <4>3. h[s] = Op(Ch(s), g[s \ {Ch(s)}])
        BY <2>1, <3>2
      <4> QED
        BY <3>2, <4>2, <4>3
    <3> QED
      BY <3>1, <3>2
  <2> HIDE DEF h, Eq
  <2>3. Solved(k + 1)
    BY <2>2
  <2> HIDE DEF Solved
  <2> QED
    BY <2>3
<1>8. Cardinality(S) \in good
  <2> HIDE DEF good
  <2>1. Nat \subseteq good
    BY <1>6, <1>7, NatGrows
  <2>2. Cardinality(S) \in Nat
    BY <1>2
  <2> QED
    BY <2>1, <2>2
<1>9. PICK f : \A s \in SUBSET S : Eq(f, s)
  <2>1. PICK f : \A s \in SUBSET S : Cardinality(s) <= Cardinality(S) => Eq(f, s)
    BY <1>8
  <2>2. \A s \in SUBSET S : Cardinality(s) <= Cardinality(S)
    BY <1>2, FS_Subset
  <2> QED
    BY <2>1, <2>2
<1>10. iter = [s \in SUBSET S |->
                      IF s = {} THEN base ELSE Op(Ch(s), iter[s \ {Ch(s)}])]
  <2> DEFINE h == [s \in SUBSET S |-> f[s]]
  <2>1. h = [s \in SUBSET S |->
                      IF s = {} THEN base ELSE Op(Ch(s), h[s \ {Ch(s)}])]
    BY <1>9
  <2> HIDE DEF h
  <2> QED
    BY <2>1
<1> HIDE DEF iter
<1>11. iter[{}] = base
  BY <1>10
<1>12. \A s \in SUBSET S : s # {} => Ch(s) \in s /\ iter[s] = Op(Ch(s), iter[s \ {Ch(s)}])
  BY <1>3, <1>10
<1> DEFINE h == [k \in 0..n |-> iter[1..k]]
<1>13. h[0] = result
  <2>1. 1..0 = {}
    OBVIOUS
  <2> QED
    BY <1>11, <2>1 DEF base
<1>14. ASSUME NEW k \in 1..n
       PROVE  h[k] = MoveRuneBalance(h[k - 1], outputs[k], rune, shares[k])
  <2>1. 1..k \in SUBSET S /\ 1..k # {}
    <3>1. k \in 1..k /\ \A i \in 1..k : i \in 1..n
      OBVIOUS
    <3> QED
      BY <3>1 DEF S
  <2>2. Ch(1..k) = k /\ (1..k) \ {k} = 1..(k - 1)
    BY MaxOfFirst DEF Ch
  <2>3. iter[1..k] = Op(k, iter[1..(k - 1)])
    BY <1>12, <2>1, <2>2
  <2>4. h[k] = iter[1..k] /\ h[k - 1] = iter[1..(k - 1)]
    OBVIOUS
  <2> QED
    BY <2>3, <2>4 DEF Op
<1>15. h[n] = iter[S]
  BY DEF S
<1> HIDE DEF h
<1> QED
  BY <1>1, <1>13, <1>14, <1>15 DEF MovesInTurn


-----------------------------------------------------------------------------
(* MoveAllTo: one move for each rune held *)

\* The moves of MoveAllTo up to its end, before what is left is forgotten.
AllMoved(tc, output) ==
    FoldSet(LAMBDA r, acc : MoveRuneBalance(acc, output, r, 0),
            [tc |-> tc, entries |-> <<>>], HeldRunes(tc))

\* g[s] is the result when the runes of s were moved, in some order.
MovesOfEach(tc, output, S, g) ==
    /\ g[{}] = [tc |-> tc, entries |-> <<>>]
    /\ \A s \in SUBSET S : s # {} =>
          \E x \in s : g[s] = MoveRuneBalance(g[s \ {x}], output, x, 0)

LEMMA AllTrace ==
    ASSUME NEW tc, NEW output, NEW T, T = HeldRunes(tc), IsFiniteSet(T)
    PROVE  \E g : AllMoved(tc, output) = g[T] /\ MovesOfEach(tc, output, T, g)
<1> DEFINE S == T
           base == [tc |-> tc, entries |-> <<>>]
           Op(x, y) == MoveRuneBalance(y, output, x, 0)
           Ch(s) == CHOOSE i \in s : TRUE
           iter == CHOOSE g : g = [s \in SUBSET S |->
                      IF s = {} THEN base ELSE Op(Ch(s), g[s \ {Ch(s)}])]
<1>1. AllMoved(tc, output) = iter[S]
  BY Zenon DEF AllMoved, FoldSet, MapThenFoldSet
<1> HIDE DEF base, Op
<1>2. \A s \in SUBSET S : IsFiniteSet(s) /\ Cardinality(s) \in Nat
  <2>1. IsFiniteSet(S)
    OBVIOUS
  <2> QED
    BY <2>1, FS_Subset, FS_CardinalityType
<1>3. ASSUME NEW s \in SUBSET S, s # {}
      PROVE  Ch(s) \in s
  BY <1>3
<1> HIDE DEF Ch, S
<1>4. \A s \in SUBSET S : s # {} => Cardinality(s \ {Ch(s)}) = Cardinality(s) - 1
  BY <1>2, <1>3, FS_RemoveElement
<1>5. \A s \in SUBSET S : Cardinality(s) = 0 <=> s = {}
  BY <1>2, FS_EmptySet
<1> DEFINE Eq(g, s) == g[s] = IF s = {} THEN base ELSE Op(Ch(s), g[s \ {Ch(s)}])
           Solved(k) == \E g : \A s \in SUBSET S : Cardinality(s) <= k => Eq(g, s)
           good == {k \in Nat : Solved(k)}
<1>6. 0 \in good
  <2> DEFINE h == [s \in SUBSET S |-> base]
  <2>1. \A s \in SUBSET S : Cardinality(s) <= 0 => Eq(h, s)
    BY <1>2, <1>5
  <2> HIDE DEF h
  <2> QED
    BY <2>1
<1>7. ASSUME NEW k \in Nat, k \in good
      PROVE  k + 1 \in good
  <2>1. PICK g : \A s \in SUBSET S : Cardinality(s) <= k => Eq(g, s)
    BY <1>7
  <2> DEFINE h == [s \in SUBSET S |-> IF Cardinality(s) <= k THEN g[s]
                                      ELSE Op(Ch(s), g[s \ {Ch(s)}])]
  <2>2. ASSUME NEW s \in SUBSET S, Cardinality(s) <= k + 1
        PROVE  Eq(h, s)
    <3>1. CASE s = {}
      <4>1. Cardinality(s) <= k /\ h[s] = g[s]
        BY <1>5, <3>1
      <4> QED
        BY <2>1, <3>1, <4>1
    <3>2. CASE s # {}
      <4>1. s \ {Ch(s)} \in SUBSET S /\ Cardinality(s \ {Ch(s)}) <= k
        BY <1>2, <1>4, <2>2, <3>2
      <4>2. h[s \ {Ch(s)}] = g[s \ {Ch(s)}]
        BY <4>1
      <4>3. h[s] = Op(Ch(s), g[s \ {Ch(s)}])
        BY <2>1, <3>2
      <4> QED
        BY <3>2, <4>2, <4>3
    <3> QED
      BY <3>1, <3>2
  <2> HIDE DEF h, Eq
  <2>3. Solved(k + 1)
    BY <2>2
  <2> HIDE DEF Solved
  <2> QED
    BY <2>3
<1>8. Cardinality(S) \in good
  <2> HIDE DEF good
  <2>1. Nat \subseteq good
    BY <1>6, <1>7, NatGrows
  <2>2. Cardinality(S) \in Nat
    BY <1>2
  <2> QED
    BY <2>1, <2>2
<1>9. PICK f : \A s \in SUBSET S : Eq(f, s)
  <2>1. PICK f : \A s \in SUBSET S : Cardinality(s) <= Cardinality(S) => Eq(f, s)
    BY <1>8
  <2>2. \A s \in SUBSET S : Cardinality(s) <= Cardinality(S)
    BY <1>2, FS_Subset
  <2> QED
    BY <2>1, <2>2
<1>10. iter = [s \in SUBSET S |->
                      IF s = {} THEN base ELSE Op(Ch(s), iter[s \ {Ch(s)}])]
  <2> DEFINE h == [s \in SUBSET S |-> f[s]]
  <2>1. h = [s \in SUBSET S |->
                      IF s = {} THEN base ELSE Op(Ch(s), h[s \ {Ch(s)}])]
    BY <1>9
  <2> HIDE DEF h
  <2> QED
    BY <2>1
<1> HIDE DEF iter
<1>11. iter[{}] = base
  BY <1>10
<1>12. \A s \in SUBSET S : s # {} => Ch(s) \in s /\ iter[s] = Op(Ch(s), iter[s \ {Ch(s)}])
  BY <1>3, <1>10
<1>13. \A s \in SUBSET S : s # {} => \E x \in s : iter[s] = Op(x, iter[s \ {x}])
  BY <1>12
<1> QED
  BY <1>1, <1>11, <1>13 DEF S, base, Op, MovesOfEach


-----------------------------------------------------------------------------
(* What edicts and the end of a transaction settle *)

LEMMA EachSettles ==
    ASSUME NEW A, NEW O, NEW tc, Carries(tc, A), NEW result, Settled(A, O, tc, result),
           NEW rune \in RuneKeys, NEW shares, NEW n \in Nat, DOMAIN shares = 1..n,
           \A k \in 1..n : shares[k] \in Nat,
           \A k \in 1..n : EligibleInOrder(result.tc)[k] \in O
    PROVE  Settled(A, O, tc, MoveToEach(result, rune, shares))
<1> DEFINE outputs == EligibleInOrder(result.tc)
<1>1. PICK h : /\ MovesInTurn(outputs, rune, shares, result, n, h)
               /\ MoveToEach(result, rune, shares) = h[n]
  BY EachTrace
<1> HIDE DEF outputs
<1> DEFINE good == {k \in 0..n : Settled(A, O, tc, h[k])}
<1>2. 0 \in good
  BY <1>1 DEF MovesInTurn
<1>3. ASSUME NEW k \in 0..(n - 1), k \in good
      PROVE  k + 1 \in good
  <2> DEFINE mid == h[k]
             out == outputs[k + 1]
             amount == shares[k + 1]
  <2>1. k + 1 \in 1..n /\ (k + 1) - 1 = k /\ k + 1 \in 0..n
    OBVIOUS
  <2>2. h[k + 1] = MoveRuneBalance(mid, out, rune, amount)
    BY <1>1, <2>1 DEF MovesInTurn
  <2>3. out \in O /\ amount \in Nat /\ Settled(A, O, tc, mid)
    BY <1>3, <2>1 DEF outputs
  <2> HIDE DEF mid, out, amount
  <2>4. Settled(A, O, tc, MoveRuneBalance(mid, out, rune, amount))
    BY <2>3, MoveStep DEF Stepped
  <2> QED
    BY <2>1, <2>2, <2>4
<1> HIDE DEF good
<1>4. \A k \in 0..n : k \in good
  BY <1>2, <1>3, UpToGrows
<1>5. n \in good
  BY <1>4
<1> QED
  BY <1>1, <1>5 DEF good

\* Moving all the runes of the inputs leaves nothing to a sender.
LEMMA AllMovedSettles ==
    ASSUME NEW A, NEW O, NEW tc, Carries(tc, A), NEW output \in O,
           \A r \in RuneKeys : Orderly(tc.input_runes[r])
    PROVE  LET moved == AllMoved(tc, output)
           IN  /\ Settled(A, O, tc, moved)
               /\ \A r \in RuneKeys : AllMinted(moved.tc.input_runes[r])
               /\ HeldRunes(tc) = {} => moved.entries = <<>>
<1> DEFINE T == HeldRunes(tc)
           start == [tc |-> tc, entries |-> <<>>]
           runes == tc.input_runes
<1>1. T \subseteq RuneKeys /\ \A r \in RuneKeys \ T : runes[r] = <<>>
  BY DEF HeldRunes
<1>2. IsFiniteSet(T)
  <2>1. IsFiniteSet({SelfId})
    BY FS_Singleton
  <2>2. IsFiniteSet(RuneKeys)
    BY <2>1, RuneIdsAssumption, FS_Union DEF RuneKeys
  <2> QED
    BY <1>1, <2>2, FS_Subset
<1>3. PICK g : AllMoved(tc, output) = g[T] /\ MovesOfEach(tc, output, T, g)
  BY <1>2, AllTrace
<1>4. Settled(A, O, tc, start) /\ start.tc = tc /\ start.entries = <<>>
  BY NothingMoved
<1> HIDE DEF T, start, runes
<1> DEFINE Done(s, now) ==
               /\ \A r \in RuneKeys \ s : now[r] = runes[r]
               /\ \A r \in s : AllMinted(now[r])
           good == {s \in SUBSET T : Settled(A, O, tc, g[s]) /\ Done(s, g[s].tc.input_runes)}
<1>5. g[{}] = start
  BY <1>3 DEF MovesOfEach, start
<1>6. {} \in good
  BY <1>4, <1>5 DEF runes
<1>7. ASSUME NEW s \in SUBSET T, s # {}, \A x \in s : s \ {x} \in good
      PROVE  s \in good
  <2>1. PICK x \in s : g[s] = MoveRuneBalance(g[s \ {x}], output, x, 0)
    BY <1>3, <1>7 DEF MovesOfEach
  <2> DEFINE mid == g[s \ {x}]
             new == MoveRuneBalance(mid, output, x, 0)
  <2>2. Settled(A, O, tc, mid) /\ Done(s \ {x}, mid.tc.input_runes)
    BY <1>7
  <2>3. x \in RuneKeys /\ 0 \in Nat
    BY <1>1
  <2> HIDE DEF mid
  <2>4. mid.tc.input_runes[x] = runes[x] /\ Orderly(runes[x])
    BY <2>2, <2>3 DEF runes
  <2>5. /\ Settled(A, O, tc, new)
        /\ \A r \in RuneKeys \ {x} : new.tc.input_runes[r] = mid.tc.input_runes[r]
        /\ Orderly(mid.tc.input_runes[x]) => AllMinted(new.tc.input_runes[x])
    <3>1. Stepped(A, O, tc, mid, x, 0, new)
      BY <2>2, <2>3, MoveStep
    <3> HIDE DEF new
    <3> QED
      BY <3>1, Zenon DEF Stepped
  <2> HIDE DEF new
  <2>6. Done(s, new.tc.input_runes)
    BY <1>1, <2>2, <2>4, <2>5
  <2>7. g[s] = new
    BY <2>1 DEF mid, new
  <2> QED
    BY <2>5, <2>6, <2>7
<1> HIDE DEF good
<1>8. SUBSET T \subseteq good
  BY <1>2, <1>6, <1>7, SubsetsGrow
<1> DEFINE moved == AllMoved(tc, output)
<1>9. Settled(A, O, tc, moved) /\ Done(T, moved.tc.input_runes)
  BY <1>3, <1>8 DEF good
<1>10. AllMinted(<<>>)
  BY DEF AllMinted
<1> HIDE DEF moved
<1>11. \A r \in RuneKeys : AllMinted(moved.tc.input_runes[r])
  BY <1>1, <1>9, <1>10
<1>12. T = {} => moved.entries = <<>>
  BY <1>3, <1>4, <1>5 DEF moved
<1> QED
  BY <1>9, <1>11, <1>12 DEF moved, T

LEMMA MintedIsNobodys ==
    ASSUME NEW A, NEW l, AllMinted(l), NEW a, a # None
    PROVE  AmountFrom(l, {a}) = 0
<1>1. {i \in DOMAIN l : l[i].address \in {a}} = {}
  BY DEF AllMinted
<1>2. IsFiniteSet({}) /\ Weighs(Amounts(l), {})
  BY FS_EmptySet DEF Weighs
<1>3. SumOver(Amounts(l), {}) = 0
  BY <1>2, SumTakesOut
<1> QED
  BY <1>1, <1>3 DEF AmountFrom

\* All the inputs hold is moved; when they hold nothing, nothing is written.
MovedOut(A, O, tc, end) ==
    /\ Settled(A, O, tc, end)
    /\ end.tc.input_runes = [r \in RuneKeys |-> <<>>]
    /\ HeldRunes(tc) = {} => end.entries = <<>>

\* At the end of a transaction no rune is left in it, and what its senders still had
\* is charged to them.
LEMMA AllSettles ==
    ASSUME NEW A, NEW O, NEW tc, Carries(tc, A), NEW output \in O,
           \A r \in RuneKeys : Orderly(tc.input_runes[r])
    PROVE  MovedOut(A, O, tc, MoveAllTo(tc, output))
<1> DEFINE moved == AllMoved(tc, output)
           end == MoveAllTo(tc, output)
           none == [r \in RuneKeys |-> <<>>]
           T == Logs(tc.location, A, O)
<1>1. /\ Settled(A, O, tc, moved)
      /\ \A r \in RuneKeys : AllMinted(moved.tc.input_runes[r])
      /\ HeldRunes(tc) = {} => moved.entries = <<>>
  BY AllMovedSettles
<1>2. end = [moved EXCEPT !.tc = ClearInputRunes(@)]
  BY Zenon DEF MoveAllTo, AllMoved
<1> HIDE DEF moved, end, none
<1>3. /\ Carries(moved.tc, A) /\ SameTransaction(tc, moved.tc)
      /\ moved.entries \in Seq(T) /\ Shifts(moved.entries)
      /\ moved.tc.next_event_index = tc.next_event_index + Len(moved.entries)
      /\ \A i \in DOMAIN moved.entries : moved.entries[i].event = tc.next_event_index + i - 1
      /\ \A r \in RuneKeys :
            Accounted(A, T, r, tc.input_runes[r], moved.tc.input_runes[r], moved.entries)
  BY <1>1 DEF Settled
<1> HIDE DEF T
<1>4. end.tc = [moved.tc EXCEPT !.input_runes = none] /\ end.entries = moved.entries
  BY <1>2 DEF ClearInputRunes, none
<1>5. /\ IsTransaction(moved.tc) /\ None \in A /\ moved.tc.next_event_index \in Nat
      /\ \A o \in DOMAIN moved.tc.eligible_outputs : moved.tc.eligible_outputs[o] \in A
      /\ moved.tc.input_runes \in [RuneKeys -> Deques(A)]
  BY <1>3 DEF Carries
<1>6. /\ IsTransaction(end.tc) /\ SameTransaction(moved.tc, end.tc)
      /\ end.tc.input_runes = none
      /\ end.tc.next_event_index = moved.tc.next_event_index
  BY <1>4, <1>5, InputRunesField
<1>7. SameTransaction(tc, end.tc)
  BY <1>3, <1>6 DEF SameTransaction
<1>8. none \in [RuneKeys -> Deques(A)] /\ \A r \in RuneKeys : none[r] = <<>>
  <2>1. <<>> \in Deques(A)
    BY AmountFromEmpty
  <2> QED
    BY <2>1 DEF none
<1>9. Carries(end.tc, A)
  <2>1. \A o \in DOMAIN end.tc.eligible_outputs : end.tc.eligible_outputs[o] \in A
    BY <1>5, <1>6 DEF SameTransaction
  <2> QED
    BY <1>5, <1>6, <1>8, <2>1 DEF Carries
<1>10. ASSUME NEW r \in RuneKeys
       PROVE  Accounted(A, T, r, tc.input_runes[r], <<>>, moved.entries)
  <2> DEFINE old == tc.input_runes[r]
             was == moved.tc.input_runes[r]
             e   == moved.entries
             P   == PaidOut(T, r)
             C(a) == Charged(T, r, a)
  <2>1. Accounted(A, T, r, old, was, e) /\ AllMinted(was)
    BY <1>1, <1>3
  <2>2. old \in Deques(A) /\ was \in Deques(A)
    <3>1. tc.input_runes \in [RuneKeys -> Deques(A)]
      BY DEF Carries
    <3> QED
      BY <1>5, <3>1
  <2>3. AmountOf(old) \in Nat /\ AmountOf(was) \in Nat /\ AmountOf(<<>>) = 0
    BY <2>2, AmountOfIsSum, AmountFromEmpty
  <2> HIDE DEF old, was, e, P, C
  <2>4. /\ Paid(e, P) \in Nat
        /\ Paid(e, P) + AmountOf(was) <= AmountOf(old)
        /\ \A a \in A \ {None} :
              Paid(e, C(a)) + AmountFrom(was, {a}) = AmountFrom(old, {a})
    BY <2>1, Zenon DEF Accounted, P, C
  <2>5. Paid(e, P) + AmountOf(<<>>) <= AmountOf(old)
    BY <2>3, <2>4
  <2>6. \A a \in A \ {None} : AmountFrom(was, {a}) = 0 /\ AmountFrom(<<>>, {a}) = 0
    BY <2>1, MintedIsNobodys, AmountFromEmpty
  <2>7. \A a \in A \ {None} :
            Paid(e, C(a)) + AmountFrom(<<>>, {a}) = AmountFrom(old, {a})
    BY <2>4, <2>6
  <2>8. Orderly(<<>>)
    BY DEF Orderly
  <2>9. Accounted(A, T, r, old, <<>>, e)
    BY <2>4, <2>5, <2>7, <2>8, Zenon DEF Accounted, P, C
  <2> QED
    BY <2>9 DEF old, e
<1>11. Settled(A, O, tc, end)
  <2>1. end.tc.next_event_index = tc.next_event_index + Len(end.entries)
    BY <1>3, <1>4, <1>6
  <2>2. \A r \in RuneKeys :
            Accounted(A, T, r, tc.input_runes[r], end.tc.input_runes[r], end.entries)
    BY <1>4, <1>6, <1>8, <1>10
  <2> QED
    BY <1>3, <1>4, <1>7, <1>9, <2>1, <2>2 DEF Settled, T
<1>12. MovedOut(A, O, tc, end)
  BY <1>1, <1>4, <1>6, <1>11 DEF MovedOut, none
<1> QED
  BY <1>12 DEF end

\* An edict settles what it moves, whichever way it names its rune and its outputs.
LEMMA EdictSettles ==
    ASSUME NEW A, NEW O, NEW tc, Carries(tc, A), None \in O, Nat \subseteq O,
           IsFiniteSet(DOMAIN tc.eligible_outputs),
           \A k \in Nat : EligibleInOrder(tc)[k] \in O,
           tc.etching # None => tc.etching.id \in RuneKeys,
           NEW edict, edict.id \in RuneKeys, edict.amount \in Nat, edict.output \in Nat
    PROVE  Settled(A, O, tc, ApplyEdict(tc, edict))
<1> DEFINE start       == [tc |-> tc, entries |-> <<>>]
           rune        == IF edict.id = SelfId THEN tc.etching.id ELSE edict.id
           unallocated == AmountOf(tc.input_runes[rune])
           n           == Cardinality(DOMAIN tc.eligible_outputs)
           equal       == [i \in 1..n |-> EqualShare(unallocated, n, i)]
           each        == [i \in 1..n |-> AtMost(edict.amount, unallocated)]
           some        == IF edict.amount = 0 THEN unallocated ELSE edict.amount
           new         == ApplyEdict(tc, edict)
<1>1. new = IF edict.id = SelfId /\ tc.etching = None THEN start
            ELSE IF n = 0 \/ edict.output > tc.total_outputs
                 THEN MoveRuneBalance(start, None, rune, edict.amount)
            ELSE IF edict.output < tc.total_outputs
                 THEN MoveRuneBalance(start, edict.output, rune, some)
            ELSE IF edict.amount = 0
                 THEN MoveToEach(start, rune, equal)
                 ELSE MoveToEach(start, rune, each)
  BY Zenon DEF ApplyEdict
<1>2. Settled(A, O, tc, start) /\ start.tc = tc
  BY NothingMoved
<1>3. n \in Nat
  BY FS_CardinalityType
<1> HIDE DEF start, new, n
<1>4. CASE edict.id = SelfId /\ tc.etching = None
  BY <1>1, <1>2, <1>4 DEF new
<1>5. CASE ~(edict.id = SelfId /\ tc.etching = None)
  <2>1. rune \in RuneKeys
    BY <1>5
  <2>2. tc.input_runes[rune] \in Deques(A)
    BY <2>1 DEF Carries
  <2>3. unallocated \in Nat
    BY <2>2, AmountOfIsSum
  <2> HIDE DEF rune, unallocated
  <2>4. some \in Nat
    BY <2>3
  <2>5. ASSUME NEW i \in 1..n
        PROVE  EqualShare(unallocated, n, i) \in Nat /\ AtMost(edict.amount, unallocated) \in Nat
    <3>1. n > 0 /\ unallocated \div n \in Nat
      BY <1>3, <2>3, <2>5
    <3> QED
      BY <2>3, <3>1 DEF EqualShare, AtMost
  <2>6. /\ DOMAIN equal = 1..n /\ \A i \in 1..n : equal[i] \in Nat
        /\ DOMAIN each = 1..n /\ \A i \in 1..n : each[i] \in Nat
    BY <2>5
  <2>7. \A k \in 1..n : EligibleInOrder(start.tc)[k] \in O
    BY <1>2, <1>3
  <2> HIDE DEF equal, each, some
  <2>8. Settled(A, O, tc, MoveToEach(start, rune, equal))
    BY <1>2, <1>3, <2>1, <2>6, <2>7, EachSettles
  <2>9. Settled(A, O, tc, MoveToEach(start, rune, each))
    BY <1>2, <1>3, <2>1, <2>6, <2>7, EachSettles
  <2>10. Settled(A, O, tc, MoveRuneBalance(start, None, rune, edict.amount))
    BY <1>2, <2>1, MoveStep DEF Stepped
  <2>11. Settled(A, O, tc, MoveRuneBalance(start, edict.output, rune, some))
    <3>1. edict.output \in O
      OBVIOUS
    <3> QED
      BY <1>2, <2>1, <2>4, <3>1, MoveStep DEF Stepped
  <2>12. Settled(A, O, tc, new)
    BY <1>1, <1>5, <2>8, <2>9, <2>10, <2>11
  <2> QED
    BY <2>12 DEF new
<1> QED
  BY <1>4, <1>5

-----------------------------------------------------------------------------
(* ApplyCenotaphInputBurn *)

\* The entries m, numbered from the k-th on, burn all the runes of s that the inputs
\* hold, and nothing else.
BurnsAllOf(A, O, tc, k, s, m) ==
    LET T == Logs(tc.location, A, O)
    IN  /\ m \in Seq(T)
        /\ \A i \in DOMAIN m : m[i].op = "burn" /\ m[i].event = tc.next_event_index + k + i - 1
        /\ \A r \in RuneKeys :
              /\ Paid(m, PaidOut(T, r)) = IF r \in s THEN AmountOf(tc.input_runes[r]) ELSE 0
              /\ \A a \in A \ {None} :
                    Paid(m, Charged(T, r, a))
                        = IF r \in s THEN AmountFrom(tc.input_runes[r], {a}) ELSE 0

LEMMA BurnLogged ==
    ASSUME NEW A, NEW O, NEW tc, Carries(tc, A), None \in O, NEW rune \in RuneKeys,
           NEW k \in Nat
    PROVE  BurnsAllOf(A, O, tc, k, {rune}, BurnBalances(tc, k, rune))
<1> DEFINE T == Logs(tc.location, A, O)
           m == BurnBalances(tc, k, rune)
           b == tc.input_runes[rune]
<1>1. None \in A /\ tc.next_event_index \in Nat /\ b \in Deques(A)
  BY DEF Carries
<1>2. /\ DOMAIN m = DOMAIN b
      /\ \A i \in DOMAIN b :
            m[i] = Entry(tc, k + i - 1, rune, b[i].amount, None, b[i].address, None, "burn")
  BY DEF BurnBalances
<1>3. m = [i \in DOMAIN b |-> m[i]]
  BY DEF BurnBalances
<1> HIDE DEF m, b
<1>4. /\ Len(b) \in Nat /\ DOMAIN b = 1..Len(b)
      /\ \A i \in 1..Len(b) : b[i].amount \in Nat /\ b[i].address \in A
  BY <1>1, DequeElements
<1>5. ASSUME NEW i \in DOMAIN b
      PROVE  /\ m[i] \in T
             /\ m[i].event = tc.next_event_index + k + i - 1
             /\ m[i].rune = rune /\ m[i].amount = b[i].amount
             /\ m[i].op = "burn" /\ m[i].address = b[i].address
  <2> DEFINE off == k + i - 1
             am == b[i].amount
             ad == b[i].address
  <2>1. off \in Nat /\ am \in Nat /\ ad \in A
    BY <1>4
  <2>2. m[i] = Entry(tc, off, rune, am, None, ad, None, "burn")
    BY <1>2
  <2>4. tc.next_event_index + off = tc.next_event_index + k + i - 1
    BY <1>1, <1>4
  <2> HIDE DEF off, am, ad
  <2>3. /\ m[i] \in T
        /\ m[i].event = tc.next_event_index + off
        /\ m[i].rune = rune
        /\ m[i].amount = am
        /\ m[i].op = "burn"
        /\ m[i].address = ad
    BY <1>1, <2>1, <2>2 DEF Entry, Logs
  <2> QED
    BY <2>3, <2>4 DEF am, ad
<1>6. m \in Seq(T)
  <2> HIDE DEF T
  <2>1. m \in [1..Len(b) -> T]
    BY <1>3, <1>4, <1>5
  <2> QED
    BY <1>4, <2>1
<1>7. ASSUME NEW E, NEW Q, \A i \in DOMAIN b : m[i] \in E <=> b[i].address \in Q
      PROVE  Paid(m, E) = AmountFrom(b, Q)
  <2>1. \A i \in DOMAIN b : m[i].amount = b[i].amount
    BY <1>5
  <2> QED
    BY <1>1, <1>2, <1>7, <2>1, PaidLike
<1>8. AmountFrom(b, {}) = 0
  <2>1. {i \in DOMAIN b : b[i].address \in {}} = {}
    OBVIOUS
  <2>2. IsFiniteSet({}) /\ Weighs(Amounts(b), {})
    BY FS_EmptySet DEF Weighs
  <2>3. SumOver(Amounts(b), {}) = 0
    BY <2>2, SumTakesOut
  <2> QED
    BY <2>1, <2>3 DEF AmountFrom
<1>9. AmountOf(b) = AmountFrom(b, A)
  BY <1>1, AmountOfIsSum
<1> HIDE DEF T
<1>10. ASSUME NEW r \in RuneKeys
       PROVE  /\ Paid(m, PaidOut(T, r)) = IF r = rune THEN AmountOf(b) ELSE 0
              /\ \A a \in A \ {None} :
                    Paid(m, Charged(T, r, a)) = IF r = rune THEN AmountFrom(b, {a}) ELSE 0
  <2>1. Paid(m, PaidOut(T, r)) = IF r = rune THEN AmountOf(b) ELSE 0
    <3>1. \A i \in DOMAIN b : m[i] \in PaidOut(T, r) <=> r = rune
      BY <1>5 DEF PaidOut
    <3>2. CASE r = rune
      <4>1. \A i \in DOMAIN b : m[i] \in PaidOut(T, r) <=> b[i].address \in A
        BY <1>4, <3>1, <3>2
      <4> QED
        BY <1>7, <1>9, <3>2, <4>1
    <3>3. CASE r # rune
      <4>1. \A i \in DOMAIN b : m[i] \in PaidOut(T, r) <=> b[i].address \in {}
        BY <3>1, <3>3
      <4> QED
        BY <1>7, <1>8, <3>3, <4>1
    <3> QED
      BY <3>2, <3>3
  <2>2. ASSUME NEW a \in A \ {None}
        PROVE  Paid(m, Charged(T, r, a)) = IF r = rune THEN AmountFrom(b, {a}) ELSE 0
    <3>1. \A i \in DOMAIN b : m[i] \in Charged(T, r, a) <=> r = rune /\ b[i].address = a
      BY <1>5 DEF Charged
    <3>2. CASE r = rune
      <4>1. \A i \in DOMAIN b : m[i] \in Charged(T, r, a) <=> b[i].address \in {a}
        BY <3>1, <3>2
      <4> QED
        BY <1>7, <3>2, <4>1
    <3>3. CASE r # rune
      <4>1. \A i \in DOMAIN b : m[i] \in Charged(T, r, a) <=> b[i].address \in {}
        BY <3>1, <3>3
      <4> QED
        BY <1>7, <1>8, <3>3, <4>1
    <3> QED
      BY <3>2, <3>3
  <2> QED
    BY <2>1, <2>2
<1>11. \A i \in DOMAIN m : m[i].op = "burn" /\ m[i].event = tc.next_event_index + k + i - 1
  BY <1>2, <1>5
<1> QED
  BY <1>6, <1>10, <1>11 DEF m, T, b, BurnsAllOf

\* The burns of ApplyCenotaphInputBurn.
AllBurns(tc) ==
    FoldSet(LAMBDA r, acc : acc \o BurnBalances(tc, Len(acc), r), <<>>, HeldRunes(tc))

\* g[s] are the burns of the runes of s, in some order.
BurnsOfEach(tc, S, g) ==
    /\ g[{}] = <<>>
    /\ \A s \in SUBSET S : s # {} =>
          \E x \in s : g[s] = g[s \ {x}] \o BurnBalances(tc, Len(g[s \ {x}]), x)

LEMMA BurnTrace ==
    ASSUME NEW tc, NEW T, T = HeldRunes(tc), IsFiniteSet(T)
    PROVE  \E g : AllBurns(tc) = g[T] /\ BurnsOfEach(tc, T, g)
<1> DEFINE S == T
           base == <<>>
           Op(x, y) == y \o BurnBalances(tc, Len(y), x)
           Ch(s) == CHOOSE i \in s : TRUE
           iter == CHOOSE g : g = [s \in SUBSET S |->
                      IF s = {} THEN base ELSE Op(Ch(s), g[s \ {Ch(s)}])]
<1>1. AllBurns(tc) = iter[S]
  BY Zenon DEF AllBurns, FoldSet, MapThenFoldSet
<1> HIDE DEF base, Op
<1>2. \A s \in SUBSET S : IsFiniteSet(s) /\ Cardinality(s) \in Nat
  <2>1. IsFiniteSet(S)
    OBVIOUS
  <2> QED
    BY <2>1, FS_Subset, FS_CardinalityType
<1>3. ASSUME NEW s \in SUBSET S, s # {}
      PROVE  Ch(s) \in s
  BY <1>3
<1> HIDE DEF Ch, S
<1>4. \A s \in SUBSET S : s # {} => Cardinality(s \ {Ch(s)}) = Cardinality(s) - 1
  BY <1>2, <1>3, FS_RemoveElement
<1>5. \A s \in SUBSET S : Cardinality(s) = 0 <=> s = {}
  BY <1>2, FS_EmptySet
<1> DEFINE Eq(g, s) == g[s] = IF s = {} THEN base ELSE Op(Ch(s), g[s \ {Ch(s)}])
           Solved(k) == \E g : \A s \in SUBSET S : Cardinality(s) <= k => Eq(g, s)
           good == {k \in Nat : Solved(k)}
<1>6. 0 \in good
  <2> DEFINE h == [s \in SUBSET S |-> base]
  <2>1. \A s \in SUBSET S : Cardinality(s) <= 0 => Eq(h, s)
    BY <1>2, <1>5
  <2> HIDE DEF h
  <2> QED
    BY <2>1
<1>7. ASSUME NEW k \in Nat, k \in good
      PROVE  k + 1 \in good
  <2>1. PICK g : \A s \in SUBSET S : Cardinality(s) <= k => Eq(g, s)
    BY <1>7
  <2> DEFINE h == [s \in SUBSET S |-> IF Cardinality(s) <= k THEN g[s]
                                      ELSE Op(Ch(s), g[s \ {Ch(s)}])]
  <2>2. ASSUME NEW s \in SUBSET S, Cardinality(s) <= k + 1
        PROVE  Eq(h, s)
    <3>1. CASE s = {}
      <4>1. Cardinality(s) <= k /\ h[s] = g[s]
        BY <1>5, <3>1
      <4> QED
        BY <2>1, <3>1, <4>1
    <3>2. CASE s # {}
      <4>1. s \ {Ch(s)} \in SUBSET S /\ Cardinality(s \ {Ch(s)}) <= k
        BY <1>2, <1>4, <2>2, <3>2
      <4>2. h[s \ {Ch(s)}] = g[s \ {Ch(s)}]
        BY <4>1
      <4>3. h[s] = Op(Ch(s), g[s \ {Ch(s)}])
        BY <2>1, <3>2
      <4> QED
        BY <3>2, <4>2, <4>3
    <3> QED
      BY <3>1, <3>2
  <2> HIDE DEF h, Eq
  <2>3. Solved(k + 1)
    BY <2>2
  <2> HIDE DEF Solved
  <2> QED
    BY <2>3
<1>8. Cardinality(S) \in good
  <2> HIDE DEF good
  <2>1. Nat \subseteq good
    BY <1>6, <1>7, NatGrows
  <2>2. Cardinality(S) \in Nat
    BY <1>2
  <2> QED
    BY <2>1, <2>2
<1>9. PICK f : \A s \in SUBSET S : Eq(f, s)
  <2>1. PICK f : \A s \in SUBSET S : Cardinality(s) <= Cardinality(S) => Eq(f, s)
    BY <1>8
  <2>2. \A s \in SUBSET S : Cardinality(s) <= Cardinality(S)
    BY <1>2, FS_Subset
  <2> QED
    BY <2>1, <2>2
<1>10. iter = [s \in SUBSET S |->
                      IF s = {} THEN base ELSE Op(Ch(s), iter[s \ {Ch(s)}])]
  <2> DEFINE h == [s \in SUBSET S |-> f[s]]
  <2>1. h = [s \in SUBSET S |->
                      IF s = {} THEN base ELSE Op(Ch(s), h[s \ {Ch(s)}])]
    BY <1>9
  <2> HIDE DEF h
  <2> QED
    BY <2>1
<1> HIDE DEF iter
<1>11. iter[{}] = base
  BY <1>10
<1>12. \A s \in SUBSET S : s # {} => Ch(s) \in s /\ iter[s] = Op(Ch(s), iter[s \ {Ch(s)}])
  BY <1>3, <1>10
<1>13. \A s \in SUBSET S : s # {} => \E x \in s : iter[s] = Op(x, iter[s \ {x}])
  BY <1>12
<1> QED
  BY <1>1, <1>11, <1>13 DEF S, base, Op, BurnsOfEach


\* The burns of one more rune, after those of s.
LEMMA BurnsJoin ==
    ASSUME NEW A, NEW O, NEW tc, Carries(tc, A), NEW s, NEW x, x \in RuneKeys, x \notin s,
           NEW l, BurnsAllOf(A, O, tc, 0, s, l), NEW m, BurnsAllOf(A, O, tc, Len(l), {x}, m)
    PROVE  BurnsAllOf(A, O, tc, 0, s \cup {x}, l \o m)
<1> DEFINE T == Logs(tc.location, A, O)
           c == l \o m
           n == Len(l)
<1>1. /\ l \in Seq(T)
      /\ \A i \in DOMAIN l : l[i].op = "burn" /\ l[i].event = tc.next_event_index + 0 + i - 1
      /\ \A r \in RuneKeys :
            /\ Paid(l, PaidOut(T, r)) = IF r \in s THEN AmountOf(tc.input_runes[r]) ELSE 0
            /\ \A a \in A \ {None} :
                  Paid(l, Charged(T, r, a))
                      = IF r \in s THEN AmountFrom(tc.input_runes[r], {a}) ELSE 0
  BY DEF BurnsAllOf
<1>2. /\ m \in Seq(T)
      /\ \A i \in DOMAIN m : m[i].op = "burn" /\ m[i].event = tc.next_event_index + n + i - 1
      /\ \A r \in RuneKeys :
            /\ Paid(m, PaidOut(T, r)) = IF r \in {x} THEN AmountOf(tc.input_runes[r]) ELSE 0
            /\ \A a \in A \ {None} :
                  Paid(m, Charged(T, r, a))
                      = IF r \in {x} THEN AmountFrom(tc.input_runes[r], {a}) ELSE 0
  BY DEF BurnsAllOf
<1>3. ASSUME NEW r \in RuneKeys
      PROVE  HasAmounts(PaidOut(T, r)) /\ \A a : HasAmounts(Charged(T, r, a))
  BY ChargesHaveAmounts
<1> HIDE DEF T
<1>4. /\ c \in Seq(T) /\ n \in Nat /\ Len(m) \in Nat /\ DOMAIN c = 1..(n + Len(m))
      /\ \A i \in 1..n : i \in DOMAIN l /\ c[i] = l[i]
      /\ \A j \in 1..Len(m) : j \in DOMAIN m /\ c[n + j] = m[j]
  BY <1>1, <1>2
<1>5. ASSUME NEW E, HasAmounts(E)
      PROVE  Paid(c, E) = Paid(l, E) + Paid(m, E)
  BY <1>1, <1>2, <1>5, PaidConcat
<1> HIDE DEF c, n
<1>6. tc.next_event_index \in Nat
  BY DEF Carries
<1>7. ASSUME NEW i \in DOMAIN c
      PROVE  c[i].op = "burn" /\ c[i].event = tc.next_event_index + 0 + i - 1
  <2>1. i \in 1..(n + Len(m))
    BY <1>4
  <2>2. CASE i <= n
    <3>1. i \in 1..n
      BY <1>4, <2>1, <2>2
    <3> QED
      BY <1>1, <1>4, <3>1
  <2>3. CASE ~(i <= n)
    <3> DEFINE j == i - n
    <3>1. j \in 1..Len(m) /\ i = n + j /\ j \in Nat
      BY <1>4, <2>1, <2>3
    <3> HIDE DEF j
    <3>2. c[i] = m[j] /\ j \in DOMAIN m
      BY <1>4, <3>1
    <3>3. m[j].event = tc.next_event_index + n + j - 1 /\ m[j].op = "burn"
      BY <1>2, <3>2
    <3>4. tc.next_event_index + n + j - 1 = tc.next_event_index + 0 + i - 1
      <4> DEFINE e == tc.next_event_index
      <4>1. e \in Nat /\ n \in Nat /\ i = n + j /\ j \in Nat
        BY <1>4, <1>6, <3>1
      <4> HIDE DEF e
      <4>2. e + n + j - 1 = e + 0 + i - 1
        BY <4>1
      <4> QED
        BY <4>2 DEF e
    <3> QED
      BY <3>2, <3>3, <3>4
  <2> QED
    BY <2>2, <2>3
<1>8. ASSUME NEW r \in RuneKeys
      PROVE  /\ Paid(c, PaidOut(T, r))
                    = IF r \in s \cup {x} THEN AmountOf(tc.input_runes[r]) ELSE 0
             /\ \A a \in A \ {None} :
                   Paid(c, Charged(T, r, a))
                       = IF r \in s \cup {x} THEN AmountFrom(tc.input_runes[r], {a}) ELSE 0
  <2> DEFINE b == tc.input_runes[r]
  <2>1. b \in Deques(A)
    BY DEF Carries
  <2>2. AmountOf(b) \in Nat /\ \A a : AmountFrom(b, {a}) \in Nat
    BY <2>1, AmountOfIsSum, AmountFromPart
  <2>3. /\ Paid(l, PaidOut(T, r)) = IF r \in s THEN AmountOf(b) ELSE 0
        /\ Paid(m, PaidOut(T, r)) = IF r = x THEN AmountOf(b) ELSE 0
        /\ Paid(c, PaidOut(T, r)) = Paid(l, PaidOut(T, r)) + Paid(m, PaidOut(T, r))
    BY <1>1, <1>2, <1>3, <1>5
  <2>4. ASSUME NEW a \in A \ {None}
        PROVE  Paid(c, Charged(T, r, a)) = IF r \in s \cup {x} THEN AmountFrom(b, {a}) ELSE 0
    <3> DEFINE f == AmountFrom(b, {a})
               p == Paid(l, Charged(T, r, a))
               q == Paid(m, Charged(T, r, a))
    <3>1. p = IF r \in s THEN f ELSE 0
      BY <1>1
    <3>2. q = IF r = x THEN f ELSE 0
      BY <1>2
    <3>3. Paid(c, Charged(T, r, a)) = p + q
      BY <1>3, <1>5
    <3>4. f \in Nat
      BY <2>2
    <3> HIDE DEF f, p, q
    <3>5. p + q = IF r \in s \cup {x} THEN f ELSE 0
      BY <3>1, <3>2, <3>4
    <3> QED
      BY <3>3, <3>5 DEF f
  <2> HIDE DEF b
  <2>5. Paid(c, PaidOut(T, r)) = IF r \in s \cup {x} THEN AmountOf(b) ELSE 0
    BY <2>2, <2>3
  <2> QED
    BY <2>4, <2>5 DEF b
<1> QED
  BY <1>4, <1>7, <1>8 DEF BurnsAllOf, T, c

LEMMA AllBurnsBurnAll ==
    ASSUME NEW A, NEW O, NEW tc, Carries(tc, A), None \in O
    PROVE  BurnsAllOf(A, O, tc, 0, HeldRunes(tc), AllBurns(tc))
<1> DEFINE S == HeldRunes(tc)
           L == Logs(tc.location, A, O)
<1>1. S \subseteq RuneKeys
  BY DEF HeldRunes
<1>2. IsFiniteSet(S)
  <2>1. IsFiniteSet({SelfId})
    BY FS_Singleton
  <2>2. IsFiniteSet(RuneKeys)
    BY <2>1, RuneIdsAssumption, FS_Union DEF RuneKeys
  <2> QED
    BY <1>1, <2>2, FS_Subset
<1>3. PICK g : AllBurns(tc) = g[S] /\ BurnsOfEach(tc, S, g)
  BY <1>2, BurnTrace
<1> HIDE DEF S
<1> DEFINE good == {s \in SUBSET S : BurnsAllOf(A, O, tc, 0, s, g[s])}
<1>4. {} \in good
  <2>1. g[{}] = <<>>
    BY <1>3 DEF BurnsOfEach
  <2>2. \A r : HasAmounts(PaidOut(L, r)) /\ \A a : HasAmounts(Charged(L, r, a))
    BY ChargesHaveAmounts
  <2>3. \A r : Paid(<<>>, PaidOut(L, r)) = 0 /\ \A a : Paid(<<>>, Charged(L, r, a)) = 0
    BY <2>2, PaidOne
  <2> HIDE DEF L
  <2>4. <<>> \in Seq(L) /\ DOMAIN <<>> = {}
    OBVIOUS
  <2>5. BurnsAllOf(A, O, tc, 0, {}, <<>>)
    BY <2>3, <2>4 DEF BurnsAllOf, L
  <2> QED
    BY <2>1, <2>5
<1>5. ASSUME NEW s \in SUBSET S, s # {}, \A x \in s : s \ {x} \in good
      PROVE  s \in good
  <2>1. PICK x \in s : g[s] = g[s \ {x}] \o BurnBalances(tc, Len(g[s \ {x}]), x)
    BY <1>3, <1>5 DEF BurnsOfEach
  <2> DEFINE t == s \ {x}
             l == g[t]
             k == Len(l)
             m == BurnBalances(tc, k, x)
  <2>2. BurnsAllOf(A, O, tc, 0, t, l) /\ x \notin t /\ x \in RuneKeys /\ t \cup {x} = s
    BY <1>1, <1>5
  <2>3. g[s] = l \o m
    BY <2>1
  <2> HIDE DEF t, l
  <2>4. k \in Nat
    <3> HIDE DEF L
    <3>1. l \in Seq(L)
      BY <2>2 DEF BurnsAllOf, L
    <3> QED
      BY <3>1
  <2> HIDE DEF k
  <2>5. BurnsAllOf(A, O, tc, k, {x}, m)
    BY <2>2, <2>4, BurnLogged
  <2> HIDE DEF m
  <2>6. BurnsAllOf(A, O, tc, 0, t \cup {x}, l \o m)
    BY <2>2, <2>5, BurnsJoin DEF k
  <2> QED
    BY <2>2, <2>3, <2>6
<1> HIDE DEF good
<1>6. SUBSET S \subseteq good
  BY <1>2, <1>4, <1>5, SubsetsGrow
<1> QED
  BY <1>3, <1>6 DEF good, S

\* All the inputs hold is in burn entries of their own.
BurntOut(A, O, tc, burnt) ==
    /\ Settled(A, O, tc, burnt)
    /\ burnt.tc.input_runes = [r \in RuneKeys |-> <<>>]
    /\ \A i \in DOMAIN burnt.entries : burnt.entries[i].op = "burn"
    /\ \A r \in RuneKeys :
          Paid(burnt.entries, PaidOut(Logs(tc.location, A, O), r)) = AmountOf(tc.input_runes[r])

\* A cenotaph burns, in entries of its own, all that its inputs hold.
LEMMA CenotaphSettles ==
    ASSUME NEW A, NEW O, NEW tc, Carries(tc, A), None \in O
    PROVE  BurntOut(A, O, tc, ApplyCenotaphInputBurn(tc))
<1> DEFINE T == Logs(tc.location, A, O)
           m == AllBurns(tc)
           burnt == ApplyCenotaphInputBurn(tc)
           none == [r \in RuneKeys |-> <<>>]
           cleared == [tc EXCEPT !.input_runes = none]
           event == tc.next_event_index + Len(m)
           S == HeldRunes(tc)
<1>1. BurnsAllOf(A, O, tc, 0, S, m)
  BY AllBurnsBurnAll
<1>2. burnt = [tc |-> [ClearInputRunes(tc) EXCEPT !.next_event_index = @ + Len(m)],
               entries |-> m]
  BY Zenon DEF ApplyCenotaphInputBurn, AllBurns
<1>3. ClearInputRunes(tc) = cleared
  BY DEF ClearInputRunes
<1> HIDE DEF m, burnt, none
<1>4. /\ None \in A /\ IsTransaction(tc) /\ tc.next_event_index \in Nat
      /\ tc.input_runes \in [RuneKeys -> Deques(A)]
      /\ \A o \in DOMAIN tc.eligible_outputs : tc.eligible_outputs[o] \in A
  BY DEF Carries
<1>5. /\ IsTransaction(cleared) /\ SameTransaction(tc, cleared)
      /\ cleared.input_runes = none
      /\ cleared.next_event_index = tc.next_event_index
  BY <1>4, InputRunesField
<1> HIDE DEF cleared
<1>6. burnt.tc = [cleared EXCEPT !.next_event_index = event] /\ burnt.entries = m
  BY <1>2, <1>3, <1>5
<1> HIDE DEF event
<1>7. /\ IsTransaction(burnt.tc) /\ SameTransaction(cleared, burnt.tc)
      /\ burnt.tc.input_runes = none
      /\ burnt.tc.next_event_index = event
  BY <1>5, <1>6, EventField
<1>8. SameTransaction(tc, burnt.tc)
  BY <1>5, <1>7 DEF SameTransaction
<1>9. /\ m \in Seq(T)
      /\ \A i \in DOMAIN m : m[i].op = "burn" /\ m[i].event = tc.next_event_index + 0 + i - 1
      /\ \A r \in RuneKeys :
            /\ Paid(m, PaidOut(T, r)) = IF r \in S THEN AmountOf(tc.input_runes[r]) ELSE 0
            /\ \A a \in A \ {None} :
                  Paid(m, Charged(T, r, a))
                      = IF r \in S THEN AmountFrom(tc.input_runes[r], {a}) ELSE 0
  BY <1>1 DEF BurnsAllOf
<1>10. none \in [RuneKeys -> Deques(A)] /\ \A r \in RuneKeys : none[r] = <<>>
  <2>1. <<>> \in Deques(A)
    BY AmountFromEmpty
  <2> QED
    BY <2>1 DEF none
<1> HIDE DEF T
<1>11. Len(m) \in Nat
  BY <1>9
<1>12. Carries(burnt.tc, A)
  <2>1. \A o \in DOMAIN burnt.tc.eligible_outputs : burnt.tc.eligible_outputs[o] \in A
    BY <1>4, <1>8 DEF SameTransaction
  <2>2. burnt.tc.next_event_index \in Nat
    BY <1>4, <1>7, <1>11 DEF event
  <2> QED
    BY <1>4, <1>7, <1>10, <2>1, <2>2 DEF Carries
<1>13. \A i \in DOMAIN m : m[i].event = tc.next_event_index + i - 1
  <2>1. DOMAIN m \subseteq Nat
    BY <1>9
  <2> QED
    BY <1>4, <1>9, <2>1
<1>14. ASSUME NEW r \in RuneKeys
       PROVE  /\ Accounted(A, T, r, tc.input_runes[r], <<>>, m)
              /\ Paid(m, PaidOut(T, r)) = AmountOf(tc.input_runes[r])
  <2> DEFINE old == tc.input_runes[r]
             P   == PaidOut(T, r)
             C(a) == Charged(T, r, a)
  <2>1. old \in Deques(A)
    BY <1>4
  <2>2. /\ AmountOf(old) \in Nat /\ AmountOf(<<>>) = 0
        /\ \A a : AmountFrom(old, {a}) \in Nat /\ AmountFrom(<<>>, {a}) = 0
    BY <2>1, AmountOfIsSum, AmountFromEmpty, AmountFromPart
  <2>3. r \notin S => old = <<>>
    BY DEF HeldRunes
  <2>4. /\ Paid(m, P) = IF r \in S THEN AmountOf(old) ELSE 0
        /\ \A a \in A \ {None} : Paid(m, C(a)) = IF r \in S THEN AmountFrom(old, {a}) ELSE 0
    BY <1>9
  <2> HIDE DEF old, P, C, S
  <2>5. Paid(m, P) = AmountOf(old)
    BY <2>2, <2>3, <2>4
  <2>6. \A a \in A \ {None} : Paid(m, C(a)) = AmountFrom(old, {a})
    BY <2>2, <2>3, <2>4
  <2>7. \A a \in A \ {None} : Paid(m, C(a)) + AmountFrom(<<>>, {a}) = AmountFrom(old, {a})
    <3> TAKE a \in A \ {None}
    <3> DEFINE f == AmountFrom(old, {a})
    <3>1. Paid(m, C(a)) = f /\ f \in Nat /\ AmountFrom(<<>>, {a}) = 0
      BY <2>2, <2>6
    <3> HIDE DEF f
    <3>2. Paid(m, C(a)) + AmountFrom(<<>>, {a}) = f
      BY <3>1
    <3> QED
      BY <3>2 DEF f
  <2>8. Paid(m, P) \in Nat /\ Paid(m, P) + AmountOf(<<>>) <= AmountOf(old)
    BY <2>2, <2>5
  <2>9. Orderly(<<>>)
    BY DEF Orderly
  <2>10. Accounted(A, T, r, old, <<>>, m)
    BY <2>7, <2>8, <2>9, Zenon DEF Accounted, P, C
  <2> QED
    BY <2>5, <2>10 DEF old, P
<1>15. Settled(A, O, tc, burnt)
  <2>1. burnt.tc.next_event_index = tc.next_event_index + Len(burnt.entries)
    BY <1>6, <1>7 DEF event
  <2>2. \A r \in RuneKeys :
            Accounted(A, T, r, tc.input_runes[r], burnt.tc.input_runes[r], burnt.entries)
    BY <1>6, <1>7, <1>10, <1>14
  <2>3. burnt.entries \in Seq(T)
        /\ \A i \in DOMAIN burnt.entries : burnt.entries[i].event = tc.next_event_index + i - 1
    BY <1>6, <1>9, <1>13
  <2>4. Shifts(burnt.entries)
    BY <1>6, <1>9 DEF Shifts
  <2> QED
    BY <1>8, <1>12, <2>1, <2>2, <2>3, <2>4 DEF Settled, T
<1>16. BurntOut(A, O, tc, burnt)
  BY <1>6, <1>7, <1>9, <1>14, <1>15 DEF BurntOut, none, T
<1> QED
  BY <1>16 DEF burnt


-----------------------------------------------------------------------------
(* Etchings and mints *)

\* One entry of an operation that moves nothing: an etching, which has no amount, a
\* mint or the burn of a cenotaph's mint.
Entered(A, O, tc, rune, amount, op, res) ==
    LET T == Logs(tc.location, A, O)
    IN  /\ Carries(res.tc, A) /\ SameTransaction(tc, res.tc)
        /\ res.tc.input_runes = tc.input_runes
        /\ res.tc.next_event_index = tc.next_event_index + 1
        /\ res.entries \in Seq(T) /\ Len(res.entries) = 1
        /\ res.entries[1].op = op /\ res.entries[1].event = tc.next_event_index
        /\ \A r \in RuneKeys :
              /\ Paid(res.entries, PaidOut(T, r))
                     = IF op = "burn" /\ r = rune THEN amount ELSE 0
              /\ \A a \in A \ {None} : Paid(res.entries, Charged(T, r, a)) = 0

LEMMA OneEntryEntered ==
    ASSUME NEW A, NEW O, NEW tc, Carries(tc, A), None \in O, NEW rune \in RuneKeys,
           NEW amount, NEW op,
           \/ op = "etching" /\ amount = None
           \/ op \in {"mint", "burn"} /\ amount \in Nat
    PROVE  Entered(A, O, tc, rune, amount, op, OneEntry(tc, rune, amount, op))
<1> DEFINE T   == Logs(tc.location, A, O)
           e   == Entry(tc, 0, rune, amount, None, None, None, op)
           res == OneEntry(tc, rune, amount, op)
           event == tc.next_event_index + 1
<1>1. /\ res.tc = [tc EXCEPT !.next_event_index = event]
      /\ res.entries = <<e>>
  BY DEF OneEntry
<1>2. /\ None \in A /\ IsTransaction(tc) /\ tc.next_event_index \in Nat
      /\ tc.input_runes \in [RuneKeys -> Deques(A)]
      /\ \A o \in DOMAIN tc.eligible_outputs : tc.eligible_outputs[o] \in A
  BY DEF Carries
<1>3. /\ e \in T /\ e.event = tc.next_event_index /\ e.rune = rune /\ e.amount = amount
      /\ e.op = op /\ e.address = None
  BY <1>2 DEF Entry, Logs
<1> HIDE DEF e, T, res, event
<1>4. /\ IsTransaction(res.tc) /\ SameTransaction(tc, res.tc)
      /\ res.tc.input_runes = tc.input_runes
      /\ res.tc.next_event_index = event
  BY <1>1, <1>2, EventField
<1>5. Carries(res.tc, A)
  <2>1. event \in Nat
    BY <1>2 DEF event
  <2>2. \A o \in DOMAIN res.tc.eligible_outputs : res.tc.eligible_outputs[o] \in A
    BY <1>2, <1>4 DEF SameTransaction
  <2> QED
    BY <1>2, <1>4, <2>1, <2>2 DEF Carries
<1>6. res.entries \in Seq(T) /\ Len(res.entries) = 1 /\ res.entries[1] = e
  BY <1>1, <1>3
<1>7. ASSUME NEW r \in RuneKeys
      PROVE  /\ Paid(res.entries, PaidOut(T, r)) = IF op = "burn" /\ r = rune THEN amount ELSE 0
             /\ \A a \in A \ {None} : Paid(res.entries, Charged(T, r, a)) = 0
  <2>1. HasAmounts(PaidOut(T, r)) /\ \A a : HasAmounts(Charged(T, r, a))
    BY ChargesHaveAmounts DEF T
  <2>2. Paid(<<e>>, PaidOut(T, r)) = IF e \in PaidOut(T, r) THEN e.amount ELSE 0
    BY <2>1, PaidOne
  <2>3. \A a : Paid(<<e>>, Charged(T, r, a)) = IF e \in Charged(T, r, a) THEN e.amount ELSE 0
    BY <2>1, PaidOne
  <2>4. e \in PaidOut(T, r) <=> op = "burn" /\ r = rune
    BY <1>3 DEF PaidOut
  <2>5. \A a \in A \ {None} : e \notin Charged(T, r, a)
    BY <1>3 DEF Charged
  <2> QED
    BY <1>1, <1>3, <2>2, <2>3, <2>4, <2>5
<1> QED
  BY <1>3, <1>4, <1>5, <1>6, <1>7 DEF Entered, T, res, event

\* What is minted or premined joins the deque of its rune, and belongs to no sender.
Added(A, tc, rune, amount, new) ==
    /\ Carries(new, A) /\ SameTransaction(tc, new)
    /\ new.next_event_index = tc.next_event_index
    /\ \A r \in RuneKeys :
          /\ AmountOf(new.input_runes[r])
                 = AmountOf(tc.input_runes[r]) + IF r = rune THEN amount ELSE 0
          /\ \A a \in A \ {None} :
                AmountFrom(new.input_runes[r], {a}) = AmountFrom(tc.input_runes[r], {a})
          /\ Orderly(tc.input_runes[r]) => Orderly(new.input_runes[r])

LEMMA AddInputRunesAdds ==
    ASSUME NEW A, NEW tc, Carries(tc, A), NEW rune \in RuneKeys, NEW amount \in Nat
    PROVE  Added(A, tc, rune, amount, AddInputRunes(tc, rune, amount))
<1> DEFINE bal   == [address |-> None, amount |-> amount]
           old   == tc.input_runes[rune]
           more  == Append(old, bal)
           runes == [tc.input_runes EXCEPT ![rune] = more]
           new   == AddInputRunes(tc, rune, amount)
<1>1. /\ None \in A /\ IsTransaction(tc) /\ tc.next_event_index \in Nat
      /\ tc.input_runes \in [RuneKeys -> Deques(A)]
      /\ \A o \in DOMAIN tc.eligible_outputs : tc.eligible_outputs[o] \in A
  BY DEF Carries
<1>2. new = [tc EXCEPT !.input_runes = runes]
  BY <1>1 DEF AddInputRunes, IsTransaction
<1>3. bal \in [address : A, amount : Nat] /\ bal.address = None /\ bal.amount = amount
  BY <1>1
<1>4. old \in Deques(A)
  BY <1>1
<1> HIDE DEF bal, old, new
<1>5. ASSUME NEW Q
      PROVE  /\ more \in Deques(A)
             /\ AmountFrom(old, Q) \in Nat
             /\ AmountFrom(more, Q) = AmountFrom(old, Q) + (IF None \in Q THEN amount ELSE 0)
  BY <1>3, <1>4, AmountFromAppend
<1>6. Orderly(old) => Orderly(more)
  BY <1>3, <1>4, OrderlyAppend
<1> HIDE DEF more
<1>7. /\ runes \in [RuneKeys -> Deques(A)] /\ runes[rune] = more
      /\ \A r \in RuneKeys \ {rune} : runes[r] = tc.input_runes[r]
  BY <1>1, <1>5
<1> HIDE DEF runes
<1>8. /\ IsTransaction(new) /\ SameTransaction(tc, new) /\ new.input_runes = runes
      /\ new.next_event_index = tc.next_event_index
  BY <1>1, <1>2, InputRunesField
<1>9. Carries(new, A)
  <2>1. \A o \in DOMAIN new.eligible_outputs : new.eligible_outputs[o] \in A
    BY <1>1, <1>8 DEF SameTransaction
  <2> QED
    BY <1>1, <1>7, <1>8, <2>1 DEF Carries
<1>10. AmountOf(more) = AmountOf(old) + amount
  <2>1. AmountOf(old) = AmountFrom(old, A) /\ AmountOf(more) = AmountFrom(more, A)
    BY <1>4, <1>5, AmountOfIsSum
  <2> QED
    BY <1>1, <1>5, <2>1
<1>11. ASSUME NEW r \in RuneKeys
       PROVE  /\ AmountOf(runes[r]) = AmountOf(tc.input_runes[r]) + IF r = rune THEN amount ELSE 0
              /\ \A a \in A \ {None} : AmountFrom(runes[r], {a}) = AmountFrom(tc.input_runes[r], {a})
              /\ Orderly(tc.input_runes[r]) => Orderly(runes[r])
  <2>1. CASE r = rune
    <3>1. runes[r] = more /\ tc.input_runes[r] = old
      BY <1>7, <2>1 DEF old
    <3>2. \A a \in A \ {None} : AmountFrom(more, {a}) = AmountFrom(old, {a})
      <4> TAKE a \in A \ {None}
      <4> DEFINE Q == {a}
      <4>1. None \notin Q
        OBVIOUS
      <4> HIDE DEF Q
      <4>2. AmountFrom(more, Q) = AmountFrom(old, Q)
        BY <1>5, <4>1
      <4> QED
        BY <4>2 DEF Q
    <3> QED
      BY <1>6, <1>10, <2>1, <3>1, <3>2
  <2>2. CASE r # rune
    <3>1. runes[r] = tc.input_runes[r] /\ tc.input_runes[r] \in Deques(A)
      BY <1>1, <1>7, <2>2
    <3>2. AmountOf(tc.input_runes[r]) \in Nat
      BY <3>1, AmountOfIsSum
    <3> QED
      BY <2>2, <3>1, <3>2
  <2> QED
    BY <2>1, <2>2
<1> QED
  BY <1>8, <1>9, <1>11 DEF Added, new

-----------------------------------------------------------------------------
(* Received and burned *)

ReceivedIn(l, r) == AmountsAt(l, {i \in DOMAIN l : l[i].op = "receive" /\ l[i].rune = r})
BurnedIn(l, r) == AmountsAt(l, {i \in DOMAIN l : l[i].op = "burn" /\ l[i].rune = r})

\* What entries pay is what their outputs receive and what they burn.
LEMMA PaidSplits ==
    ASSUME NEW loc, NEW A, NEW O, NEW l \in Seq(Logs(loc, A, O)), NEW r
    PROVE  /\ ReceivedIn(l, r) \in Nat /\ BurnedIn(l, r) \in Nat
           /\ ReceivedIn(l, r) + BurnedIn(l, r) = Paid(l, PaidOut(Logs(loc, A, O), r))
           /\ (\A i \in DOMAIN l : l[i].op # "receive") => ReceivedIn(l, r) = 0
<1> DEFINE T == Logs(loc, A, O)
           R == {i \in DOMAIN l : l[i].op = "receive" /\ l[i].rune = r}
           B == {i \in DOMAIN l : l[i].op = "burn" /\ l[i].rune = r}
           E == {i \in DOMAIN l : l[i] \in PaidOut(T, r)}
           w == Amounts(l)
<1>1. ReceivedIn(l, r) = AmountsAt(l, R) /\ BurnedIn(l, r) = AmountsAt(l, B)
  BY Zenon DEF ReceivedIn, BurnedIn
<1>2. \A i \in DOMAIN l : l[i] \in T
  <2> HIDE DEF T
  <2>1. l \in Seq(T)
    BY DEF T
  <2> QED
    BY <2>1
<1>3. \A i \in DOMAIN l : l[i].op # "etching" => l[i].amount \in Nat
  BY <1>2 DEF Logs
<1>4. E = R \cup B
  BY <1>2 DEF PaidOut
<1>5. IsFiniteSet(DOMAIN l)
  <2> HIDE DEF T
  <2>1. DOMAIN l = 1..Len(l) /\ Len(l) \in Nat
    OBVIOUS
  <2> QED
    BY <2>1, FS_Interval
<1>6. IsFiniteSet(R) /\ IsFiniteSet(B)
  BY <1>5, FS_Subset
<1>7. /\ \A i \in R : l[i].amount \in Nat
      /\ \A i \in B : l[i].amount \in Nat
      /\ R \subseteq DOMAIN l /\ B \subseteq DOMAIN l /\ R \cap B = {}
  BY <1>3
<1>8. (\A i \in DOMAIN l : l[i].op # "receive") => R = {}
  OBVIOUS
<1> HIDE DEF R, B, E, w, T
<1>9. /\ AmountsAt(l, R) = SumOver(w, R) /\ Weighs(w, R)
      /\ AmountsAt(l, B) = SumOver(w, B) /\ Weighs(w, B)
  BY <1>6, <1>7, AmountsAtIsSum DEF w
<1>10. SumOver(w, R \cup B) = SumOver(w, R) + SumOver(w, B)
  BY <1>6, <1>7, <1>9, SumUnion
<1>11. SumOver(w, R) \in Nat /\ SumOver(w, B) \in Nat /\ SumOver(w, {}) = 0
  BY <1>6, <1>9, SumTakesOut
<1>12. Paid(l, PaidOut(T, r)) = SumOver(w, E)
  BY DEF Paid, w, E
<1> QED
  BY <1>1, <1>4, <1>8, <1>9, <1>10, <1>11, <1>12 DEF T

-----------------------------------------------------------------------------
(* Deques in another order *)

\* A deque taken in the order p of its places.
Rearranged(l, p) == [i \in DOMAIN l |-> l[p[i]]]

Reached(p, S) == {p[x] : x \in S}

\* Weights taken in another order sum up to the same.
LEMMA SumRearranged ==
    ASSUME NEW S, IsFiniteSet(S), NEW p \in Injection(S, S), NEW w, Weighs(w, S),
           NEW v, \A x \in S : v[x] = w[p[x]]
    PROVE  Weighs(v, S) /\ SumOver(v, S) = SumOver(w, Reached(p, S))
<1> DEFINE Img(s) == Reached(p, s)
<1>1. /\ \A x \in S : p[x] \in S
      /\ \A x, y \in S : p[x] = p[y] => x = y
  BY DEF Injection, IsInjective
<1>2. Weighs(v, S)
  BY <1>1 DEF Weighs
<1>3. \A s \in SUBSET S : /\ IsFiniteSet(s) /\ Weighs(v, s)
                          /\ IsFiniteSet(Img(s)) /\ Weighs(w, Img(s))
  <2> TAKE s \in SUBSET S
  <2>1. Img(s) \subseteq S
    BY <1>1 DEF Reached
  <2> HIDE DEF Img
  <2> QED
    BY <1>2, <2>1, FS_Subset DEF Weighs
<1> DEFINE Good == {s \in SUBSET S : SumOver(v, s) = SumOver(w, Img(s))}
<1>4. {} \in Good
  <2>1. Img({}) = {}
    BY DEF Reached
  <2> HIDE DEF Img
  <2>2. IsFiniteSet({}) /\ Weighs(v, {}) /\ Weighs(w, {})
    BY FS_EmptySet DEF Weighs
  <2>3. SumOver(v, {}) = 0 /\ SumOver(w, {}) = 0
    BY <2>2, SumTakesOut
  <2> QED
    BY <2>1, <2>3
<1>5. ASSUME NEW s \in SUBSET S, s # {}, \A x \in s : s \ {x} \in Good
      PROVE  s \in Good
  <2>1. PICK x \in s : TRUE
    BY <1>5
  <2>2. p[x] \in Img(s) /\ Img(s) \ {p[x]} = Img(s \ {x})
    BY <1>1, <2>1 DEF Reached
  <2> HIDE DEF Img
  <2>3. SumOver(v, s) = v[x] + SumOver(v, s \ {x})
    BY <1>3, SumTakesOut
  <2>4. SumOver(w, Img(s)) = w[p[x]] + SumOver(w, Img(s) \ {p[x]})
    BY <1>3, <2>2, SumTakesOut
  <2>5. SumOver(v, s \ {x}) = SumOver(w, Img(s \ {x}))
    BY <1>5
  <2> QED
    BY <2>2, <2>3, <2>4, <2>5
<1> HIDE DEF Good
<1>6. SUBSET S \subseteq Good
  BY <1>4, <1>5, SubsetsGrow
<1>7. SumOver(v, S) = SumOver(w, Img(S))
  BY <1>6 DEF Good
<1> QED
  BY <1>2, <1>7

\* Whatever order the balances of a deque are taken in, they hold the same.
LEMMA DequeRearranged ==
    ASSUME NEW A, NEW l \in Deques(A), NEW p \in [DOMAIN l -> DOMAIN l],
           \A i \in DOMAIN l : \E j \in DOMAIN l : p[j] = i
    PROVE  /\ Rearranged(l, p) \in Deques(A)
           /\ AmountOf(Rearranged(l, p)) = AmountOf(l)
<1> DEFINE S == DOMAIN l
           m == Rearranged(l, p)
           w == Amounts(l)
           v == Amounts(m)
<1>1. /\ Len(l) \in Nat /\ S = 1..Len(l)
      /\ AmountOf(l) = SumOver(w, S) /\ IsFiniteSet(S) /\ Weighs(w, S)
  BY DequeElements, AmountOfIsSum
<1>2. m \in Deques(A) /\ DOMAIN m = S
  <2> DEFINE B == [address : A, amount : Nat]
  <2>1. l \in Seq(B)
    BY DEF Deques
  <2> HIDE DEF B
  <2>2. \A i \in 1..Len(l) : m[i] \in B
    BY <1>1, <2>1 DEF Rearranged
  <2>3. m = [i \in 1..Len(l) |-> m[i]]
    BY <1>1 DEF Rearranged
  <2>4. m \in Seq(B)
    BY <1>1, <2>2, <2>3
  <2>5. DOMAIN m = S
    BY DEF Rearranged
  <2> QED
    BY <2>4, <2>5 DEF Deques, B
<1>3. p \in Injection(S, S) /\ Reached(p, S) = S
  <2>1. p \in Surjection(S, S)
    BY DEF Surjection
  <2> HIDE DEF S
  <2>2. p \in Injection(S, S)
    BY <1>1, <2>1, FS_SurjSameCardinalityImpliesInj
  <2>3. Reached(p, S) = S
    BY <2>1 DEF Surjection, Reached
  <2> QED
    BY <2>2, <2>3
<1>4. \A x \in S : v[x] = w[p[x]]
  BY <1>2 DEF Amounts, Rearranged
<1> HIDE DEF S, m, w, v
<1>5. SumOver(v, S) = SumOver(w, S)
  <2>1. SumOver(v, S) = SumOver(w, Reached(p, S))
    BY <1>1, <1>3, <1>4, SumRearranged, ZenonT(30)
  <2> QED
    BY <1>3, <2>1
<1>6. AmountOf(m) = SumOver(v, S)
  BY <1>2, AmountOfIsSum DEF v
<1> QED
  BY <1>1, <1>2, <1>5, <1>6 DEF m

-----------------------------------------------------------------------------
(* The place of the entries, whatever they hold *)

\* These facts need no type: a balance, an output or an amount may be anything.
IsList(s) == \E S : s \in Seq(S)

LEMMA ListLength ==
    ASSUME NEW s, IsList(s)
    PROVE  Len(s) \in Nat /\ DOMAIN s = 1..Len(s)
  BY DEF IsList

LEMMA ListConcat ==
    ASSUME NEW s, IsList(s), NEW t, IsList(t)
    PROVE  /\ IsList(s \o t)
           /\ ToSet(s \o t) = ToSet(s) \cup ToSet(t)
<1>1. PICK S : s \in Seq(S)
  BY DEF IsList
<1>2. PICK T : t \in Seq(T)
  BY DEF IsList
<1> DEFINE U == S \cup T
<1>3. s \in Seq(U) /\ t \in Seq(U)
  BY <1>1, <1>2
<1> HIDE DEF U
<1>4. /\ s \o t \in Seq(U)
      /\ Len(s \o t) = Len(s) + Len(t)
      /\ \A i \in 1..Len(s) : (s \o t)[i] = s[i]
      /\ \A i \in 1..Len(t) : (s \o t)[Len(s) + i] = t[i]
  BY <1>3
<1>5. /\ DOMAIN s = 1..Len(s) /\ DOMAIN t = 1..Len(t)
      /\ Len(s) \in Nat /\ Len(t) \in Nat
      /\ DOMAIN (s \o t) = 1..(Len(s) + Len(t))
  BY <1>3, <1>4
<1> DEFINE u == s \o t
<1>6. /\ DOMAIN u = 1..(Len(s) + Len(t))
      /\ \A i \in 1..Len(s) : u[i] = s[i]
      /\ \A i \in 1..Len(t) : u[Len(s) + i] = t[i]
  BY <1>4, <1>5
<1> HIDE DEF u
<1>7. ASSUME NEW i \in DOMAIN u
      PROVE  u[i] \in ToSet(s) \cup ToSet(t)
  <2>1. CASE i <= Len(s)
    BY <1>5, <1>6, <2>1 DEF ToSet
  <2>2. CASE ~(i <= Len(s))
    <3>1. i - Len(s) \in 1..Len(t) /\ Len(s) + (i - Len(s)) = i
      BY <1>5, <1>6, <2>2
    <3>2. u[i] = t[i - Len(s)]
      BY <1>6, <3>1
    <3> QED
      BY <1>5, <3>1, <3>2 DEF ToSet
  <2> QED
    BY <2>1, <2>2
<1>8. ASSUME NEW i \in DOMAIN s
      PROVE  s[i] \in ToSet(u)
  <2>1. i \in DOMAIN u /\ u[i] = s[i]
    BY <1>5, <1>6
  <2> QED
    BY <2>1 DEF ToSet
<1>9. ASSUME NEW i \in DOMAIN t
      PROVE  t[i] \in ToSet(u)
  <2>1. Len(s) + i \in DOMAIN u /\ u[Len(s) + i] = t[i]
    BY <1>5, <1>6
  <2> QED
    BY <2>1 DEF ToSet
<1>10. ToSet(u) = ToSet(s) \cup ToSet(t)
  BY <1>7, <1>8, <1>9 DEF ToSet
<1> QED
  BY <1>4, <1>10 DEF u, IsList

LEMMA ListAppend ==
    ASSUME NEW s, IsList(s), NEW e
    PROVE  IsList(Append(s, e))
<1>1. PICK S : s \in Seq(S)
  BY DEF IsList
<1>2. Append(s, e) \in Seq(S \cup {e})
  BY <1>1
<1> QED
  BY <1>2 DEF IsList

\* A function on the first n naturals is a list.
LEMMA ListOf ==
    ASSUME NEW n \in Nat, NEW f, f = [i \in 1..n |-> f[i]]
    PROVE  IsList(f)
<1>1. f \in Seq(ToSet(f))
  <2>1. DOMAIN f = 1..n
    OBVIOUS
  <2>2. \A i \in 1..n : f[i] \in ToSet(f)
    BY <2>1 DEF ToSet
  <2> DEFINE T == ToSet(f)
  <2> HIDE DEF T
  <2>3. f \in [1..n -> T]
    BY <2>2 DEF T
  <2>4. f \in Seq(T)
    BY <2>3
  <2> QED
    BY <2>4 DEF T
<1> QED
  BY <1>1 DEF IsList

LEMMA ListsOfNone == IsList(<<>>) /\ ToSet(<<>>) = {}
  BY DEF IsList, ToSet

LEMMA ListOfOne ==
    ASSUME NEW e
    PROVE  IsList(<<e>>) /\ ToSet(<<e>>) = {e}
<1>1. <<e>> \in Seq({e}) /\ DOMAIN <<e>> = 1..1 /\ <<e>>[1] = e
  OBVIOUS
<1>2. ToSet(<<e>>) = {e}
  BY <1>1 DEF ToSet
<1> QED
  BY <1>1, <1>2 DEF IsList

\* How far TakeBalance has come, its balances untyped.
IsRound(acc) ==
    /\ acc = [sent |-> acc.sent, senders |-> acc.senders, left |-> acc.left,
              done |-> acc.done]
    /\ IsList(acc.senders)
    /\ IsList(acc.left)

LEMMA RoundOf ==
    ASSUME NEW sent, NEW senders, IsList(senders), NEW left, IsList(left), NEW done
    PROVE  IsRound([sent |-> sent, senders |-> senders, left |-> left, done |-> done])
  BY Zenon DEF IsRound

LEMMA RoundKeeps ==
    ASSUME NEW acc, NEW l, IsList(l), IsRound(acc)
    PROVE  IsRound([acc EXCEPT !.left = l])
<1> DEFINE new == [acc EXCEPT !.left = l]
           done == acc.done
<1>1. acc = [sent |-> acc.sent, senders |-> acc.senders, left |-> acc.left, done |-> done]
  BY DEF IsRound
<1> HIDE DEF done
<1>2. new = [sent |-> acc.sent, senders |-> acc.senders, left |-> l, done |-> done]
  BY <1>1
<1>3. IsList(acc.senders)
  BY DEF IsRound
<1> HIDE DEF new
<1>4. IsRound([sent |-> acc.sent, senders |-> acc.senders, left |-> l, done |-> done])
  BY <1>3, RoundOf
<1>5. IsRound(new)
  BY <1>2, <1>4
<1> QED
  BY <1>5 DEF new

LEMMA PopListed ==
    ASSUME NEW acc, IsRound(acc), NEW bal, NEW amount
    PROVE  IsRound(PopBalance(amount, acc, bal))
<1> DEFINE taken == IF amount = 0 THEN bal.amount ELSE AtMost(bal.amount, amount - acc.sent)
           rest  == bal.amount - taken
           paid  == [bal EXCEPT !.amount = taken]
           kept  == [bal EXCEPT !.amount = rest]
           senders == IF bal.address = None THEN acc.senders ELSE Append(acc.senders, paid)
           left == IF rest > 0 THEN Append(acc.left, kept) ELSE acc.left
           done == rest > 0 \/ acc.sent + taken = amount
           new == PopBalance(amount, acc, bal)
           sent == acc.sent + taken
<1>1. IsList(acc.senders) /\ IsList(acc.left)
  BY DEF IsRound
<1>2. IsList(Append(acc.left, bal)) /\ IsList(Append(acc.left, kept))
      /\ IsList(Append(acc.senders, paid))
  BY <1>1, ListAppend, Zenon
<1>3. IsList(senders) /\ IsList(left)
  BY <1>1, <1>2, Zenon
<1>4. new = IF acc.done THEN [acc EXCEPT !.left = Append(@, bal)]
            ELSE [sent |-> sent, senders |-> senders, left |-> left, done |-> done]
  BY Zenon DEF PopBalance
<1> HIDE DEF new, senders, left, sent, paid, kept, rest, taken
<1>5. ASSUME acc.done
      PROVE  IsRound(new)
  <2> DEFINE l == Append(acc.left, bal)
  <2>1. IsRound([acc EXCEPT !.left = l])
    <3>1. IsList(l)
      BY <1>2
    <3> HIDE DEF l
    <3> QED
      BY <3>1, RoundKeeps
  <2>2. new = [acc EXCEPT !.left = l]
    BY <1>4, <1>5, Zenon
  <2> HIDE DEF l
  <2> QED
    BY <2>1, <2>2, Zenon
<1>6. ASSUME ~acc.done
      PROVE  IsRound(new)
  <2> HIDE DEF done
  <2>1. new = [sent |-> sent, senders |-> senders, left |-> left, done |-> done]
    BY <1>4, <1>6, Zenon
  <2>2. IsRound([sent |-> sent, senders |-> senders, left |-> left, done |-> done])
    BY <1>3, RoundOf
  <2> QED
    BY <2>1, <2>2, Zenon
<1>7. IsRound(new)
  BY <1>5, <1>6
<1> QED
  BY <1>7 DEF new

\* TakeBalance returns lists, whatever the balances are.
LEMMA TakeListed ==
    ASSUME NEW b, IsList(b), NEW amount
    PROVE  IsRound(TakeBalance(b, amount))
<1> DEFINE n == Len(b)
<1>1. n \in Nat /\ DOMAIN b = 1..n
  BY ListLength
<1> HIDE DEF n
<1>2. PICK h : Takes(b, amount, n, h) /\ TakeBalance(b, amount) = h[n]
  BY <1>1, TakeTrace
<1> DEFINE good == {k \in Nat : k <= n => IsRound(h[k])}
<1>3. 0 \in good
  <2>1. h[0] = NothingTaken
    BY <1>2 DEF Takes
  <2>2. IsList(<<>>)
    BY ListsOfNone
  <2>3. IsRound(NothingTaken)
    BY <2>2, Zenon DEF NothingTaken, IsRound
  <2> QED
    BY <2>1, <2>3
<1>4. ASSUME NEW k \in Nat, k \in good
      PROVE  k + 1 \in good
  <2>1. CASE k + 1 <= n
    <3>1. IsRound(h[k]) /\ k + 1 \in 1..n /\ (k + 1) - 1 = k
      BY <1>1, <1>4, <2>1
    <3>2. h[k + 1] = PopBalance(amount, h[k], b[k + 1])
      BY <1>2, <3>1 DEF Takes
    <3> HIDE DEF good
    <3>3. IsRound(h[k + 1])
      BY <3>1, <3>2, PopListed
    <3> QED
      BY <3>3 DEF good
  <2>2. CASE ~(k + 1 <= n)
    BY <2>2
  <2> QED
    BY <2>1, <2>2
<1>5. Nat \subseteq good
  <2> HIDE DEF good
  <2> QED
    BY <1>3, <1>4, NatGrows
<1>6. n \in good
  BY <1>1, <1>5
<1>7. n <= n
  BY <1>1
<1> QED
  BY <1>2, <1>6, <1>7

\* The entries l are of the transaction at loc.
LogOf(loc, l) ==
    /\ IsList(l)
    /\ \A e \in ToSet(l) : e.height = loc.height /\ e.tx = loc.tx

\* A transaction cache whose input runes are lists.
Holds(tc) ==
    /\ IsTransaction(tc)
    /\ tc.input_runes = [r \in RuneKeys |-> tc.input_runes[r]]
    /\ \A r \in RuneKeys : IsList(tc.input_runes[r])

\* An operation on tc gave res, with entries of its transaction.
LoggedBy(tc, res) ==
    /\ res = [tc |-> res.tc, entries |-> res.entries]
    /\ Holds(res.tc)
    /\ SameTransaction(tc, res.tc)
    /\ LogOf(tc.location, res.entries)

LEMMA EntryPlace ==
    ASSUME NEW tc, NEW offset, NEW rune, NEW amount, NEW output, NEW address, NEW receiver,
           NEW op
    PROVE  LET e == Entry(tc, offset, rune, amount, output, address, receiver, op)
           IN  e.height = tc.location.height /\ e.tx = tc.location.tx /\ e.op = op
  BY Zenon DEF Entry

LEMMA JoinedLogs ==
    ASSUME NEW loc, NEW l, LogOf(loc, l), NEW m, LogOf(loc, m)
    PROVE  LogOf(loc, l \o m)
<1>1. IsList(l) /\ IsList(m)
  BY DEF LogOf
<1>2. IsList(l \o m) /\ ToSet(l \o m) = ToSet(l) \cup ToSet(m)
  BY <1>1, ListConcat
<1> QED
  BY <1>2 DEF LogOf

\* One move of a rune writes entries of its transaction.
LEMMA MoveListed ==
    ASSUME NEW tc, NEW res, LoggedBy(tc, res), NEW rune \in RuneKeys, NEW output, NEW amount
    PROVE  LoggedBy(tc, MoveRuneBalance(res, output, rune, amount))
<1> DEFINE old == res.tc
           taken == TakeBalance(old.input_runes[rune], amount)
           receives == Receives(old, output, rune, taken.sent)
           k == Len(receives)
           sends == Sends(old, k, output, rune, taken.senders)
           new == MoveRuneBalance(res, output, rune, amount)
           loc == tc.location
<1>1. Holds(old) /\ SameTransaction(tc, old) /\ LogOf(loc, res.entries)
  BY DEF LoggedBy
<1>12. new = [tc |-> new.tc, entries |-> new.entries]
  BY Zenon DEF MoveRuneBalance
<1>2. MoveResult(res, output, rune, amount, new)
  <2>1. IsTransaction(res.tc)
    BY <1>1 DEF Holds
  <2> HIDE DEF new
  <2> QED
    BY <2>1, MovedTransaction DEF new
<1>3. /\ IsTransaction(new.tc) /\ SameTransaction(old, new.tc)
      /\ new.tc.input_runes = [old.input_runes EXCEPT ![rune] = taken.left]
      /\ new.entries = (res.entries \o receives) \o sends
  BY <1>2, Zenon DEF MoveResult
<1>4. IsList(old.input_runes[rune])
  BY <1>1 DEF Holds
<1>5. IsList(taken.senders) /\ IsList(taken.left)
  BY <1>4, TakeListed, Zenon DEF IsRound
<1>6. old.location = loc
  BY <1>1 DEF SameTransaction
<1> HIDE DEF new, taken, old, loc
<1>7. LogOf(loc, receives)
  <2> DEFINE e == Entry(old, 0, rune, taken.sent, output, ReceiverOf(old, output), None,
                        "receive")
  <2>1. e.height = loc.height /\ e.tx = loc.tx
    BY <1>6, EntryPlace
  <2>2. receives = <<e>> \/ receives = <<>>
    BY DEF Receives
  <2> HIDE DEF e, receives
  <2>3. IsList(<<e>>) /\ ToSet(<<e>>) = {e} /\ IsList(<<>>) /\ ToSet(<<>>) = {}
    BY ListOfOne, ListsOfNone
  <2>4. LogOf(loc, <<e>>) /\ LogOf(loc, <<>>)
    BY <2>1, <2>3 DEF LogOf
  <2> QED
    BY <2>2, <2>4
<1> HIDE DEF k
<1>8. LogOf(loc, sends)
  <2> DEFINE s == taken.senders
             n == Len(s)
             op == IF ReceiverOf(old, output) = None THEN "burn" ELSE "send"
             At(i) == Entry(old, k + i - 1, rune, s[i].amount, output, s[i].address,
                            ReceiverOf(old, output), op)
  <2>1. n \in Nat /\ DOMAIN s = 1..n
    BY <1>5, ListLength
  <2>2. sends = [i \in 1..n |-> At(i)]
    BY <2>1, Zenon DEF Sends
  <2>3. \A i : At(i).height = loc.height /\ At(i).tx = loc.tx
    BY <1>6, EntryPlace
  <2> HIDE DEF At, sends, n
  <2>4. IsList(sends)
    BY <2>1, <2>2, ListOf
  <2> QED
    BY <2>2, <2>3, <2>4 DEF LogOf, ToSet
<1> HIDE DEF receives, sends
<1>9. LogOf(loc, new.entries)
  BY <1>1, <1>3, <1>7, <1>8, JoinedLogs
<1>10. Holds(new.tc)
  <2> DEFINE f == old.input_runes
             g == new.tc.input_runes
  <2>1. f = [r \in RuneKeys |-> f[r]] /\ \A r \in RuneKeys : IsList(f[r])
    BY <1>1 DEF Holds
  <2>2. g = [f EXCEPT ![rune] = taken.left]
    BY <1>3
  <2> HIDE DEF f, g
  <2>3. g = [r \in RuneKeys |-> g[r]]
    BY <2>1, <2>2
  <2>4. \A r \in RuneKeys : IsList(g[r])
    BY <1>5, <2>1, <2>2
  <2> QED
    BY <1>3, <2>3, <2>4 DEF Holds, g
<1>11. SameTransaction(tc, new.tc)
  BY <1>1, <1>3 DEF SameTransaction
<1> QED
  BY <1>9, <1>10, <1>11, <1>12 DEF LoggedBy, new, loc

LEMMA StartListed ==
    ASSUME NEW tc, Holds(tc)
    PROVE  LoggedBy(tc, [tc |-> tc, entries |-> <<>>])
<1> DEFINE start == [tc |-> tc, entries |-> <<>>]
<1>1. start = [tc |-> start.tc, entries |-> start.entries] /\ start.tc = tc
      /\ start.entries = <<>>
  OBVIOUS
<1>2. LogOf(tc.location, <<>>)
  BY ListsOfNone DEF LogOf
<1>3. SameTransaction(tc, tc)
  BY DEF SameTransaction
<1> HIDE DEF start
<1>4. LoggedBy(tc, start)
  BY <1>1, <1>2, <1>3 DEF LoggedBy
<1> QED
  BY <1>4 DEF start

LEMMA EachListed ==
    ASSUME NEW tc, NEW start, LoggedBy(tc, start), NEW rune \in RuneKeys,
           NEW shares, NEW n \in Nat, DOMAIN shares = 1..n
    PROVE  LoggedBy(tc, MoveToEach(start, rune, shares))
<1>1. PICK h : /\ MovesInTurn(EligibleInOrder(start.tc), rune, shares, start, n, h)
               /\ MoveToEach(start, rune, shares) = h[n]
  BY EachTrace
<1> DEFINE good == {k \in Nat : k <= n => LoggedBy(tc, h[k])}
<1>2. 0 \in good
  BY <1>1 DEF MovesInTurn
<1>3. ASSUME NEW k \in Nat, k \in good
      PROVE  k + 1 \in good
  <2>1. CASE k + 1 <= n
    <3>1. LoggedBy(tc, h[k]) /\ k + 1 \in 1..n /\ (k + 1) - 1 = k
      BY <1>3, <2>1
    <3>2. PICK output : h[k + 1] = MoveRuneBalance(h[k], output, rune, shares[k + 1])
      BY <1>1, <3>1 DEF MovesInTurn
    <3> HIDE DEF good
    <3>3. LoggedBy(tc, h[k + 1])
      BY <3>1, <3>2, MoveListed
    <3> QED
      BY <3>3 DEF good
  <2>2. CASE ~(k + 1 <= n)
    BY <2>2
  <2> QED
    BY <2>1, <2>2
<1>4. Nat \subseteq good
  <2> HIDE DEF good
  <2> QED
    BY <1>2, <1>3, NatGrows
<1>5. n \in good /\ n <= n
  BY <1>4
<1> QED
  BY <1>1, <1>5

\* The rune an edict moves holds a balance.
MovesHeld(tc, edict) ==
    /\ edict.id \in RuneKeys
    /\ tc.etching # None => tc.etching.id \in RuneKeys

LEMMA EdictListed ==
    ASSUME NEW tc, Holds(tc), IsFiniteSet(DOMAIN tc.eligible_outputs),
           NEW edict, MovesHeld(tc, edict)
    PROVE  LoggedBy(tc, ApplyEdict(tc, edict))
<1> DEFINE start       == [tc |-> tc, entries |-> <<>>]
           rune        == IF edict.id = SelfId THEN tc.etching.id ELSE edict.id
           unallocated == AmountOf(tc.input_runes[rune])
           n           == Cardinality(DOMAIN tc.eligible_outputs)
           equal       == [i \in 1..n |-> EqualShare(unallocated, n, i)]
           each        == [i \in 1..n |-> AtMost(edict.amount, unallocated)]
           some        == IF edict.amount = 0 THEN unallocated ELSE edict.amount
           new         == ApplyEdict(tc, edict)
<1>1. new = IF edict.id = SelfId /\ tc.etching = None THEN start
            ELSE IF n = 0 \/ edict.output > tc.total_outputs
                 THEN MoveRuneBalance(start, None, rune, edict.amount)
            ELSE IF edict.output < tc.total_outputs
                 THEN MoveRuneBalance(start, edict.output, rune, some)
            ELSE IF edict.amount = 0
                 THEN MoveToEach(start, rune, equal)
                 ELSE MoveToEach(start, rune, each)
  BY Zenon DEF ApplyEdict
<1>2. LoggedBy(tc, start)
  BY StartListed
<1>3. n \in Nat
  BY FS_CardinalityType
<1>4. DOMAIN equal = 1..n /\ DOMAIN each = 1..n
  OBVIOUS
<1>5. (edict.id = SelfId /\ tc.etching = None) \/ rune \in RuneKeys
  BY DEF MovesHeld
<1> HIDE DEF start, new, n, unallocated, rune, equal, each, some
<1>6. ASSUME rune \in RuneKeys
      PROVE  /\ LoggedBy(tc, MoveToEach(start, rune, equal))
             /\ LoggedBy(tc, MoveToEach(start, rune, each))
             /\ LoggedBy(tc, MoveRuneBalance(start, None, rune, edict.amount))
             /\ LoggedBy(tc, MoveRuneBalance(start, edict.output, rune, some))
  <2>1. LoggedBy(tc, MoveToEach(start, rune, equal))
    BY <1>2, <1>3, <1>4, <1>6, EachListed
  <2>2. LoggedBy(tc, MoveToEach(start, rune, each))
    BY <1>2, <1>3, <1>4, <1>6, EachListed
  <2> QED
    BY <1>2, <1>6, <2>1, <2>2, MoveListed
<1>7. LoggedBy(tc, new)
  BY <1>1, <1>2, <1>5, <1>6
<1> QED
  BY <1>7 DEF new

LEMMA HeldFinite ==
    ASSUME NEW tc
    PROVE  IsFiniteSet(HeldRunes(tc)) /\ HeldRunes(tc) \subseteq RuneKeys
<1>1. IsFiniteSet(RuneKeys)
  BY RuneIdsAssumption, FS_AddElement DEF RuneKeys
<1>2. HeldRunes(tc) \subseteq RuneKeys
  BY DEF HeldRunes
<1> QED
  BY <1>1, <1>2, FS_Subset

\* Forgetting the input runes is no entry.
LEMMA ClearedListed ==
    ASSUME NEW tc, NEW old, Holds(old), SameTransaction(tc, old)
    PROVE  LET new == ClearInputRunes(old)
           IN  Holds(new) /\ SameTransaction(tc, new)
<1> DEFINE none == [r \in RuneKeys |-> <<>>]
           new  == ClearInputRunes(old)
<1>1. new = [old EXCEPT !.input_runes = none]
  BY DEF ClearInputRunes
<1>2. none = [r \in RuneKeys |-> none[r]] /\ \A r \in RuneKeys : IsList(none[r])
  BY ListsOfNone
<1>3. IsTransaction(old)
  BY DEF Holds
<1> HIDE DEF none, new
<1>4. IsTransaction(new) /\ SameTransaction(old, new) /\ new.input_runes = none
  BY <1>1, <1>3, InputRunesField
<1>5. Holds(new) /\ SameTransaction(tc, new)
  BY <1>2, <1>4 DEF Holds, SameTransaction
<1> QED
  BY <1>5 DEF new

\* The end of a transaction writes entries of that transaction.
LEMMA RemainingListed ==
    ASSUME NEW tc, Holds(tc), NEW output
    PROVE  LoggedBy(tc, MoveAllTo(tc, output))
<1> DEFINE T == HeldRunes(tc)
           moved == AllMoved(tc, output)
           end == MoveAllTo(tc, output)
<1>1. IsFiniteSet(T) /\ T \subseteq RuneKeys
  BY HeldFinite
<1>2. PICK g : moved = g[T] /\ MovesOfEach(tc, output, T, g)
  BY <1>1, AllTrace
<1> HIDE DEF T
<1> DEFINE good == {s \in SUBSET T : LoggedBy(tc, g[s])}
<1>3. {} \in good
  BY <1>2, StartListed DEF MovesOfEach
<1>4. ASSUME NEW s \in SUBSET T, s # {}, \A x \in s : s \ {x} \in good
      PROVE  s \in good
  <2>1. PICK x \in s : g[s] = MoveRuneBalance(g[s \ {x}], output, x, 0)
    BY <1>2, <1>4 DEF MovesOfEach
  <2>2. LoggedBy(tc, g[s \ {x}]) /\ x \in RuneKeys
    BY <1>1, <1>4
  <2> HIDE DEF good
  <2>3. LoggedBy(tc, g[s])
    BY <2>1, <2>2, MoveListed
  <2> QED
    BY <2>3 DEF good
<1>5. T \in good
  <2> HIDE DEF good
  <2> QED
    BY <1>1, <1>3, <1>4, SubsetsGrow
<1>6. LoggedBy(tc, moved)
  BY <1>2, <1>5
<1>7. end = [moved EXCEPT !.tc = ClearInputRunes(@)]
  BY Zenon DEF MoveAllTo, AllMoved
<1> HIDE DEF moved, end, good
<1>8. /\ moved = [tc |-> moved.tc, entries |-> moved.entries]
      /\ Holds(moved.tc) /\ SameTransaction(tc, moved.tc)
      /\ LogOf(tc.location, moved.entries)
  BY <1>6 DEF LoggedBy
<1> DEFINE new == ClearInputRunes(moved.tc)
<1>9. Holds(new) /\ SameTransaction(tc, new)
  BY <1>8, ClearedListed
<1>10. end = [moved EXCEPT !.tc = new]
  BY <1>7
<1> HIDE DEF new
<1>11. end = [tc |-> new, entries |-> moved.entries]
  BY <1>8, <1>10
<1>12. end.tc = new /\ end.entries = moved.entries
       /\ end = [tc |-> end.tc, entries |-> end.entries]
  BY <1>11
<1>13. LoggedBy(tc, end)
  BY <1>8, <1>9, <1>12 DEF LoggedBy
<1> QED
  BY <1>13 DEF end

LEMMA BurnsListed ==
    ASSUME NEW tc, Holds(tc)
    PROVE  LoggedBy(tc, ApplyCenotaphInputBurn(tc))
<1> DEFINE T == HeldRunes(tc)
           burns == AllBurns(tc)
           cleared == ClearInputRunes(tc)
           event == cleared.next_event_index + Len(burns)
           end == ApplyCenotaphInputBurn(tc)
           loc == tc.location
<1>1. IsFiniteSet(T) /\ T \subseteq RuneKeys
  BY HeldFinite
<1>2. PICK g : burns = g[T] /\ BurnsOfEach(tc, T, g)
  BY <1>1, BurnTrace
<1> HIDE DEF T, burns
<1> DEFINE good == {s \in SUBSET T : LogOf(loc, g[s])}
<1>3. {} \in good
  <2>1. g[{}] = <<>>
    BY <1>2 DEF BurnsOfEach
  <2> QED
    BY <2>1, ListsOfNone DEF LogOf
<1>4. ASSUME NEW s \in SUBSET T, s # {}, \A x \in s : s \ {x} \in good
      PROVE  s \in good
  <2>1. PICK x \in s : g[s] = g[s \ {x}] \o BurnBalances(tc, Len(g[s \ {x}]), x)
    BY <1>2, <1>4 DEF BurnsOfEach
  <2>2. LogOf(loc, g[s \ {x}]) /\ x \in RuneKeys
    BY <1>1, <1>4
  <2> DEFINE k == Len(g[s \ {x}])
             b == tc.input_runes[x]
             n == Len(b)
             m == BurnBalances(tc, k, x)
             At(i) == Entry(tc, k + i - 1, x, b[i].amount, None, b[i].address, None, "burn")
  <2>3. n \in Nat /\ DOMAIN b = 1..n
    <3>1. IsList(b)
      BY <2>2 DEF Holds
    <3> QED
      BY <3>1, ListLength
  <2>4. m = [i \in 1..n |-> At(i)]
    BY <2>3, Zenon DEF BurnBalances
  <2>5. \A i : At(i).height = loc.height /\ At(i).tx = loc.tx
    BY EntryPlace
  <2> HIDE DEF At, m, n, good, loc
  <2>6. IsList(m)
    BY <2>3, <2>4, ListOf
  <2>7. LogOf(loc, m)
    BY <2>4, <2>5, <2>6 DEF LogOf, ToSet
  <2>8. LogOf(loc, g[s])
    BY <2>1, <2>2, <2>7, JoinedLogs DEF m
  <2> QED
    BY <2>8 DEF good
<1>5. T \in good
  <2> HIDE DEF good
  <2> QED
    BY <1>1, <1>3, <1>4, SubsetsGrow
<1>6. LogOf(loc, burns)
  BY <1>2, <1>5
<1>7. end = [tc |-> [cleared EXCEPT !.next_event_index = event], entries |-> burns]
  BY Zenon DEF ApplyCenotaphInputBurn, AllBurns, burns
<1>8. Holds(cleared) /\ SameTransaction(tc, cleared)
  <2>1. SameTransaction(tc, tc)
    BY DEF SameTransaction
  <2> QED
    BY <2>1, ClearedListed
<1> HIDE DEF good, end, event, cleared
<1> DEFINE new == [cleared EXCEPT !.next_event_index = event]
<1>9. /\ IsTransaction(new) /\ SameTransaction(cleared, new)
      /\ new.input_runes = cleared.input_runes
  <2>1. IsTransaction(cleared)
    BY <1>8 DEF Holds
  <2> QED
    BY <2>1, EventField
<1> HIDE DEF new
<1>10. Holds(new) /\ SameTransaction(tc, new)
  BY <1>8, <1>9 DEF Holds, SameTransaction
<1>11. end.tc = new /\ end.entries = burns /\ end = [tc |-> end.tc, entries |-> end.entries]
  BY <1>7 DEF new
<1>12. LoggedBy(tc, end)
  BY <1>6, <1>10, <1>11 DEF LoggedBy, loc
<1> QED
  BY <1>12 DEF end

\* res writes an entry of this kind.
Writes(tc, res, op) ==
    \E e \in ToSet(res.entries) : e.op = op /\ e.height = tc.location.height
                                  /\ e.tx = tc.location.tx

LEMMA EntryListed ==
    ASSUME NEW tc, Holds(tc), NEW rune, NEW amount, NEW op
    PROVE  /\ LoggedBy(tc, OneEntry(tc, rune, amount, op))
           /\ Writes(tc, OneEntry(tc, rune, amount, op), op)
<1> DEFINE e   == Entry(tc, 0, rune, amount, None, None, None, op)
           event == tc.next_event_index + 1
           new == [tc EXCEPT !.next_event_index = event]
           res == OneEntry(tc, rune, amount, op)
<1>1. res = [tc |-> new, entries |-> <<e>>]
  BY Zenon DEF OneEntry
<1>2. IsTransaction(tc)
  BY DEF Holds
<1>3. e.height = tc.location.height /\ e.tx = tc.location.tx /\ e.op = op
  BY EntryPlace
<1> HIDE DEF e, event
<1>4. /\ IsTransaction(new) /\ SameTransaction(tc, new)
      /\ new.input_runes = tc.input_runes
  BY <1>2, EventField
<1> HIDE DEF new, res
<1>5. Holds(new)
  BY <1>4 DEF Holds
<1>6. LogOf(tc.location, <<e>>)
  BY <1>3, ListOfOne DEF LogOf
<1>7. res.tc = new /\ res.entries = <<e>> /\ res = [tc |-> res.tc, entries |-> res.entries]
  BY <1>1
<1>8. LoggedBy(tc, res)
  BY <1>4, <1>5, <1>6, <1>7 DEF LoggedBy
<1>9. Writes(tc, res, op)
  BY <1>3, <1>7, ListOfOne DEF Writes
<1> QED
  BY <1>8, <1>9 DEF res

LEMMA AddListed ==
    ASSUME NEW tc, Holds(tc), NEW rune, NEW amount
    PROVE  LET new == AddInputRunes(tc, rune, amount)
           IN  Holds(new) /\ SameTransaction(tc, new)
<1> DEFINE f   == tc.input_runes
           bal == [address |-> None, amount |-> amount]
           g   == [f EXCEPT ![rune] = Append(@, bal)]
           new == AddInputRunes(tc, rune, amount)
<1>1. IsTransaction(tc) /\ f = [r \in RuneKeys |-> f[r]] /\ \A r \in RuneKeys : IsList(f[r])
  BY DEF Holds
<1>2. new = [tc EXCEPT !.input_runes = g]
  BY <1>1 DEF AddInputRunes, IsTransaction
<1>3. IsList(Append(f[rune], bal)) \/ rune \notin RuneKeys
  BY <1>1, ListAppend
<1> HIDE DEF f, bal
<1>4. g = [r \in RuneKeys |-> g[r]]
  BY <1>1
<1>5. \A r \in RuneKeys : IsList(g[r])
  BY <1>1, <1>3
<1> HIDE DEF g, new
<1>6. IsTransaction(new) /\ SameTransaction(tc, new) /\ new.input_runes = g
  BY <1>1, <1>2, InputRunesField
<1>7. Holds(new)
  BY <1>4, <1>5, <1>6 DEF Holds
<1> QED
  BY <1>6, <1>7 DEF new

\* res etches a rune at the place of the transaction and writes the entry.
EtchesAt(tc, res) ==
    /\ Holds(res.tc)
    /\ LogOf(tc.location, res.entries)
    /\ Writes(tc, res, "etching")
    /\ res.tc.location = tc.location
    /\ res.tc.eligible_outputs = tc.eligible_outputs
    /\ res.tc.output_pointer = tc.output_pointer
    /\ res.tc.etching.id = RuneIdOf(tc.location)
    /\ res.tc.etching.height = tc.location.height

\* The tail of both etchings: the entry, on a cache that has the rune.
LEMMA EtchedListed ==
    ASSUME NEW tc, NEW old, Holds(old), old.location = tc.location,
           old.eligible_outputs = tc.eligible_outputs,
           old.output_pointer = tc.output_pointer,
           old.etching.id = RuneIdOf(tc.location), old.etching.height = tc.location.height,
           NEW rune
    PROVE  EtchesAt(tc, OneEntry(old, rune, None, "etching"))
<1> DEFINE res == OneEntry(old, rune, None, "etching")
<1>1. LoggedBy(old, res) /\ Writes(old, res, "etching")
  BY EntryListed
<1> HIDE DEF res
<1>2. /\ Holds(res.tc) /\ SameTransaction(old, res.tc)
      /\ LogOf(old.location, res.entries)
  BY <1>1 DEF LoggedBy
<1>3. EtchesAt(tc, res)
  BY <1>1, <1>2 DEF EtchesAt, SameTransaction, Writes
<1> QED
  BY <1>3 DEF res

LEMMA WithEtching ==
    ASSUME NEW tc, Holds(tc), NEW rune
    PROVE  LET new == [tc EXCEPT !.etching = rune]
           IN  /\ Holds(new) /\ new.location = tc.location /\ new.etching = rune
               /\ new.eligible_outputs = tc.eligible_outputs
               /\ new.output_pointer = tc.output_pointer
<1> DEFINE new == [tc EXCEPT !.etching = rune]
<1>1. IsTransaction(tc)
  BY DEF Holds
<1>2. /\ IsTransaction(new) /\ new.etching = rune /\ new.location = tc.location
      /\ new.output_pointer = tc.output_pointer
      /\ new.eligible_outputs = tc.eligible_outputs
      /\ new.input_runes = tc.input_runes
  BY <1>1, EtchingField
<1> HIDE DEF new
<1>3. Holds(new)
  BY <1>2 DEF Holds
<1> QED
  BY <1>2, <1>3 DEF new

LEMMA EtchingListed ==
    ASSUME NEW tc, Holds(tc), NEW etching, NEW number
    PROVE  EtchesAt(tc, ApplyEtching(tc, etching, number))
<1> DEFINE id == RuneIdOf(tc.location)
           rune == DbRuneFromEtching(etching, number, tc.location)
           etched == [tc EXCEPT !.etching = rune]
           given == AddInputRunes(etched, id, etching.premine)
           old == IF etching.premine = None THEN etched ELSE given
           res == ApplyEtching(tc, etching, number)
<1>1. res = OneEntry(old, id, None, "etching")
  BY Zenon DEF ApplyEtching
<1>2. rune.id = id /\ rune.height = tc.location.height
  BY Zenon DEF DbRuneFromEtching
<1> HIDE DEF id, rune
<1>3. /\ Holds(etched) /\ etched.location = tc.location /\ etched.etching = rune
      /\ etched.eligible_outputs = tc.eligible_outputs
      /\ etched.output_pointer = tc.output_pointer
  BY WithEtching
<1> HIDE DEF etched
<1>4. Holds(given) /\ SameTransaction(etched, given)
  BY <1>3, AddListed
<1> HIDE DEF given, res
<1>5. /\ Holds(old) /\ old.location = tc.location /\ old.etching = rune
      /\ old.eligible_outputs = tc.eligible_outputs
      /\ old.output_pointer = tc.output_pointer
  BY <1>3, <1>4 DEF SameTransaction
<1> HIDE DEF old
<1>6. old.etching.id = RuneIdOf(tc.location) /\ old.etching.height = tc.location.height
  BY <1>2, <1>5 DEF id
<1>7. EtchesAt(tc, res)
  BY <1>1, <1>5, <1>6, EtchedListed
<1> QED
  BY <1>7 DEF res

LEMMA CenotaphEtchingListed ==
    ASSUME NEW tc, Holds(tc), NEW name, NEW number
    PROVE  EtchesAt(tc, ApplyCenotaphEtching(tc, name, number))
<1> DEFINE id == RuneIdOf(tc.location)
           rune == DbRuneFromCenotaphEtching(name, number, tc.location)
           etched == [tc EXCEPT !.etching = rune]
           res == ApplyCenotaphEtching(tc, name, number)
<1>1. res = OneEntry(etched, id, None, "etching")
  BY Zenon DEF ApplyCenotaphEtching
<1>2. rune.id = id /\ rune.height = tc.location.height
  BY Zenon DEF DbRuneFromCenotaphEtching
<1> HIDE DEF rune, res
<1>3. /\ Holds(etched) /\ etched.location = tc.location /\ etched.etching = rune
      /\ etched.eligible_outputs = tc.eligible_outputs
      /\ etched.output_pointer = tc.output_pointer
  BY WithEtching
<1> HIDE DEF etched
<1>4. EtchesAt(tc, res)
  BY <1>1, <1>2, <1>3, EtchedListed
<1> QED
  BY <1>4 DEF res

LEMMA MintListed ==
    ASSUME NEW tc, Holds(tc), NEW id, NEW rune
    PROVE  LoggedBy(tc, ApplyMint(tc, id, rune))
<1> DEFINE old == AddInputRunes(tc, id, rune.terms.amount)
           res == ApplyMint(tc, id, rune)
<1>1. res = OneEntry(old, id, rune.terms.amount, "mint")
  BY Zenon DEF ApplyMint
<1>2. Holds(old) /\ SameTransaction(tc, old)
  BY AddListed
<1> HIDE DEF old, res
<1>3. LoggedBy(old, res)
  BY <1>1, <1>2, EntryListed
<1>4. LoggedBy(tc, res)
  BY <1>2, <1>3 DEF LoggedBy, SameTransaction
<1> QED
  BY <1>4 DEF res

LEMMA CenotaphMintListed ==
    ASSUME NEW tc, Holds(tc), NEW id, NEW rune
    PROVE  LoggedBy(tc, ApplyCenotaphMint(tc, id, rune))
<1>1. ApplyCenotaphMint(tc, id, rune) = OneEntry(tc, id, rune.terms.amount, "burn")
  BY Zenon DEF ApplyCenotaphMint
<1> QED
  BY <1>1, EntryListed

-----------------------------------------------------------------------------
(* Sums over the places of a list *)

\* What weighs nothing adds nothing.
LEMMA SumOfZeros ==
    ASSUME NEW S, IsFiniteSet(S), NEW w, \A x \in S : w[x] = 0
    PROVE  Weighs(w, S) /\ SumOver(w, S) = 0
<1>1. Weighs(w, S)
  BY DEF Weighs
<1> DEFINE Good == {s \in SUBSET S : SumOver(w, s) = 0}
<1>2. {} \in Good
  BY <1>1, SumTakesOut
<1>3. ASSUME NEW s \in SUBSET S, s # {}, \A x \in s : s \ {x} \in Good
      PROVE  s \in Good
  <2>1. PICK x \in s : TRUE
    BY <1>3
  <2>2. IsFiniteSet(s) /\ Weighs(w, s)
    BY <1>1, FS_Subset DEF Weighs
  <2>3. SumOver(w, s) = w[x] + SumOver(w, s \ {x})
    BY <2>1, <2>2, SumTakesOut
  <2>4. SumOver(w, s \ {x}) = 0 /\ w[x] = 0
    BY <1>3, <2>1
  <2> QED BY <2>3, <2>4
<1> HIDE DEF Good
<1>4. SUBSET S \subseteq Good
  BY <1>2, <1>3, SubsetsGrow
<1> QED BY <1>1, <1>4 DEF Good

\* So what weighs nothing can be left out.
LEMMA SumOfHeavy ==
    ASSUME NEW S, IsFiniteSet(S), NEW w, Weighs(w, S), NEW T \in SUBSET S,
           \A x \in S \ T : w[x] = 0
    PROVE  IsFiniteSet(T) /\ Weighs(w, T) /\ SumOver(w, S) = SumOver(w, T)
<1>1. IsFiniteSet(T) /\ IsFiniteSet(S \ T) /\ Weighs(w, T)
  BY FS_Subset DEF Weighs
<1>2. Weighs(w, S \ T) /\ SumOver(w, S \ T) = 0
  BY <1>1, SumOfZeros
<1>3. T \cap (S \ T) = {} /\ T \cup (S \ T) = S
  OBVIOUS
<1>4. SumOver(w, T \cup (S \ T)) = SumOver(w, T) + SumOver(w, S \ T)
  BY <1>1, <1>2, <1>3, SumUnion
<1>5. SumOver(w, T) \in Nat
  BY <1>1, SumTakesOut
<1> QED BY <1>1, <1>2, <1>3, <1>4, <1>5

\* The places S of a list without repetition, and what is there.
LEMMA SumOfPlaces ==
    ASSUME NEW l, NEW S, IsFiniteSet(S),
           \A x, y \in S : l[x] = l[y] => x = y,
           NEW w, Weighs(w, Reached(l, S)), NEW v, \A x \in S : v[x] = w[l[x]]
    PROVE  /\ IsFiniteSet(Reached(l, S))
           /\ Weighs(v, S)
           /\ SumOver(v, S) = SumOver(w, Reached(l, S))
<1> DEFINE Img(s) == Reached(l, s)
<1>1. Weighs(v, S)
  BY DEF Weighs, Reached
<1>2. IsFiniteSet(Img(S))
  <2> DEFINE f == [x \in S |-> l[x]]
  <2>1. f \in Surjection(S, Img(S))
    BY DEF Surjection, Reached
  <2> HIDE DEF f, Img
  <2> QED BY <2>1, FS_Surjection
<1>3. \A s \in SUBSET S : /\ IsFiniteSet(s) /\ Weighs(v, s)
                          /\ IsFiniteSet(Img(s)) /\ Weighs(w, Img(s))
  <2> TAKE s \in SUBSET S
  <2>1. Img(s) \subseteq Img(S)
    BY DEF Reached
  <2> HIDE DEF Img
  <2>2. Weighs(w, Img(s))
    BY <2>1 DEF Weighs, Img
  <2> QED BY <1>1, <1>2, <2>1, <2>2, FS_Subset DEF Weighs
<1> DEFINE Good == {s \in SUBSET S : SumOver(v, s) = SumOver(w, Img(s))}
<1>4. {} \in Good
  <2>1. Img({}) = {}
    BY DEF Reached
  <2> HIDE DEF Img
  <2>2. IsFiniteSet({}) /\ Weighs(v, {}) /\ Weighs(w, {})
    BY FS_EmptySet DEF Weighs
  <2>3. SumOver(v, {}) = 0 /\ SumOver(w, {}) = 0
    BY <2>2, SumTakesOut
  <2> QED BY <2>1, <2>3
<1>5. ASSUME NEW s \in SUBSET S, s # {}, \A x \in s : s \ {x} \in Good
      PROVE  s \in Good
  <2>1. PICK x \in s : TRUE
    BY <1>5
  <2>2. l[x] \in Img(s) /\ Img(s) \ {l[x]} = Img(s \ {x})
    BY <2>1 DEF Reached
  <2> HIDE DEF Img
  <2>3. SumOver(v, s) = v[x] + SumOver(v, s \ {x})
    BY <1>3, SumTakesOut
  <2>4. SumOver(w, Img(s)) = w[l[x]] + SumOver(w, Img(s) \ {l[x]})
    BY <1>3, <2>2, SumTakesOut
  <2>5. SumOver(v, s \ {x}) = SumOver(w, Img(s \ {x}))
    BY <1>5
  <2> QED BY <2>2, <2>3, <2>4, <2>5
<1> HIDE DEF Good
<1>6. SUBSET S \subseteq Good
  BY <1>4, <1>5, SubsetsGrow
<1>7. SumOver(v, S) = SumOver(w, Img(S))
  BY <1>6 DEF Good
<1> QED BY <1>1, <1>2, <1>7

\* Counting is summing up ones.
LEMMA SumOfOnes ==
    ASSUME NEW S, IsFiniteSet(S), NEW w, \A x \in S : w[x] = 1
    PROVE  SumOver(w, S) = Cardinality(S) /\ Weighs(w, S)
<1>1. Weighs(w, S)
  BY DEF Weighs
<1> DEFINE Good == {s \in SUBSET S : SumOver(w, s) = Cardinality(s)}
<1>2. {} \in Good
  BY <1>1, SumTakesOut, FS_EmptySet
<1>3. ASSUME NEW s \in SUBSET S, s # {}, \A x \in s : s \ {x} \in Good
      PROVE  s \in Good
  <2>1. PICK x \in s : TRUE
    BY <1>3
  <2>2. IsFiniteSet(s) /\ Weighs(w, s) /\ Cardinality(s) \in Nat
    BY <1>1, FS_Subset, FS_CardinalityType DEF Weighs
  <2>3. SumOver(w, s) = w[x] + SumOver(w, s \ {x})
    BY <2>1, <2>2, SumTakesOut
  <2>4. SumOver(w, s \ {x}) = Cardinality(s \ {x}) /\ w[x] = 1
    BY <1>3, <2>1
  <2>5. Cardinality(s \ {x}) = Cardinality(s) - 1
    BY <2>1, <2>2, FS_RemoveElement
  <2> QED BY <2>2, <2>3, <2>4, <2>5
<1> HIDE DEF Good
<1>4. SUBSET S \subseteq Good
  BY <1>2, <1>3, SubsetsGrow
<1> QED BY <1>1, <1>4 DEF Good

-----------------------------------------------------------------------------
(* What every operation of a transaction enters *)

\* The operation that turned tc into new wrote the entries l, numbered in order.
Enters(A, O, tc, new, l) ==
    /\ Carries(new, A)
    /\ new.location = tc.location
    /\ l \in Seq(Logs(tc.location, A, O))
    /\ new.next_event_index = tc.next_event_index + Len(l)
    /\ \A i \in DOMAIN l : l[i].event = tc.next_event_index + i - 1

\* An operation that writes nothing.
LEMMA NothingEnters ==
    ASSUME NEW A, NEW O, NEW tc, Carries(tc, A), NEW new, Carries(new, A),
           new.location = tc.location, new.next_event_index = tc.next_event_index
    PROVE  Enters(A, O, tc, new, <<>>)
<1>1. tc.next_event_index \in Nat
  BY DEF Carries
<1>2. <<>> \in Seq(Logs(tc.location, A, O)) /\ Len(<<>>) = 0 /\ DOMAIN <<>> = {}
  OBVIOUS
<1> QED BY <1>1, <1>2 DEF Enters

\* Moves.
LEMMA SettledEnters ==
    ASSUME NEW A, NEW O, NEW tc, NEW res, Settled(A, O, tc, res)
    PROVE  /\ Enters(A, O, tc, res.tc, res.entries)
           /\ Shifts(res.entries)
           /\ res.tc.etching = tc.etching /\ res.tc.output_pointer = tc.output_pointer
BY DEF Settled, Enters, SameTransaction

\* One entry of an operation that moves nothing, whose deque may have grown first.
LEMMA EnteredEnters ==
    ASSUME NEW A, NEW O, NEW tc, Carries(tc, A), NEW mid, mid.location = tc.location,
           mid.output_pointer = tc.output_pointer, mid.next_event_index = tc.next_event_index,
           NEW rune, NEW amount, NEW op, NEW res, Entered(A, O, mid, rune, amount, op, res)
    PROVE  /\ Enters(A, O, tc, res.tc, res.entries)
           /\ Len(res.entries) = 1 /\ res.entries[1].op = op
           /\ res.tc.etching = mid.etching /\ res.tc.output_pointer = tc.output_pointer
<1>1. /\ Carries(res.tc, A) /\ SameTransaction(mid, res.tc)
      /\ res.tc.next_event_index = mid.next_event_index + 1
      /\ res.entries \in Seq(Logs(mid.location, A, O)) /\ Len(res.entries) = 1
      /\ res.entries[1].op = op /\ res.entries[1].event = mid.next_event_index
  BY DEF Entered
<1>2. \A i \in DOMAIN res.entries : i = 1
  BY <1>1
<1>3. tc.next_event_index \in Nat
  BY DEF Carries
<1>4. \A i \in DOMAIN res.entries : res.entries[i].event = tc.next_event_index + i - 1
  BY <1>1, <1>2, <1>3
<1> QED BY <1>1, <1>4 DEF Enters, SameTransaction

\* The burn of a cenotaph's mint is a move out of nowhere.
LEMMA EnteredShifts ==
    ASSUME NEW l, Len(l) = 1, NEW S, l \in Seq(S), l[1].op = "burn"
    PROVE  Shifts(l)
BY DEF Shifts

\* Writing the rune that was etched.
LEMMA EtchingCarries ==
    ASSUME NEW A, NEW tc, Carries(tc, A), NEW rune
    PROVE  LET new == [tc EXCEPT !.etching = rune]
           IN  /\ Carries(new, A) /\ new.etching = rune
               /\ new.location = tc.location /\ new.output_pointer = tc.output_pointer
               /\ new.next_event_index = tc.next_event_index
<1> DEFINE new == [tc EXCEPT !.etching = rune]
<1>1. /\ None \in A /\ IsTransaction(tc) /\ tc.next_event_index \in Nat
      /\ tc.input_runes \in [RuneKeys -> Deques(A)]
      /\ \A o \in DOMAIN tc.eligible_outputs : tc.eligible_outputs[o] \in A
  BY DEF Carries
<1>2. /\ IsTransaction(new) /\ new.etching = rune /\ new.location = tc.location
      /\ new.output_pointer = tc.output_pointer
      /\ new.eligible_outputs = tc.eligible_outputs
      /\ new.input_runes = tc.input_runes
      /\ new.next_event_index = tc.next_event_index
  BY <1>1, EtchingField
<1> HIDE DEF new
<1>3. Carries(new, A)
  BY <1>1, <1>2 DEF Carries
<1> QED BY <1>2, <1>3 DEF new

\* Writing the pointer.
LEMMA PointerCarries ==
    ASSUME NEW A, NEW tc, Carries(tc, A), NEW pointer
    PROVE  LET new == [tc EXCEPT !.output_pointer = pointer]
           IN  /\ Carries(new, A) /\ new.output_pointer = pointer
               /\ new.location = tc.location /\ new.etching = tc.etching
               /\ new.next_event_index = tc.next_event_index
<1> DEFINE new == [tc EXCEPT !.output_pointer = pointer]
<1>1. /\ None \in A /\ IsTransaction(tc) /\ tc.next_event_index \in Nat
      /\ tc.input_runes \in [RuneKeys -> Deques(A)]
      /\ \A o \in DOMAIN tc.eligible_outputs : tc.eligible_outputs[o] \in A
  BY DEF Carries
<1>2. /\ IsTransaction(new) /\ new.output_pointer = pointer /\ new.location = tc.location
      /\ new.etching = tc.etching
      /\ new.eligible_outputs = tc.eligible_outputs
      /\ new.input_runes = tc.input_runes
      /\ new.next_event_index = tc.next_event_index
  BY <1>1, PointerField
<1> HIDE DEF new
<1>3. Carries(new, A)
  BY <1>1, <1>2 DEF Carries
<1> QED BY <1>2, <1>3 DEF new

\* Moving all the runes of the inputs settles what it moves, in any state of the deques.
LEMMA AllMovesSettle ==
    ASSUME NEW A, NEW O, NEW tc, Carries(tc, A), NEW output \in O
    PROVE  Settled(A, O, tc, AllMoved(tc, output))
<1> DEFINE T == HeldRunes(tc)
           start == [tc |-> tc, entries |-> <<>>]
<1>1. T \subseteq RuneKeys
  BY DEF HeldRunes
<1>2. IsFiniteSet(T)
  <2>1. IsFiniteSet({SelfId})
    BY FS_Singleton
  <2>2. IsFiniteSet(RuneKeys)
    BY <2>1, RuneIdsAssumption, FS_Union DEF RuneKeys
  <2> QED
    BY <1>1, <2>2, FS_Subset
<1>3. PICK g : AllMoved(tc, output) = g[T] /\ MovesOfEach(tc, output, T, g)
  BY <1>2, AllTrace
<1>4. Settled(A, O, tc, start)
  BY NothingMoved
<1> HIDE DEF T
<1> DEFINE good == {s \in SUBSET T : Settled(A, O, tc, g[s])}
<1>5. g[{}] = start
  BY <1>3 DEF MovesOfEach
<1> HIDE DEF start
<1>6. {} \in good
  BY <1>4, <1>5
<1>7. ASSUME NEW s \in SUBSET T, s # {}, \A x \in s : s \ {x} \in good
      PROVE  s \in good
  <2>1. PICK x \in s : g[s] = MoveRuneBalance(g[s \ {x}], output, x, 0)
    BY <1>3, <1>7 DEF MovesOfEach
  <2> DEFINE mid == g[s \ {x}]
             new == MoveRuneBalance(mid, output, x, 0)
  <2>2. Settled(A, O, tc, mid)
    BY <1>7
  <2>3. x \in RuneKeys /\ 0 \in Nat
    BY <1>1
  <2> HIDE DEF mid
  <2>4. Stepped(A, O, tc, mid, x, 0, new)
    BY <2>2, <2>3, MoveStep
  <2> HIDE DEF new
  <2>5. Settled(A, O, tc, new)
    BY <2>4, Zenon DEF Stepped
  <2>6. g[s] = new
    BY <2>1 DEF mid, new
  <2> QED
    BY <2>5, <2>6
<1> HIDE DEF good
<1>8. SUBSET T \subseteq good
  BY <1>2, <1>6, <1>7, SubsetsGrow
<1> QED
  BY <1>3, <1>8 DEF good

\* The end of a transaction: what MoveAllTo enters.
LEMMA RestEnters ==
    ASSUME NEW A, NEW O, NEW tc, Carries(tc, A), NEW output \in O
    PROVE  LET end == MoveAllTo(tc, output)
           IN  /\ Enters(A, O, tc, end.tc, end.entries) /\ Shifts(end.entries)
               /\ end.tc.etching = tc.etching /\ end.tc.output_pointer = tc.output_pointer
<1> DEFINE moved == AllMoved(tc, output)
           end == MoveAllTo(tc, output)
           none == [r \in RuneKeys |-> <<>>]
<1>1. Settled(A, O, tc, moved)
  BY AllMovesSettle
<1>2. end = [moved EXCEPT !.tc = ClearInputRunes(@)]
  BY Zenon DEF MoveAllTo, AllMoved
<1> HIDE DEF moved, end, none
<1>3. /\ Carries(moved.tc, A) /\ SameTransaction(tc, moved.tc)
      /\ moved.entries \in Seq(Logs(tc.location, A, O)) /\ Shifts(moved.entries)
      /\ moved.tc.next_event_index = tc.next_event_index + Len(moved.entries)
      /\ \A i \in DOMAIN moved.entries : moved.entries[i].event = tc.next_event_index + i - 1
  BY <1>1 DEF Settled
<1>4. end.tc = [moved.tc EXCEPT !.input_runes = none] /\ end.entries = moved.entries
  BY <1>2 DEF ClearInputRunes, none
<1>5. /\ IsTransaction(moved.tc) /\ None \in A /\ moved.tc.next_event_index \in Nat
      /\ \A o \in DOMAIN moved.tc.eligible_outputs : moved.tc.eligible_outputs[o] \in A
  BY <1>3 DEF Carries
<1>6. /\ IsTransaction(end.tc) /\ SameTransaction(moved.tc, end.tc)
      /\ end.tc.input_runes = none
      /\ end.tc.next_event_index = moved.tc.next_event_index
  BY <1>4, <1>5, InputRunesField
<1>7. /\ end.tc.location = tc.location /\ end.tc.output_pointer = tc.output_pointer
      /\ end.tc.etching = tc.etching
  BY <1>3, <1>6 DEF SameTransaction
<1>8. none \in [RuneKeys -> Deques(A)]
  <2>1. <<>> \in Deques(A)
    BY AmountFromEmpty
  <2> QED
    BY <2>1 DEF none
<1>9. Carries(end.tc, A)
  <2>1. \A o \in DOMAIN end.tc.eligible_outputs : end.tc.eligible_outputs[o] \in A
    BY <1>5, <1>6 DEF SameTransaction
  <2> QED
    BY <1>5, <1>6, <1>8, <2>1 DEF Carries
<1>10. Enters(A, O, tc, end.tc, end.entries) /\ Shifts(end.entries)
  BY <1>3, <1>4, <1>6, <1>7, <1>9 DEF Enters
<1> QED
  BY <1>7, <1>10 DEF end
=============================================================================
