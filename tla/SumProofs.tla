----------------------------- MODULE SumProofs -----------------------------
(***************************************************************************)
(* Sums of amounts over finite sets of rows, as SQL's SUM(amount) is       *)
(* modelled in Posting and Balance.  The library's fold takes the elements *)
(* in an order of its own; these lemmas free the other proofs of it.       *)
(***************************************************************************)
EXTENDS Integers, FiniteSetsExt, TLAPS, FiniteSetTheorems, WellFoundedInduction

SumOfAmounts(rows) == MapThenSumSet(LAMBDA r : r.amount, rows)

\* A set of natural numbers has a least element: every induction below looks at
\* the least counterexample.
LEMMA LeastNatural ==
    ASSUME NEW T, T \subseteq Nat, T # {}
    PROVE  \E m \in T : \A n \in T : m <= n
<1>1. PICK m \in T : \A n \in T : ~(<<n, m>> \in OpToRel(<, Nat))
  BY NatLessThanWellFounded, WFMin
<1>2. \A n \in T : ~(n < m)
  BY <1>1 DEF OpToRel
<1> QED
  BY <1>2

\* A set of natural numbers that is bounded has a greatest element: its least bound.
LEMMA GreatestNatural ==
    ASSUME NEW T, T \subseteq Nat, T # {}, NEW b \in Nat, \A n \in T : n <= b
    PROVE  \E m \in T : \A n \in T : n <= m
<1> DEFINE Bounds == {m \in Nat : \A n \in T : n <= m}
<1>1. PICK m \in Bounds : \A k \in Bounds : m <= k
  <2>1. b \in Bounds /\ Bounds \subseteq Nat
    OBVIOUS
  <2> HIDE DEF Bounds
  <2> QED
    BY <2>1, LeastNatural
<1>2. m \in T
  <2> SUFFICES ASSUME m \notin T
               PROVE  FALSE
    OBVIOUS
  <2>1. PICK t \in T : TRUE
    OBVIOUS
  <2>2. m \in Nat /\ t \in Nat /\ t < m
    BY <2>1
  <2>3. m - 1 \in Nat /\ \A n \in T : n <= m - 1
    BY <2>2
  <2>4. m - 1 \in Bounds
    BY <2>3
  <2> QED
    BY <1>1, <2>2, <2>4
<1> QED
  BY <1>2

\* So has a finite set of natural numbers.
LEMMA FiniteHasGreatest ==
    ASSUME NEW T, T \subseteq Nat, T # {}, IsFiniteSet(T)
    PROVE  \E m \in T : \A n \in T : n <= m
<1> DEFINE Bad == {k \in Nat : \E t \in SUBSET T : /\ t # {} /\ Cardinality(t) = k
                                                   /\ ~ \E m \in t : \A n \in t : n <= m}
<1>1. ASSUME NEW k \in Bad, \A j \in Bad : k <= j
      PROVE  FALSE
  <2>1. PICK t \in SUBSET T : /\ t # {} /\ Cardinality(t) = k
                              /\ ~ \E m \in t : \A n \in t : n <= m
    OBVIOUS
  <2>2. PICK x \in t : TRUE
    BY <2>1
  <2> DEFINE u == t \ {x}
  <2>3. IsFiniteSet(t)
    BY FS_Subset
  <2>4. Cardinality(u) = k - 1 /\ k - 1 \in Nat /\ u \in SUBSET T
    <3>1. IsFiniteSet(u) /\ Cardinality(u) = Cardinality(t) - 1
      BY <2>2, <2>3, FS_RemoveElement
    <3>2. Cardinality(u) \in Nat
      BY <3>1, FS_CardinalityType
    <3> QED
      BY <2>1, <3>1, <3>2
  <2>5. k - 1 \notin Bad
    <3>1. k \in Nat
      OBVIOUS
    <3> HIDE DEF Bad
    <3> QED
      BY <1>1, <2>4, <3>1
  <2>6. u # {} => \E m \in u : \A n \in u : n <= m
    <3> HIDE DEF u
    <3> QED
      BY <2>4, <2>5
  <2>7. CASE u = {}
    BY <2>1, <2>2, <2>7
  <2>8. CASE u # {}
    <3>1. PICK y \in u : \A n \in u : n <= y
      BY <2>6, <2>8
    <3>2. x \in Nat /\ y \in Nat /\ y \in t /\ \A n \in t : n \in Nat /\ (n = x \/ n <= y)
      BY <2>2, <3>1
    <3>3. CASE x <= y
      BY <2>1, <3>2, <3>3
    <3>4. CASE y <= x
      BY <2>1, <2>2, <3>2, <3>4
    <3> QED
      BY <3>2, <3>3, <3>4
  <2> QED
    BY <2>7, <2>8
<1>2. Bad = {}
  BY <1>1, LeastNatural
<1>3. Cardinality(T) \in Nat
  BY FS_CardinalityType
<1> QED
  BY <1>2, <1>3

-----------------------------------------------------------------------------
\* Part 1.  The fold exists and depends on the set alone.

Pick(s) == CHOOSE x \in s : TRUE

\* The equation that the fold's recursive function solves, on a family of sets.
Folds(g, family) ==
    g = [s \in family |-> IF s = {} THEN 0 ELSE Pick(s).amount + g[s \ {Pick(s)}]]

\* The subsets of set with at most n elements.
Level(set, n) == {s \in SUBSET set : Cardinality(s) <= n}

\* Taking the picked element out of a finite set leaves one element less.
LEMMA PickFacts ==
    ASSUME NEW s, IsFiniteSet(s), s # {}
    PROVE  /\ Pick(s) \in s
           /\ IsFiniteSet(s \ {Pick(s)})
           /\ Cardinality(s) \in Nat
           /\ Cardinality(s \ {Pick(s)}) = Cardinality(s) - 1
           /\ Cardinality(s \ {Pick(s)}) \in Nat
<1>1. Pick(s) \in s
  BY DEF Pick
<1> QED
  BY <1>1, FS_RemoveElement, FS_CardinalityType

\* Every level has a fold: the next one is built from the one below.
LEMMA FoldExists ==
    ASSUME NEW set, IsFiniteSet(set)
    PROVE  \E g : Folds(g, SUBSET set)
<1> DEFINE Bad == {n \in Nat : ~ \E g : Folds(g, Level(set, n))}
<1>1. \A s \in SUBSET set : IsFiniteSet(s) /\ Cardinality(s) \in Nat
                            /\ Cardinality(s) <= Cardinality(set)
  BY FS_Subset, FS_CardinalityType
<1>2. ASSUME NEW m \in Bad, \A n \in Bad : m <= n
      PROVE  FALSE
  <2>1. m # 0
    <3>1. SUFFICES ASSUME m = 0
                   PROVE  \E g : Folds(g, Level(set, m))
      OBVIOUS
    <3>2. \A s \in Level(set, m) : s = {}
      BY <1>1, <3>1, FS_EmptySet DEF Level
    <3>3. Folds([s \in Level(set, m) |-> 0], Level(set, m))
      BY <3>2 DEF Folds
    <3> QED
      BY <3>3
  <2>2. m - 1 \in Nat /\ m - 1 \notin Bad
    BY <1>2, <2>1
  <2>3. PICK g : Folds(g, Level(set, m - 1))
    BY <2>2
  <2> DEFINE h == [s \in Level(set, m) |->
                       IF s = {} THEN 0 ELSE Pick(s).amount + g[s \ {Pick(s)}]]
  <2>4. ASSUME NEW s \in Level(set, m), s # {}
        PROVE  s \ {Pick(s)} \in Level(set, m - 1) /\ s \ {Pick(s)} \in Level(set, m)
    <3>1. IsFiniteSet(s) /\ Cardinality(s) <= m /\ s \subseteq set
      BY <1>1 DEF Level
    <3>2. /\ Cardinality(s \ {Pick(s)}) = Cardinality(s) - 1
          /\ Cardinality(s) \in Nat
      BY <2>4, <3>1, PickFacts
    <3>3. Cardinality(s \ {Pick(s)}) <= m - 1 /\ Cardinality(s \ {Pick(s)}) <= m
      BY <2>2, <3>1, <3>2
    <3> QED
      BY <3>1, <3>3 DEF Level
  <2>5. ASSUME NEW t \in Level(set, m - 1), t \in Level(set, m)
        PROVE  h[t] = g[t]
    <3>1. g[t] = IF t = {} THEN 0 ELSE Pick(t).amount + g[t \ {Pick(t)}]
      BY <2>3 DEF Folds
    <3> QED
      BY <2>5, <3>1
  <2>6. \A s \in Level(set, m) : h[s] = IF s = {} THEN 0 ELSE Pick(s).amount + h[s \ {Pick(s)}]
    BY <2>4, <2>5
  <2>7. Folds(h, Level(set, m))
    BY <2>6 DEF Folds
  <2> QED
    BY <2>7
<1>3. Bad = {}
  BY <1>2, LeastNatural
<1>4. Cardinality(set) \in Nat
  BY FS_CardinalityType
<1>5. Level(set, Cardinality(set)) = SUBSET set
  BY <1>1 DEF Level
<1> QED
  BY <1>3, <1>4, <1>5

\* Two folds agree wherever both are defined.
LEMMA FoldUnique ==
    ASSUME NEW S, NEW T, IsFiniteSet(S), IsFiniteSet(T), NEW g, NEW h,
           Folds(g, SUBSET S), Folds(h, SUBSET T),
           NEW s, s \subseteq S, s \subseteq T
    PROVE  g[s] = h[s]
<1> DEFINE Bad == {n \in Nat : \E t \in SUBSET S : /\ t \subseteq T /\ Cardinality(t) = n
                                                   /\ g[t] # h[t]}
<1>1. ASSUME NEW m \in Bad, \A n \in Bad : m <= n
      PROVE  FALSE
  <2>1. PICK t \in SUBSET S : t \subseteq T /\ Cardinality(t) = m /\ g[t] # h[t]
    OBVIOUS
  <2>2. /\ g[t] = IF t = {} THEN 0 ELSE Pick(t).amount + g[t \ {Pick(t)}]
        /\ h[t] = IF t = {} THEN 0 ELSE Pick(t).amount + h[t \ {Pick(t)}]
    BY <2>1 DEF Folds
  <2>3. t # {}
    BY <2>1, <2>2
  <2>4. IsFiniteSet(t)
    BY FS_Subset
  <2>5. Cardinality(t \ {Pick(t)}) = m - 1 /\ m - 1 \in Nat
    BY <2>1, <2>3, <2>4, PickFacts
  <2>6. m - 1 \notin Bad
    BY <1>1, <2>5
  <2>7. g[t \ {Pick(t)}] = h[t \ {Pick(t)}]
    BY <2>1, <2>5, <2>6
  <2> QED
    BY <2>1, <2>2, <2>3, <2>7
<1>2. Bad = {}
  BY <1>1, LeastNatural
<1>3. Cardinality(s) \in Nat
  BY FS_Subset, FS_CardinalityType
<1> QED
  BY <1>2, <1>3

\* The sum is what the fold has for the whole set.
LEMMA SumIsFold ==
    ASSUME NEW set, IsFiniteSet(set)
    PROVE  \E g : Folds(g, SUBSET set) /\ SumOfAmounts(set) = g[set]
<1> DEFINE it == CHOOSE g : g = [s \in SUBSET set |->
                     IF s = {} THEN 0 ELSE Pick(s).amount + g[s \ {Pick(s)}]]
<1>1. \E g : g = [s \in SUBSET set |->
                     IF s = {} THEN 0 ELSE Pick(s).amount + g[s \ {Pick(s)}]]
  BY FoldExists DEF Folds
<1>2. Folds(it, SUBSET set)
  BY <1>1 DEF Folds
<1>3. SumOfAmounts(set) = it[set]
  BY DEF SumOfAmounts, MapThenSumSet, MapThenFoldSet, Pick
<1> QED
  BY <1>2, <1>3

-----------------------------------------------------------------------------
\* Part 2.  What sums do.

\* A finite set of rows with integer amounts.
Summable(rows) == IsFiniteSet(rows) /\ \A r \in rows : r.amount \in Int

\* The sum over no rows, and over the rows after the first.
LEMMA SumUnfolds ==
    ASSUME NEW S, IsFiniteSet(S)
    PROVE  SumOfAmounts(S) = IF S = {} THEN 0
                             ELSE Pick(S).amount + SumOfAmounts(S \ {Pick(S)})
<1>1. PICK g : Folds(g, SUBSET S) /\ SumOfAmounts(S) = g[S]
  BY SumIsFold
<1>2. g[S] = IF S = {} THEN 0 ELSE Pick(S).amount + g[S \ {Pick(S)}]
  BY <1>1 DEF Folds
<1>3. ASSUME S # {}
      PROVE  g[S \ {Pick(S)}] = SumOfAmounts(S \ {Pick(S)})
  <2> DEFINE T == S \ {Pick(S)}
  <2>1. IsFiniteSet(T) /\ T \subseteq S
    BY <1>3, PickFacts
  <2> HIDE DEF T
  <2>2. PICK h : Folds(h, SUBSET T) /\ SumOfAmounts(T) = h[T]
    BY <2>1, SumIsFold
  <2>3. g[T] = h[T]
    BY <1>1, <2>1, <2>2, FoldUnique
  <2> QED
    BY <2>2, <2>3 DEF T
<1> QED
  BY <1>1, <1>2, <1>3

\* A sum of integers is an integer.
LEMMA SumType ==
    ASSUME NEW S, Summable(S)
    PROVE  SumOfAmounts(S) \in Int
<1> DEFINE Bad == {n \in Nat : \E t \in SUBSET S : Cardinality(t) = n /\ SumOfAmounts(t) \notin Int}
<1>1. ASSUME NEW m \in Bad, \A n \in Bad : m <= n
      PROVE  FALSE
  <2>1. PICK t \in SUBSET S : Cardinality(t) = m /\ SumOfAmounts(t) \notin Int
    OBVIOUS
  <2>2. IsFiniteSet(t)
    BY FS_Subset DEF Summable
  <2>3. SumOfAmounts(t) = IF t = {} THEN 0 ELSE Pick(t).amount + SumOfAmounts(t \ {Pick(t)})
    BY <2>2, SumUnfolds
  <2>4. t # {}
    BY <2>1, <2>3
  <2>5. /\ Pick(t) \in t /\ Cardinality(t \ {Pick(t)}) = m - 1 /\ m - 1 \in Nat
    BY <2>1, <2>2, <2>4, PickFacts
  <2>6. m - 1 \notin Bad
    BY <1>1, <2>5
  <2>7. t \ {Pick(t)} \in SUBSET S
    OBVIOUS
  <2>8. SumOfAmounts(t \ {Pick(t)}) \in Int
    BY <2>5, <2>6, <2>7
  <2>9. Pick(t).amount \in Int
    BY <2>5 DEF Summable
  <2> QED
    BY <2>1, <2>3, <2>4, <2>8, <2>9
<1>2. Bad = {}
  BY <1>1, LeastNatural
<1>3. Cardinality(S) \in Nat
  BY FS_CardinalityType DEF Summable
<1> QED
  BY <1>2, <1>3

\* Any row may be taken first.
LEMMA SumRemove ==
    ASSUME NEW S, Summable(S), NEW x \in S
    PROVE  SumOfAmounts(S) = x.amount + SumOfAmounts(S \ {x})
<1> DEFINE Bad == {n \in Nat : \E t \in SUBSET S : \E y \in t :
                       Cardinality(t) = n /\ SumOfAmounts(t) # y.amount + SumOfAmounts(t \ {y})}
<1>1. \A t \in SUBSET S : Summable(t)
  BY FS_Subset DEF Summable
<1>2. ASSUME NEW m \in Bad, \A n \in Bad : m <= n
      PROVE  FALSE
  <2>0. PICK t \in SUBSET S : \E y \in t :
            Cardinality(t) = m /\ SumOfAmounts(t) # y.amount + SumOfAmounts(t \ {y})
    OBVIOUS
  <2>1. PICK y \in t : Cardinality(t) = m /\ SumOfAmounts(t) # y.amount + SumOfAmounts(t \ {y})
    BY <2>0
  <2> DEFINE p == Pick(t)
             u == (t \ {y}) \ {p}
  <2>2. IsFiniteSet(t) /\ t # {}
    BY <1>1, <2>1 DEF Summable
  <2>3. SumOfAmounts(t) = p.amount + SumOfAmounts(t \ {p})
    BY <2>2, SumUnfolds
  <2>4. y # p
    BY <2>1, <2>3
  <2>5. /\ p \in t /\ Cardinality(t \ {p}) = m - 1 /\ m - 1 \in Nat
    BY <2>1, <2>2, PickFacts
  <2>6. Cardinality(t \ {y}) = m - 1
    BY <2>1, <2>2, FS_RemoveElement
  <2>7. \A v \in SUBSET S : \A z \in v :
            Cardinality(v) = m - 1 => SumOfAmounts(v) = z.amount + SumOfAmounts(v \ {z})
    <3>1. m - 1 \notin Bad
      <4>1. m \in Nat
        OBVIOUS
      <4> HIDE DEF Bad
      <4> QED
        BY <1>2, <2>5, <4>1
    <3> QED
      BY <2>5, <3>1
  <2>8. t \ {p} \in SUBSET S /\ y \in t \ {p} /\ (t \ {p}) \ {y} = u
    BY <2>4
  <2>9. SumOfAmounts(t \ {p}) = y.amount + SumOfAmounts(u)
    <3> HIDE DEF p, u
    <3> QED
      BY <2>5, <2>7, <2>8
  <2>10. t \ {y} \in SUBSET S /\ p \in t \ {y}
    BY <2>4, <2>5
  <2>11. SumOfAmounts(t \ {y}) = p.amount + SumOfAmounts(u)
    <3>1. SumOfAmounts(t \ {y}) = p.amount + SumOfAmounts((t \ {y}) \ {p})
      <4> HIDE DEF p, u
      <4> QED
        BY <2>6, <2>7, <2>10
    <3> QED
      BY <3>1
  <2>12. p.amount \in Int /\ y.amount \in Int /\ SumOfAmounts(u) \in Int
    <3>1. p.amount \in Int /\ y.amount \in Int
      BY <2>5 DEF Summable
    <3>2. u \in SUBSET S
      OBVIOUS
    <3> QED
      BY <1>1, <3>1, <3>2, SumType
  <2> HIDE DEF p, u
  <2>13. SumOfAmounts(t) = y.amount + SumOfAmounts(t \ {y})
    BY <2>3, <2>9, <2>11, <2>12
  <2> QED
    BY <2>1, <2>13
<1>3. Bad = {}
  BY <1>2, LeastNatural
<1>4. Cardinality(S) \in Nat
  BY FS_CardinalityType DEF Summable
<1> QED
  BY <1>3, <1>4

\* A row that is inserted adds its amount.
LEMMA SumAdd ==
    ASSUME NEW S, Summable(S), NEW x, x \notin S, x.amount \in Int
    PROVE  /\ Summable(S \cup {x})
           /\ SumOfAmounts(S \cup {x}) = SumOfAmounts(S) + x.amount
<1>1. Summable(S \cup {x})
  BY FS_AddElement DEF Summable
<1>2. (S \cup {x}) \ {x} = S
  OBVIOUS
<1>3. SumOfAmounts(S \cup {x}) = x.amount + SumOfAmounts(S)
  BY <1>1, <1>2, SumRemove
<1> QED
  BY <1>1, <1>3, SumType

\* The sum over two disjoint sets.
LEMMA SumUnion ==
    ASSUME NEW S, NEW T, Summable(S), Summable(T), S \cap T = {}
    PROVE  /\ Summable(S \cup T)
           /\ SumOfAmounts(S \cup T) = SumOfAmounts(S) + SumOfAmounts(T)
<1> DEFINE Bad == {n \in Nat : \E t \in SUBSET T : /\ Cardinality(t) = n
                       /\ SumOfAmounts(S \cup t) # SumOfAmounts(S) + SumOfAmounts(t)}
<1>1. \A t \in SUBSET T : Summable(t) /\ Summable(S \cup t)
  BY FS_Subset, FS_Union DEF Summable
<1>2. ASSUME NEW m \in Bad, \A n \in Bad : m <= n
      PROVE  FALSE
  <2>1. PICK t \in SUBSET T : /\ Cardinality(t) = m
                              /\ SumOfAmounts(S \cup t) # SumOfAmounts(S) + SumOfAmounts(t)
    OBVIOUS
  <2>2. SumOfAmounts(S) \in Int
    BY SumType
  <2>3. t # {}
    <3>1. S \cup {} = S /\ SumOfAmounts({}) = 0
      BY FS_EmptySet, SumUnfolds
    <3> QED
      BY <2>1, <2>2, <3>1
  <2> DEFINE p == Pick(t)
             u == t \ {p}
  <2>4. /\ p \in t /\ Cardinality(u) = m - 1 /\ m - 1 \in Nat
    BY <1>1, <2>1, <2>3, PickFacts DEF Summable
  <2>5. u \in SUBSET T /\ m - 1 \notin Bad
    <3>1. m \in Nat /\ u \in SUBSET T
      OBVIOUS
    <3> HIDE DEF Bad
    <3> QED
      BY <1>2, <2>4, <3>1
  <2>6. SumOfAmounts(S \cup u) = SumOfAmounts(S) + SumOfAmounts(u)
    <3>1. \A v \in SUBSET T : Cardinality(v) = m - 1 =>
              SumOfAmounts(S \cup v) = SumOfAmounts(S) + SumOfAmounts(v)
      BY <2>4, <2>5
    <3> HIDE DEF u
    <3> QED
      BY <2>4, <2>5, <3>1
  <2>7. (S \cup t) \ {p} = S \cup u /\ p \in S \cup t
    BY <2>4
  <2>8. SumOfAmounts(S \cup t) = p.amount + SumOfAmounts(S \cup u)
    BY <1>1, <2>1, <2>7, SumRemove
  <2>9. SumOfAmounts(t) = p.amount + SumOfAmounts(u)
    BY <1>1, <2>1, <2>4, SumRemove
  <2>10. p.amount \in Int /\ SumOfAmounts(u) \in Int
    BY <1>1, <2>4, <2>5, SumType DEF Summable
  <2> HIDE DEF p, u
  <2>11. SumOfAmounts(S \cup t) = SumOfAmounts(S) + SumOfAmounts(t)
    BY <2>2, <2>6, <2>8, <2>9, <2>10
  <2> QED
    BY <2>1, <2>11
<1>3. Bad = {}
  BY <1>2, LeastNatural
<1>4. Cardinality(T) \in Nat
  BY FS_CardinalityType DEF Summable
<1> QED
  BY <1>1, <1>3, <1>4

-----------------------------------------------------------------------------
\* Part 3.  Sums of amounts that are not negative.

Credits(rows) == IsFiniteSet(rows) /\ \A r \in rows : r.amount \in Nat

\* Such a sum is not negative.
LEMMA CreditsType ==
    ASSUME NEW S, Credits(S)
    PROVE  Summable(S) /\ SumOfAmounts(S) \in Nat
<1> DEFINE Bad == {n \in Nat : \E t \in SUBSET S : Cardinality(t) = n /\ SumOfAmounts(t) \notin Nat}
<1>1. ASSUME NEW m \in Bad, \A n \in Bad : m <= n
      PROVE  FALSE
  <2>1. PICK t \in SUBSET S : Cardinality(t) = m /\ SumOfAmounts(t) \notin Nat
    OBVIOUS
  <2>2. IsFiniteSet(t)
    BY FS_Subset DEF Credits
  <2>3. SumOfAmounts(t) = IF t = {} THEN 0 ELSE Pick(t).amount + SumOfAmounts(t \ {Pick(t)})
    BY <2>2, SumUnfolds
  <2>4. t # {}
    BY <2>1, <2>3
  <2>5. /\ Pick(t) \in t /\ Cardinality(t \ {Pick(t)}) = m - 1 /\ m - 1 \in Nat
    BY <2>1, <2>2, <2>4, PickFacts
  <2>6. m - 1 \notin Bad
    BY <1>1, <2>5
  <2>7. t \ {Pick(t)} \in SUBSET S
    OBVIOUS
  <2>8. SumOfAmounts(t \ {Pick(t)}) \in Nat
    BY <2>5, <2>6, <2>7
  <2>9. Pick(t).amount \in Nat
    BY <2>5 DEF Credits
  <2> QED
    BY <2>1, <2>3, <2>4, <2>8, <2>9
<1>2. Bad = {}
  BY <1>1, LeastNatural
<1>3. Cardinality(S) \in Nat /\ Summable(S)
  BY FS_CardinalityType DEF Credits, Summable
<1> QED
  BY <1>2, <1>3

\* It does not grow when rows are left out.
LEMMA CreditsMonotone ==
    ASSUME NEW S, NEW T, Credits(T), S \subseteq T
    PROVE  Credits(S) /\ SumOfAmounts(S) \in Nat /\ SumOfAmounts(S) <= SumOfAmounts(T)
<1> DEFINE U == T \ S
<1>1. Credits(S) /\ Credits(U)
  BY FS_Subset DEF Credits
<1>2. S \cap U = {} /\ S \cup U = T
  OBVIOUS
<1> HIDE DEF U
<1>3. /\ Summable(S) /\ SumOfAmounts(S) \in Nat
      /\ Summable(U) /\ SumOfAmounts(U) \in Nat
  BY <1>1, CreditsType
<1>4. SumOfAmounts(T) = SumOfAmounts(S) + SumOfAmounts(U)
  BY <1>2, <1>3, SumUnion
<1> QED
  BY <1>1, <1>3, <1>4

\* A row adds at most its amount, and nothing if it is there already.
LEMMA CreditsAdd ==
    ASSUME NEW S, Credits(S), NEW x, x.amount \in Nat
    PROVE  /\ Credits(S \cup {x})
           /\ SumOfAmounts(S \cup {x}) \in Nat
           /\ SumOfAmounts(S \cup {x}) <= SumOfAmounts(S) + x.amount
<1>1. Credits(S \cup {x})
  BY FS_AddElement DEF Credits
<1>2. /\ Summable(S) /\ SumOfAmounts(S) \in Nat
      /\ SumOfAmounts(S \cup {x}) \in Nat
  BY <1>1, CreditsType
<1>3. CASE x \in S
  <2>1. S \cup {x} = S
    BY <1>3
  <2>2. SumOfAmounts(S \cup {x}) = SumOfAmounts(S)
    BY <2>1, Zenon
  <2> QED
    BY <1>1, <1>2, <2>2
<1>4. CASE x \notin S
  <2>1. x.amount \in Int
    OBVIOUS
  <2>2. SumOfAmounts(S \cup {x}) = SumOfAmounts(S) + x.amount
    BY <1>2, <1>4, <2>1, SumAdd
  <2> QED
    BY <1>1, <1>2, <2>2
<1> QED
  BY <1>3, <1>4

\* n rows of at most m sum to at most n * m.
LEMMA CreditsBounded ==
    ASSUME NEW S, Credits(S), NEW m \in Nat, \A r \in S : r.amount <= m,
           NEW n \in Nat, Cardinality(S) <= n
    PROVE  SumOfAmounts(S) <= n * m
<1> DEFINE Bad == {k \in Nat : \E t \in SUBSET S : Cardinality(t) = k /\ ~(SumOfAmounts(t) <= k * m)}
<1>1. ASSUME NEW k \in Bad, \A j \in Bad : k <= j
      PROVE  FALSE
  <2>1. PICK t \in SUBSET S : Cardinality(t) = k /\ ~(SumOfAmounts(t) <= k * m)
    OBVIOUS
  <2>2. IsFiniteSet(t)
    BY FS_Subset DEF Credits
  <2>3. SumOfAmounts(t) = IF t = {} THEN 0 ELSE Pick(t).amount + SumOfAmounts(t \ {Pick(t)})
    BY <2>2, SumUnfolds
  <2>4. t # {}
    <3> SUFFICES ASSUME t = {}
                 PROVE  FALSE
      OBVIOUS
    <3>1. k = 0 /\ SumOfAmounts(t) = 0
      BY <2>1, <2>3, FS_EmptySet
    <3> QED
      BY <2>1, <3>1
  <2> DEFINE u == t \ {Pick(t)}
  <2>5. /\ Pick(t) \in t /\ Cardinality(u) = k - 1 /\ k - 1 \in Nat /\ u \in SUBSET S
    BY <2>1, <2>2, <2>4, PickFacts
  <2>6. k - 1 \notin Bad
    <3>1. k \in Nat
      OBVIOUS
    <3> HIDE DEF Bad
    <3> QED
      BY <1>1, <2>5, <3>1
  <2>7. SumOfAmounts(u) <= (k - 1) * m
    <3> HIDE DEF u
    <3> QED
      BY <2>5, <2>6
  <2>8. Pick(t).amount \in Nat /\ Pick(t).amount <= m
    BY <2>5 DEF Credits
  <2>9. SumOfAmounts(u) \in Nat
    <3>1. Credits(u)
      BY <2>5, FS_Subset DEF Credits
    <3> QED
      BY <3>1, CreditsType
  <2> HIDE DEF u
  <2>10. k \in Nat /\ k * m = (k - 1) * m + m
    OBVIOUS
  <2>11. SumOfAmounts(t) = Pick(t).amount + SumOfAmounts(u)
    BY <2>3, <2>4 DEF u
  <2>12. (k - 1) * m \in Int /\ k * m \in Int
    BY <2>10
  <2>13. SumOfAmounts(t) <= k * m
    <3> DEFINE a == (k - 1) * m
               b == k * m
    <3>1. a \in Int /\ b \in Int /\ b = a + m /\ SumOfAmounts(u) <= a
      BY <2>7, <2>10, <2>12
    <3> HIDE DEF a, b
    <3>2. SumOfAmounts(t) <= b
      BY <2>8, <2>9, <2>11, <3>1
    <3> QED
      BY <3>2 DEF b
  <2> QED
    BY <2>1, <2>13
<1>2. Bad = {}
  BY <1>1, LeastNatural
<1>3. Cardinality(S) \in Nat
  BY FS_CardinalityType DEF Credits
<1>4. SumOfAmounts(S) <= Cardinality(S) * m
  BY <1>2, <1>3
<1>5. SumOfAmounts(S) \in Nat
  BY CreditsType
<1>6. \A k \in Nat : k <= n => k * m <= n * m
  OBVIOUS
<1> DEFINE c == Cardinality(S)
<1>7. c * m <= n * m /\ c * m \in Int /\ n * m \in Int
  BY <1>3, <1>6
<1> QED
  BY <1>4, <1>5, <1>7
=============================================================================
