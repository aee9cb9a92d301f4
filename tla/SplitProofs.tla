---------------------------- MODULE SplitProofs ----------------------------
(***************************************************************************)
(* What the operators of AbSplit compute, for any number of contacts and   *)
(* variants and any percentages.                                           *)
(*                                                                         *)
(* Total is a fold with CHOOSE; IsSum says that the sum is the same in     *)
(* whichever order it is taken, and the rest uses IsSum only.  No lemma    *)
(* may quantify over a predicate, so induction over a finite set is stated *)
(* with the set F of the subsets that have the property (SubsetInduction). *)
(***************************************************************************)
EXTENDS AbSplit, FiniteSetTheorems, WellFoundedInduction, TLAPS

LEMMA LeastOf ==
  ASSUME NEW S, S \subseteq Nat, S # {}
  PROVE  \E m \in S : \A x \in S : m <= x
<1> DEFINE R == OpToRel(<, Nat)
<1>1. IsWellFoundedOn(R, Nat)
  BY NatLessThanWellFounded
<1>2. R = {p \in Nat \X Nat : p[1] < p[2]}
  BY DEF OpToRel
<1> HIDE DEF R
<1>3. PICK m \in S : \A x \in S : ~ (<<x, m>> \in R)
  BY <1>1, WFMin
<1>4. ASSUME NEW x \in S PROVE m <= x
  <2>1. x \in Nat /\ m \in Nat /\ <<x, m>> \in Nat \X Nat /\ <<x, m>>[1] = x /\ <<x, m>>[2] = m
    OBVIOUS
  <2> QED
    BY <1>2, <1>3, <2>1
<1> QED
  BY <1>4

-----------------------------------------------------------------------------
(* Sums.  Total adds up a function by taking out one element after the     *)
(* other, so it is g[DOMAIN f] for the g that does so for every subset.    *)

(* g adds up f over the subsets of D, whichever element is taken first.    *)
IsSum(g, f, D) ==
  /\ g \in [SUBSET D -> Nat] /\ g[{}] = 0
  /\ \A s \in SUBSET D : \A i \in s : g[s] = f[i] + g[s \ {i}]

LEMMA SubsetInduction ==
  ASSUME NEW D, IsFiniteSet(D), NEW F, {} \in F,
         \A s \in SUBSET D : s # {} /\ (\A i \in s : s \ {i} \in F) => s \in F
  PROVE  \A s \in SUBSET D : s \in F
<1> SUFFICES ASSUME NEW t \in SUBSET D, t \notin F PROVE FALSE
  OBVIOUS
<1> DEFINE Sizes == {k \in Nat : \E s \in SUBSET D : s \notin F /\ Cardinality(s) = k}
<1>1. \A s \in SUBSET D : IsFiniteSet(s) /\ Cardinality(s) \in Nat
  BY FS_Subset, FS_CardinalityType
<1>2. Sizes # {} /\ Sizes \subseteq Nat
  BY <1>1
<1>3. PICK m \in Sizes : \A k \in Sizes : m <= k
  BY <1>2, LeastOf
<1>4. PICK s \in SUBSET D : s \notin F /\ Cardinality(s) = m
  BY <1>3
<1>5. s # {}
  BY <1>4
<1>6. PICK i \in s : s \ {i} \notin F
  BY <1>4, <1>5
<1>7. Cardinality(s \ {i}) = m - 1 /\ Cardinality(s \ {i}) \in Nat
  <2>1. IsFiniteSet(s) /\ s \ {i} \in SUBSET D
    BY <1>1
  <2> QED
    BY <1>1, <1>4, <2>1, FS_RemoveElement
<1>8. Cardinality(s \ {i}) \in Sizes
  BY <1>6, <1>7
<1> HIDE DEF Sizes
<1> QED
  BY <1>2, <1>3, <1>7, <1>8

LEMMA SumExists ==
  ASSUME NEW D, IsFiniteSet(D), NEW f \in [D -> Nat]
  PROVE  \E g : IsSum(g, f, D)
<1> DEFINE F == {s \in SUBSET D : \E g : IsSum(g, f, s)}
<1>1. {} \in F
  <2>1. IsSum([s \in SUBSET {} |-> 0], f, {})
    BY DEF IsSum
  <2> QED
    BY <2>1
<1>2. ASSUME NEW s \in SUBSET D, NEW i \in s, s \ {i} \in F PROVE s \in F
  <2>1. PICK h : IsSum(h, f, s \ {i})
    BY <1>2
  <2> DEFINE g == [t \in SUBSET s |-> IF i \in t THEN f[i] + h[t \ {i}] ELSE h[t]]
  <2>2. \A t \in SUBSET s : t \ {i} \in SUBSET (s \ {i}) /\ h[t \ {i}] \in Nat
    BY <2>1 DEF IsSum
  <2>3. \A t \in SUBSET s : i \notin t => t \in SUBSET (s \ {i}) /\ h[t] \in Nat
    BY <2>1 DEF IsSum
  <2>4. f[i] \in Nat
    OBVIOUS
  <2>5. g \in [SUBSET s -> Nat]
    BY <2>2, <2>3, <2>4
  <2>6. g[{}] = 0
    BY <2>1 DEF IsSum
  <2>7. ASSUME NEW t \in SUBSET s, NEW j \in t PROVE g[t] = f[j] + g[t \ {j}]
    <3>1. CASE j = i
      BY <3>1
    <3>2. CASE j # i /\ i \notin t
      <4>1. h[t] = f[j] + h[t \ {j}]
        BY <2>1, <2>3, <3>2 DEF IsSum
      <4> QED
        BY <4>1, <3>2
    <3>3. CASE j # i /\ i \in t
      <4>1. h[t \ {i}] = f[j] + h[(t \ {i}) \ {j}]
        BY <2>1, <2>2, <3>3 DEF IsSum
      <4>2. (t \ {i}) \ {j} = (t \ {j}) \ {i} /\ t \ {j} \in SUBSET s
        OBVIOUS
      <4>3. g[t] = f[i] + h[t \ {i}] /\ g[t \ {j}] = f[i] + h[(t \ {j}) \ {i}]
        BY <3>3, <4>2
      <4>4. f[i] \in Nat /\ f[j] \in Nat /\ h[(t \ {j}) \ {i}] \in Nat
        BY <2>2, <4>2
      <4> DEFINE rest == h[(t \ {j}) \ {i}]
      <4>5. h[t \ {i}] = f[j] + rest
        BY <4>1, <4>2
      <4>6. g[t] = f[i] + (f[j] + rest) /\ g[t \ {j}] = f[i] + rest /\ rest \in Nat
        BY <4>3, <4>4, <4>5
      <4> HIDE DEF g, rest
      <4> QED
        BY <4>4, <4>6
    <3> QED
      BY <3>1, <3>2, <3>3
  <2>8. IsSum(g, f, s)
    <3> HIDE DEF g
    <3> QED
      BY <2>5, <2>6, <2>7 DEF IsSum
  <2> QED
    BY <2>8
<1> HIDE DEF F
<1>3. \A s \in SUBSET D : s # {} /\ (\A i \in s : s \ {i} \in F) => s \in F
  BY <1>2
<1>4. D \in F
  BY <1>1, <1>3, SubsetInduction
<1> QED
  BY <1>4 DEF F

(* What Total computes is the sum, whichever elements CHOOSE picks.        *)
LEMMA TotalIsSum ==
  ASSUME NEW D, IsFiniteSet(D), NEW f, DOMAIN f = D, NEW g, IsSum(g, f, D)
  PROVE  Total(f) = g[D]
<1> DEFINE Unfolds(h) ==
      h = [s \in SUBSET DOMAIN f |-> IF s = {} THEN 0
                                     ELSE f[CHOOSE i \in s : TRUE] + h[s \ {CHOOSE i \in s : TRUE}]]
           iter == CHOOSE h : Unfolds(h)
<1>1. Total(f) = iter[DOMAIN f]
  BY DEF Total, MapThenFoldSet
<1>2. ASSUME NEW s \in SUBSET D, s # {} PROVE (CHOOSE i \in s : TRUE) \in s
  BY <1>2
<1>3. Unfolds(g)
  <2>1. \A s \in SUBSET D : g[s] = IF s = {} THEN 0
                 ELSE f[CHOOSE i \in s : TRUE] + g[s \ {CHOOSE i \in s : TRUE}]
    BY <1>2 DEF IsSum
  <2>2. g = [s \in SUBSET D |-> g[s]]
    BY DEF IsSum
  <2> QED
    BY <2>1, <2>2
<1>4. Unfolds(iter)
  <2> HIDE DEF Unfolds
  <2> QED
    BY <1>3
<1> HIDE DEF iter
<1> DEFINE F == {s \in SUBSET D : iter[s] = g[s]}
<1>5. {} \in F
  BY <1>4 DEF IsSum
<1>6. ASSUME NEW s \in SUBSET D, s # {}, \A i \in s : s \ {i} \in F PROVE s \in F
  <2> DEFINE j == CHOOSE i \in s : TRUE
  <2>1. j \in s
    BY <1>2, <1>6
  <2>2. iter[s] = f[j] + iter[s \ {j}]
    BY <1>4, <1>6
  <2> HIDE DEF j
  <2> QED
    BY <2>1, <2>2, <1>6 DEF IsSum
<1>7. \A s \in SUBSET D : s # {} /\ (\A i \in s : s \ {i} \in F) => s \in F
  BY <1>6
<1>8. D \in F
  <2> HIDE DEF F
  <2> QED
    BY ONLY IsFiniteSet(D), <1>5, <1>7, SubsetInduction
<1> QED
  BY <1>1, <1>8

(* A part of the sum is what Total gives for the function's part.          *)
LEMMA SumOfPart ==
  ASSUME NEW D, IsFiniteSet(D), NEW f \in [D -> Nat], NEW g, IsSum(g, f, D),
         NEW E \in SUBSET D
  PROVE  Total([j \in E |-> f[j]]) = g[E]
<1> DEFINE k == [j \in E |-> f[j]]
           h == [s \in SUBSET E |-> g[s]]
<1>1. IsFiniteSet(E)
  BY FS_Subset
<1>2. h \in [SUBSET E -> Nat] /\ h[{}] = 0
  BY DEF IsSum
<1>3. ASSUME NEW s \in SUBSET E, NEW i \in s PROVE h[s] = k[i] + h[s \ {i}]
  <2>1. s \in SUBSET D /\ s \ {i} \in SUBSET E /\ i \in E
    OBVIOUS
  <2>2. g[s] = f[i] + g[s \ {i}]
    BY <2>1 DEF IsSum
  <2> QED
    BY <2>1, <2>2
<1>4. IsSum(h, k, E)
  <2> HIDE DEF h, k
  <2> QED
    BY <1>2, <1>3 DEF IsSum
<1>5. DOMAIN k = E
  OBVIOUS
<1>6. Total(k) = h[E]
  <2> HIDE DEF h, k
  <2> QED
    BY <1>1, <1>4, <1>5, TotalIsSum
<1> QED
  BY <1>6

LEMMA SumTypes ==
  ASSUME NEW D, NEW f, NEW g, IsSum(g, f, D)
  PROVE  \A s \in SUBSET D : g[s] \in Nat
BY DEF IsSum

LEMMA SumMonotone ==
  ASSUME NEW D, IsFiniteSet(D), NEW f \in [D -> Nat], NEW e \in [D -> Nat],
         NEW g, IsSum(g, f, D), NEW h, IsSum(h, e, D), \A i \in D : f[i] <= e[i]
  PROVE  \A s \in SUBSET D : g[s] <= h[s]
<1> DEFINE F == {s \in SUBSET D : g[s] <= h[s]}
<1>1. {} \in F
  BY DEF IsSum
<1>2. ASSUME NEW s \in SUBSET D, s # {}, \A i \in s : s \ {i} \in F PROVE s \in F
  <2>1. PICK i \in s : TRUE
    BY <1>2
  <2>2. g[s] = f[i] + g[s \ {i}] /\ h[s] = e[i] + h[s \ {i}]
    BY <2>1 DEF IsSum
  <2>3. i \in D /\ s \ {i} \in SUBSET D /\ f[i] <= e[i] /\ g[s \ {i}] <= h[s \ {i}]
    BY <1>2, <2>1
  <2>4. f[i] \in Nat /\ e[i] \in Nat /\ g[s \ {i}] \in Nat /\ h[s \ {i}] \in Nat
    BY <2>3, SumTypes
  <2>5. g[s] <= h[s]
    BY <2>2, <2>3, <2>4
  <2> QED
    BY <2>5
<1>3. \A s \in SUBSET D : s # {} /\ (\A i \in s : s \ {i} \in F) => s \in F
  BY <1>2
<1>4. \A s \in SUBSET D : s \in F
  <2> HIDE DEF F
  <2> QED
    BY ONLY IsFiniteSet(D), <1>1, <1>3, SubsetInduction
<1> QED
  BY <1>4

LEMMA SumUnique ==
  ASSUME NEW D, IsFiniteSet(D), NEW f \in [D -> Nat], NEW g, IsSum(g, f, D), NEW h, IsSum(h, f, D)
  PROVE  \A s \in SUBSET D : g[s] = h[s]
<1>1. \A s \in SUBSET D : g[s] <= h[s] /\ h[s] <= g[s]
  <2>1. \A i \in D : f[i] <= f[i]
    OBVIOUS
  <2> QED
    BY <2>1, SumMonotone
<1> QED
  BY <1>1, SumTypes

LEMMA Multiples ==
  ASSUME NEW a \in Nat, NEW b \in Nat, NEW c \in Nat
  PROVE  a * b \in Nat /\ a * (b + c) = a * b + a * c
OBVIOUS

LEMMA SumLinear ==
  ASSUME NEW D, IsFiniteSet(D), NEW f \in [D -> Nat], NEW e \in [D -> Nat], NEW k \in [D -> Nat],
         NEW g, IsSum(g, f, D), NEW h, IsSum(h, e, D),
         NEW m, IsSum(m, k, D), NEW a \in Nat, \A i \in D : k[i] = a * f[i] + e[i]
  PROVE  m[D] = a * g[D] + h[D]
<1> DEFINE l == [s \in SUBSET D |-> a * g[s] + h[s]]
<1>1. l \in [SUBSET D -> Nat]
  BY SumTypes, Multiples
<1>2. l[{}] = 0
  BY DEF IsSum
<1>3. ASSUME NEW s \in SUBSET D, NEW i \in s PROVE l[s] = k[i] + l[s \ {i}]
  <2> DEFINE x == g[s \ {i}]
             y == h[s \ {i}]
  <2>1. s \ {i} \in SUBSET D /\ i \in D
    OBVIOUS
  <2>2. g[s] = f[i] + x /\ h[s] = e[i] + y
    BY DEF IsSum
  <2>3. x \in Nat /\ y \in Nat /\ f[i] \in Nat /\ e[i] \in Nat /\ k[i] = a * f[i] + e[i]
    BY <2>1, SumTypes
  <2>4. l[s] = a * g[s] + h[s] /\ l[s \ {i}] = a * x + y
    BY <2>1
  <2> HIDE DEF l, x, y
  <2>5. a * (f[i] + x) = a * f[i] + a * x /\ a * f[i] \in Nat /\ a * x \in Nat
    BY <2>3, Multiples
  <2> QED
    BY <2>2, <2>3, <2>4, <2>5
<1> HIDE DEF l
<1>4. IsSum(l, k, D)
  BY <1>1, <1>2, <1>3 DEF IsSum
<1>5. m[D] = l[D]
  BY <1>4, SumUnique
<1> QED
  BY <1>5 DEF l

LEMMA SumCounts ==
  ASSUME NEW D, IsFiniteSet(D), NEW A \in SUBSET D, NEW f \in [D -> Nat],
         \A i \in D : f[i] = IF i \in A THEN 1 ELSE 0, NEW m, IsSum(m, f, D)
  PROVE  m[D] = Cardinality(A)
<1> DEFINE l == [s \in SUBSET D |-> Cardinality(s \cap A)]
<1>1. \A s \in SUBSET D : IsFiniteSet(s \cap A) /\ Cardinality(s \cap A) \in Nat
  BY FS_Subset, FS_Intersection, FS_CardinalityType
<1>2. l \in [SUBSET D -> Nat]
  BY <1>1
<1>3. l[{}] = 0
  <2>1. {} \cap A = {}
    OBVIOUS
  <2> QED
    BY <2>1, FS_EmptySet
<1>4. ASSUME NEW s \in SUBSET D, NEW i \in s PROVE l[s] = f[i] + l[s \ {i}]
  <2>1. (s \ {i}) \cap A = (s \cap A) \ {i} /\ s \ {i} \in SUBSET D /\ i \in D
    OBVIOUS
  <2>2. Cardinality((s \cap A) \ {i}) = IF i \in s \cap A THEN Cardinality(s \cap A) - 1
                                        ELSE Cardinality(s \cap A)
    BY <1>1, FS_RemoveElement
  <2>3. l[s] = Cardinality(s \cap A) /\ l[s \ {i}] = Cardinality((s \cap A) \ {i})
    BY <2>1
  <2> HIDE DEF l
  <2> QED
    BY <1>1, <2>1, <2>2, <2>3
<1> HIDE DEF l
<1>5. IsSum(l, f, D)
  BY <1>2, <1>3, <1>4 DEF IsSum
<1>6. m[D] = l[D]
  BY <1>5, SumUnique
<1>7. D \cap A = A
  OBVIOUS
<1> QED
  BY <1>6, <1>7 DEF l

LEMMA SumScaled ==
  ASSUME NEW D, IsFiniteSet(D), NEW f \in [D -> Nat], NEW g, IsSum(g, f, D),
         NEW k \in [D -> Nat], NEW m, IsSum(m, k, D),
         NEW a \in Nat, \A i \in D : k[i] = a * f[i]
  PROVE  m[D] = a * g[D]
<1>1. PICK zero \in [D -> Nat] : \A i \in D : zero[i] = 0
  <2>1. [i \in D |-> 0] \in [D -> Nat] /\ \A i \in D : [j \in D |-> 0][i] = 0
    OBVIOUS
  <2> QED
    BY <2>1
<1>2. PICK h : IsSum(h, zero, D)
  BY SumExists
<1>3. h[D] = 0
  <2>1. {} \in SUBSET D /\ \A i \in D : zero[i] = IF i \in {} THEN 1 ELSE 0
    BY <1>1
  <2>2. h[D] = Cardinality({})
    BY <1>2, <2>1, SumCounts
  <2> QED
    BY <2>2, FS_EmptySet
<1>4. \A i \in D : k[i] = a * f[i] + zero[i]
  <2>1. \A i \in D : a * f[i] \in Nat
    BY Multiples
  <2> QED
    BY <1>1, <2>1
<1>5. m[D] = a * g[D] + h[D]
  BY ONLY IsFiniteSet(D), f \in [D -> Nat], IsSum(g, f, D), k \in [D -> Nat], IsSum(m, k, D),
          a \in Nat, zero \in [D -> Nat], <1>2, <1>4, SumLinear
<1>6. a * g[D] \in Nat
  BY SumTypes, Multiples
<1> QED
  BY <1>3, <1>5, <1>6

-----------------------------------------------------------------------------
(* Ranks.  In a strict total order of a finite set, exactly r elements     *)
(* have fewer than r before them.                                          *)
LEMMA FirstOnes ==
  ASSUME NEW D, IsFiniteSet(D), NEW before \in [D -> SUBSET D],
         \A i \in D : i \notin before[i],
         \A i, j \in D : j \in before[i] => before[j] \subseteq before[i],
         \A i, j \in D : i # j => i \in before[j] \/ j \in before[i],
         NEW r \in 0 .. Cardinality(D)
  PROVE  Cardinality({i \in D : Cardinality(before[i]) < r}) = r
<1> DEFINE rank == [i \in D |-> Cardinality(before[i])]
           n == Cardinality(D)
           first == {i \in D : rank[i] < r}
<1>1. n \in Nat
  BY FS_CardinalityType
<1>2. \A i \in D : IsFiniteSet(before[i]) /\ rank[i] \in Nat
  BY FS_Subset, FS_CardinalityType
<1>3. \A i \in D : rank[i] \in 0 .. n - 1
  <2> SUFFICES ASSUME NEW i \in D PROVE rank[i] \in 0 .. n - 1
    OBVIOUS
  <2>1. before[i] \in SUBSET (D \ {i})
    OBVIOUS
  <2>2. IsFiniteSet(D \ {i}) /\ Cardinality(D \ {i}) = n - 1
    BY FS_RemoveElement
  <2>3. Cardinality(before[i]) <= n - 1
    BY <2>1, <2>2, FS_Subset
  <2> QED
    BY <1>1, <1>2, <2>3
<1>4. \A i, j \in D : i \in before[j] => rank[i] < rank[j]
  <2> SUFFICES ASSUME NEW i \in D, NEW j \in D, i \in before[j] PROVE rank[i] < rank[j]
    OBVIOUS
  <2>1. before[i] \in SUBSET (before[j] \ {i})
    OBVIOUS
  <2>2. IsFiniteSet(before[j] \ {i}) /\ Cardinality(before[j] \ {i}) = rank[j] - 1
    BY <1>2, FS_RemoveElement
  <2>3. Cardinality(before[i]) <= rank[j] - 1
    BY <2>1, <2>2, FS_Subset
  <2> QED
    BY <1>2, <2>3
<1>5. \A i, j \in D : rank[i] = rank[j] => i = j
  <2> HIDE DEF rank
  <2> QED
    BY <1>2, <1>4
<1>6. rank \in Injection(D, 0 .. n - 1)
  BY <1>3, <1>5 DEF Injection, IsInjective
<1>7. IsFiniteSet(0 .. n - 1) /\ Cardinality(0 .. n - 1) = n
  <2> HIDE DEF n
  <2> QED
    BY <1>1, FS_Interval
<1>8. rank \in Surjection(D, 0 .. n - 1)
  <2> HIDE DEF rank
  <2> QED
    BY <1>6, <1>7, FS_Injection
<1>9. r \in Nat /\ r <= n
  BY <1>1
<1> DEFINE low == [i \in first |-> rank[i]]
<1>10. low \in Injection(first, 0 .. r - 1)
  <2>1. \A i \in first : rank[i] \in 0 .. r - 1
    BY <1>2, <1>9
  <2> HIDE DEF rank
  <2> QED
    BY <1>5, <2>1 DEF Injection, IsInjective
<1>11. low \in Surjection(first, 0 .. r - 1)
  <2>1. ASSUME NEW k \in 0 .. r - 1 PROVE \E i \in first : low[i] = k
    <3>1. k \in 0 .. n - 1 /\ k < r
      BY <1>1, <1>9
    <3>2. PICK i \in D : rank[i] = k
      BY <1>8, <3>1 DEF Surjection
    <3> HIDE DEF rank
    <3> QED
      BY <3>1, <3>2
  <2> QED
    BY <1>10, <2>1 DEF Injection, Surjection
<1>12. IsFiniteSet(0 .. r - 1) /\ Cardinality(0 .. r - 1) = r
  BY <1>9, FS_Interval
<1>13. Cardinality(first) = r
  <2> HIDE DEF first, low
  <2> QED
    BY <1>10, <1>11, <1>12, FS_Injection
<1> QED
  BY <1>13

-----------------------------------------------------------------------------
(* The largest remainder.                                                  *)
LEMMA Cancels ==
  ASSUME NEW a \in Nat \ {0}, NEW b \in Int, NEW c \in Int
  PROVE  /\ a * b <= a * c => b <= c
         /\ a * b < a * c => b < c
         /\ a * b = a * c => b = c
<1>1. b > c => a * b > a * c
  OBVIOUS
<1>2. b < c => a * b < a * c
  OBVIOUS
<1>3. b = c => a * b = a * c
  OBVIOUS
<1>4. a * b \in Int /\ a * c \in Int
  OBVIOUS
<1> QED
  BY <1>1, <1>2, <1>3, <1>4

LEMMA Division ==
  ASSUME NEW a \in Nat, NEW b \in Nat \ {0}
  PROVE  /\ a \div b \in Nat /\ a % b \in Nat /\ a % b < b
         /\ a = b * (a \div b) + (a % b)
OBVIOUS

(* T * floor is the largest multiple of T in the quota.                    *)
Divided(D, T, n, weights, floor, frac) ==
  /\ weights \in [D -> Nat] /\ floor \in [D -> Nat] /\ frac \in [D -> Nat]
  /\ \A i \in D : frac[i] < T /\ n * weights[i] = T * floor[i] + frac[i]

(* What the floors leave over goes round at most once, over the quotas     *)
(* that were cut.                                                          *)
LEMMA LeftOver ==
  ASSUME NEW D, IsFiniteSet(D), NEW T \in Nat \ {0}, NEW n \in Nat,
         NEW weights, NEW floor, NEW frac, Divided(D, T, n, weights, floor, frac),
         NEW gs, IsSum(gs, weights, D), gs[D] = T, NEW gf, IsSum(gf, floor, D),
         NEW P \in SUBSET D, \A i \in D : i \in P <=> frac[i] > 0
  PROVE  n - gf[D] \in Nat /\ n - gf[D] <= Cardinality(P)
<1> DEFINE R == n - gf[D]
<1>0. /\ weights \in [D -> Nat] /\ floor \in [D -> Nat] /\ frac \in [D -> Nat]
      /\ \A i \in D : frac[i] < T /\ n * weights[i] = T * floor[i] + frac[i]
  BY DEF Divided
<1>1. PICK gr : IsSum(gr, frac, D)
  BY <1>0, SumExists
<1>2. gf[D] \in Nat /\ gr[D] \in Nat
  BY <1>0, <1>1, SumTypes
<1>5. PICK quota \in [D -> Nat] : \A i \in D : quota[i] = n * weights[i]
  <2>1. \A i \in D : n * weights[i] \in Nat
    BY <1>0, Multiples
  <2>2. /\ [i \in D |-> n * weights[i]] \in [D -> Nat]
        /\ \A i \in D : [j \in D |-> n * weights[j]][i] = n * weights[i]
    BY <2>1
  <2> QED
    BY <2>2
<1>6. PICK gq : IsSum(gq, quota, D)
  BY SumExists
<1>7. gq[D] = n * T
  <2>1. gq[D] = n * gs[D]
    BY ONLY IsFiniteSet(D), <1>0, IsSum(gs, weights, D), quota \in [D -> Nat],
            n \in Nat, <1>5, <1>6, SumScaled
  <2> QED
    BY <2>1
<1>8. gq[D] = T * gf[D] + gr[D]
  <2>1. \A i \in D : quota[i] = T * floor[i] + frac[i]
    BY <1>0, <1>5
  <2> QED
    BY <1>0, <1>1, <1>5, <1>6, <2>1, SumLinear
<1>9. T * R = gr[D]
  <2>1. T * (n - gf[D]) = T * n - T * gf[D] /\ T * n = n * T /\ T * n \in Nat /\ T * gf[D] \in Nat
    BY <1>2
  <2> QED
    BY <1>2, <1>7, <1>8, <2>1
<1>10. R \in Nat
  <2>1. R \in Int /\ T * 0 = 0
    BY <1>2
  <2>2. T * 0 <= T * R
    BY <1>2, <1>9, <2>1
  <2> HIDE DEF R
  <2>3. 0 <= R
    BY <2>1, <2>2, Cancels
  <2> QED
    BY <2>1, <2>3
<1>11. PICK cut \in [D -> Nat] : \A i \in D : cut[i] = IF i \in P THEN 1 ELSE 0
  <2>1. /\ [i \in D |-> IF i \in P THEN 1 ELSE 0] \in [D -> Nat]
        /\ \A i \in D : [j \in D |-> IF j \in P THEN 1 ELSE 0][i] = IF i \in P THEN 1 ELSE 0
    OBVIOUS
  <2> QED
    BY <2>1
<1>12. PICK up \in [D -> Nat] : \A i \in D : up[i] = T * cut[i]
  <2>1. \A i \in D : T * cut[i] \in Nat
    BY <1>0, Multiples
  <2>2. /\ [i \in D |-> T * cut[i]] \in [D -> Nat]
        /\ \A i \in D : [j \in D |-> T * cut[j]][i] = T * cut[i]
    BY <2>1
  <2> QED
    BY <2>2
<1>13. PICK cuts : IsSum(cuts, cut, D)
  BY SumExists
<1>14. PICK ups : IsSum(ups, up, D)
  BY SumExists
<1>15. IsFiniteSet(P) /\ Cardinality(P) \in Nat
  BY FS_Subset, FS_CardinalityType
<1>16. ups[D] = T * Cardinality(P)
  <2>2. cuts[D] = Cardinality(P)
    BY <1>11, <1>13, SumCounts
  <2> QED
    <3>1. ups[D] = T * cuts[D]
      BY ONLY IsFiniteSet(D), cut \in [D -> Nat], up \in [D -> Nat], T \in Nat,
              <1>12, <1>13, <1>14, SumScaled
    <3> QED
      BY <2>2, <3>1
<1>17. gr[D] <= ups[D]
  <2>1. \A i \in D : frac[i] <= up[i]
    <3> SUFFICES ASSUME NEW i \in D PROVE frac[i] <= up[i]
      OBVIOUS
    <3>1. CASE i \in P
      <4>1. T * cut[i] = T
        BY <1>11, <3>1
      <4> QED
        BY <1>0, <1>12, <4>1
    <3>2. CASE i \notin P
      <4>1. frac[i] = 0 /\ up[i] \in Nat
        BY <1>0, <3>2
      <4> QED
        BY <4>1
    <3> QED
      BY <3>1, <3>2
  <2>2. D \in SUBSET D
    OBVIOUS
  <2> QED
    BY <1>0, <1>1, <1>14, <2>1, <2>2, SumMonotone
<1>18. R <= Cardinality(P)
  <2> HIDE DEF R
  <2> QED
    BY <1>9, <1>10, <1>15, <1>16, <1>17, Cancels
<1> QED
  BY <1>10, <1>18

(* One more for each of a set adds as many as the set has.                 *)
Raised(D, floor, A, counts) ==
  /\ A \in SUBSET D /\ floor \in [D -> Nat] /\ counts \in [D -> Nat]
  /\ \A i \in D : counts[i] = floor[i] + IF i \in A THEN 1 ELSE 0

LEMMA OneMoreEach ==
  ASSUME NEW D, IsFiniteSet(D), NEW floor, NEW A, NEW counts, Raised(D, floor, A, counts),
         NEW gf, IsSum(gf, floor, D)
  PROVE  Total(counts) = gf[D] + Cardinality(A)
<1>0. /\ A \in SUBSET D /\ floor \in [D -> Nat] /\ counts \in [D -> Nat]
      /\ \A i \in D : counts[i] = floor[i] + IF i \in A THEN 1 ELSE 0
  BY DEF Raised
<1>1. PICK more \in [D -> Nat] : \A i \in D : more[i] = IF i \in A THEN 1 ELSE 0
  <2>1. /\ [i \in D |-> IF i \in A THEN 1 ELSE 0] \in [D -> Nat]
        /\ \A i \in D : [j \in D |-> IF j \in A THEN 1 ELSE 0][i] = IF i \in A THEN 1 ELSE 0
    OBVIOUS
  <2> QED
    BY <2>1
<1>2. PICK g : IsSum(g, counts, D)
  BY <1>0, SumExists
<1>3. PICK m : IsSum(m, more, D)
  BY SumExists
<1>4. m[D] = Cardinality(A)
  BY <1>0, <1>1, <1>3, SumCounts
<1>5. \A i \in D : counts[i] = 1 * floor[i] + more[i]
  BY <1>0, <1>1
<1>6. g[D] = 1 * gf[D] + m[D]
  BY <1>0, <1>1, <1>2, <1>3, <1>5, SumLinear
<1>7. DOMAIN counts = D
  BY <1>0
<1>8. Total(counts) = g[D]
  BY <1>0, <1>2, <1>7, TotalIsSum
<1>9. gf[D] \in Nat
  BY <1>0, SumTypes
<1> QED
  BY <1>4, <1>6, <1>8, <1>9

LEMMA QuotaBounds ==
  ASSUME NEW T \in Nat \ {0}, NEW q \in Nat, NEW floor \in Nat, NEW frac \in Nat, frac < T,
         q = T * floor + frac, NEW more \in {0, 1}, more = 1 => frac > 0
  PROVE  T * (floor + more) < q + T /\ q < T * ((floor + more) + 1)
<1>1. T * floor \in Nat
  OBVIOUS
<1>2. CASE more = 0
  <2>1. T * (floor + more) = T * floor /\ T * ((floor + more) + 1) = T * floor + T
    BY <1>2
  <2> QED
    BY <1>1, <2>1
<1>3. CASE more = 1
  <2>1. T * (floor + more) = T * floor + T /\ T * ((floor + more) + 1) = T * floor + T + T
    BY <1>3
  <2> QED
    BY <1>1, <1>3, <2>1
<1> QED
  BY <1>2, <1>3

(* allocateVariantCounts (dispatch.job.ts:68) rounds every quota up or     *)
(* down, and gives what the floors leave over to variants whose quota was  *)
(* cut, so that the counts add up to the sample.                           *)
THEOREM AllocationIsFair ==
  ASSUME NEW n \in Nat, NEW split \in Seq(Nat), Total(split) # 0
  PROVE  /\ Total(split) \in Nat
         /\ AllocateVariantCounts(n, split) \in [1 .. Len(split) -> Nat]
         /\ Total(AllocateVariantCounts(n, split)) = n
         /\ \A i \in 1 .. Len(split) :
              /\ Total(split) * AllocateVariantCounts(n, split)[i] < n * split[i] + Total(split)
              /\ n * split[i] < Total(split) * (AllocateVariantCounts(n, split)[i] + 1)
<1>1. PICK D, T : D = DOMAIN split /\ T = Total(split)
  OBVIOUS
<1>2. D = 1 .. Len(split) /\ split \in [D -> Nat] /\ D \subseteq Nat
  BY <1>1
<1>3. IsFiniteSet(D)
  <2>1. 1 \in Int /\ Len(split) \in Int
    OBVIOUS
  <2> QED
    BY <1>2, <2>1, FS_Interval
<1>4. PICK gs : IsSum(gs, split, D)
  BY <1>2, <1>3, SumExists
<1>5. gs[D] = T /\ T \in Nat \ {0}
  BY <1>1, <1>2, <1>3, <1>4, TotalIsSum, SumTypes
<1>6. PICK floor, frac :
        /\ floor = [i \in DOMAIN split |-> (n * split[i]) \div Total(split)]
        /\ frac = [i \in DOMAIN split |-> (n * split[i]) % Total(split)]
  OBVIOUS
<1>7. \A i \in D : floor[i] = (n * split[i]) \div T /\ frac[i] = (n * split[i]) % T
  BY <1>1, <1>6
<1>8. ASSUME NEW i \in D
      PROVE  /\ floor[i] \in Nat /\ frac[i] \in Nat /\ frac[i] < T
             /\ n * split[i] \in Nat /\ n * split[i] = T * floor[i] + frac[i]
  <2> DEFINE q == n * split[i]
  <2>1. q \in Nat
    BY <1>2, Multiples
  <2>2. floor[i] = q \div T /\ frac[i] = q % T
    BY <1>7
  <2> HIDE DEF q
  <2>3. q \div T \in Nat /\ q % T \in Nat /\ q % T < T /\ q = T * (q \div T) + (q % T)
    BY <1>5, <2>1, Division
  <2> QED
    BY <2>1, <2>2, <2>3 DEF q
<1>9. floor \in [D -> Nat] /\ frac \in [D -> Nat]
  BY <1>1, <1>6, <1>8
<1>10. Divided(D, T, n, split, floor, frac)
  BY <1>2, <1>8, <1>9 DEF Divided
<1>11. PICK gf : IsSum(gf, floor, D)
  BY <1>3, <1>9, SumExists
<1>12. Total(floor) = gf[D] /\ gf[D] \in Nat
  BY <1>3, <1>9, <1>11, TotalIsSum, SumTypes
<1>13. PICK R, P : R = n - gf[D] /\ P = {i \in D : frac[i] > 0}
  OBVIOUS
<1>14. R \in Nat /\ R <= Cardinality(P)
  <2>1. P \in SUBSET D /\ \A i \in D : i \in P <=> frac[i] > 0
    BY <1>13
  <2> QED
    BY <1>3, <1>4, <1>5, <1>10, <1>11, <1>13, <2>1, LeftOver
<1>15. /\ IsFiniteSet(P) /\ Cardinality(P) \in Nat /\ Cardinality(P) <= Cardinality(D)
       /\ Cardinality(D) \in Nat
  BY <1>3, <1>13, FS_Subset, FS_CardinalityType
<1>16. PICK before : before = [i \in DOMAIN split |->
         {j \in DOMAIN split : frac[j] > frac[i] \/ (frac[j] = frac[i] /\ j < i)}]
  OBVIOUS
<1>17. PICK A, counts : /\ A = {i \in D : Cardinality(before[i]) < R}
                        /\ counts = [i \in D |-> floor[i] + IF i \in A THEN 1 ELSE 0]
  OBVIOUS
<1>18. Cardinality(A) = R
  <2>0. /\ before \in [D -> SUBSET D]
        /\ \A i, j \in D : j \in before[i] <=> frac[j] > frac[i] \/ (frac[j] = frac[i] /\ j < i)
    BY <1>1, <1>16
  <2>1. \A i \in D : i \notin before[i]
    <3> SUFFICES ASSUME NEW i \in D PROVE i \notin before[i]
      OBVIOUS
    <3>1. frac[i] \in Nat /\ i \in Nat
      BY <1>2, <1>9
    <3> QED
      BY <2>0, <3>1
  <2>2. \A i, j \in D : j \in before[i] => before[j] \subseteq before[i]
    <3> SUFFICES ASSUME NEW i \in D, NEW j \in D, j \in before[i], NEW k \in before[j]
                 PROVE  k \in before[i]
      OBVIOUS
    <3>1. k \in D /\ i \in Nat /\ j \in Nat /\ k \in Nat
      BY <1>2, <2>0
    <3>2. frac[i] \in Nat /\ frac[j] \in Nat /\ frac[k] \in Nat
      BY <1>9, <3>1
    <3>3. /\ frac[j] > frac[i] \/ (frac[j] = frac[i] /\ j < i)
          /\ frac[k] > frac[j] \/ (frac[k] = frac[j] /\ k < j)
      BY <2>0, <3>1
    <3>4. frac[k] > frac[i] \/ (frac[k] = frac[i] /\ k < i)
      BY <3>1, <3>2, <3>3
    <3> QED
      BY <2>0, <3>1, <3>4
  <2>3. \A i, j \in D : i # j => i \in before[j] \/ j \in before[i]
    <3> SUFFICES ASSUME NEW i \in D, NEW j \in D, i # j PROVE i \in before[j] \/ j \in before[i]
      OBVIOUS
    <3>1. frac[i] \in Nat /\ frac[j] \in Nat /\ i \in Nat /\ j \in Nat
      BY <1>2, <1>9
    <3>2. frac[i] > frac[j] \/ frac[j] > frac[i] \/ (frac[i] = frac[j] /\ (i < j \/ j < i))
      BY <3>1
    <3> QED
      BY <2>0, <3>2
  <2>4. R \in 0 .. Cardinality(D)
    BY <1>14, <1>15
  <2> QED
    BY <1>3, <1>17, <2>0, <2>1, <2>2, <2>3, <2>4, FirstOnes
<1>19. \A i \in A : frac[i] > 0
  <2> SUFFICES ASSUME NEW i \in A, ~ frac[i] > 0 PROVE FALSE
    OBVIOUS
  <2>1. i \in D /\ Cardinality(before[i]) < R
    BY <1>17
  <2>2. frac[i] = 0
    BY <1>9, <2>1
  <2>3. before[i] = {j \in D : frac[j] > frac[i] \/ (frac[j] = frac[i] /\ j < i)}
    BY <1>1, <1>16, <2>1
  <2>4. P \in SUBSET before[i] /\ before[i] \in SUBSET D
    BY <1>13, <2>2, <2>3
  <2>5. IsFiniteSet(before[i]) /\ Cardinality(before[i]) \in Nat
    BY <1>3, <2>4, FS_Subset, FS_CardinalityType
  <2>6. Cardinality(P) <= Cardinality(before[i])
    BY <2>4, <2>5, FS_Subset
  <2> QED
    BY <1>14, <1>15, <2>1, <2>5, <2>6
<1>20. AllocateVariantCounts(n, split) = counts
  <2>1. R = n - Total([i \in DOMAIN split |-> (n * split[i]) \div Total(split)])
    BY <1>6, <1>12, <1>13
  <2>2. \A i \in D : before[i] = {j \in DOMAIN split :
           (n * split[j]) % Total(split) > (n * split[i]) % Total(split)
           \/ ((n * split[j]) % Total(split) = (n * split[i]) % Total(split) /\ j < i)}
    BY <1>1, <1>6, <1>16
  <2>3. counts = [i \in DOMAIN split |->
          (n * split[i]) \div Total(split) + IF Cardinality(before[i]) < R THEN 1 ELSE 0]
    BY <1>1, <1>6, <1>17
  <2> QED
    BY <1>1, <2>1, <2>2, <2>3 DEF AllocateVariantCounts
<1>21. /\ A \in SUBSET D /\ counts \in [D -> Nat]
       /\ \A i \in D : counts[i] = floor[i] + IF i \in A THEN 1 ELSE 0
  BY <1>9, <1>17
<1>22. Total(counts) = n
  <2>1. Total(counts) = gf[D] + Cardinality(A)
    <3>1. Raised(D, floor, A, counts)
      BY <1>9, <1>21 DEF Raised
    <3> QED
      BY <1>3, <1>11, <3>1, OneMoreEach
  <2> QED
    BY <1>12, <1>13, <1>14, <1>18, <2>1
<1>23. ASSUME NEW i \in D
       PROVE  /\ T * counts[i] < n * split[i] + T
              /\ n * split[i] < T * (counts[i] + 1)
  <2>1. PICK more \in {0, 1} : (more = 1 => frac[i] > 0) /\ counts[i] = floor[i] + more
    BY <1>8, <1>19, <1>21
  <2>2. T * (floor[i] + more) < n * split[i] + T /\ n * split[i] < T * ((floor[i] + more) + 1)
    BY <1>5, <1>8, <2>1, QuotaBounds
  <2> QED
    BY <2>1, <2>2
<1> QED
  BY <1>1, <1>2, <1>5, <1>20, <1>21, <1>22, <1>23

-----------------------------------------------------------------------------
(* Who falls to which variant.                                             *)
LEMMA SumOfLess ==
  ASSUME NEW D, IsFiniteSet(D), NEW f \in [D -> Nat], NEW g, IsSum(g, f, D)
  PROVE  \A t \in SUBSET D : \A s \in SUBSET t : g[s] <= g[t]
<1> DEFINE F == {t \in SUBSET D : \A s \in SUBSET t : g[s] <= g[t]}
<1>1. {} \in F
  <2>1. g[{}] \in Nat
    BY SumTypes
  <2> QED
    BY <2>1
<1>2. ASSUME NEW t \in SUBSET D, t # {}, \A i \in t : t \ {i} \in F PROVE t \in F
  <2>1. ASSUME NEW s \in SUBSET t PROVE g[s] <= g[t]
    <3>1. g[s] \in Nat /\ g[t] \in Nat
      BY SumTypes
    <3>2. CASE s = t
      BY <3>1, <3>2
    <3>3. CASE s # t
      <4>1. PICK i \in t : i \notin s
        BY <3>3
      <4>2. g[t] = f[i] + g[t \ {i}] /\ f[i] \in Nat /\ g[t \ {i}] \in Nat
        BY <4>1, SumTypes DEF IsSum
      <4>3. g[s] <= g[t \ {i}]
        BY <1>2, <4>1
      <4> QED
        BY <3>1, <4>2, <4>3
    <3> QED
      BY <3>2, <3>3
  <2> QED
    BY <2>1
<1>3. \A t \in SUBSET D : t # {} /\ (\A i \in t : t \ {i} \in F) => t \in F
  BY <1>2
<1>4. \A t \in SUBSET D : t \in F
  <2> HIDE DEF F
  <2> QED
    BY ONLY IsFiniteSet(D), <1>1, <1>3, SubsetInduction
<1> QED
  BY <1>4

(* Where each variant's share of the sample ends.                          *)
Ends(upTo, counts, L) ==
  /\ counts \in [1 .. L -> Nat] /\ upTo \in [0 .. L -> Nat] /\ upTo[0] = 0
  /\ upTo[L] = Total(counts)
  /\ \A i \in 1 .. L : upTo[i] = counts[i] + upTo[i - 1]
  /\ \A i, j \in 0 .. L : i <= j => upTo[i] <= upTo[j]
  /\ \A i \in 0 .. L : upTo[i] = Total([j \in 1 .. i |-> counts[j]])

LEMMA SharesEnd ==
  ASSUME NEW L \in Nat, NEW counts \in [1 .. L -> Nat]
  PROVE  \E upTo : Ends(upTo, counts, L)
<1>1. IsFiniteSet(1 .. L)
  BY FS_Interval
<1>2. PICK h : IsSum(h, counts, 1 .. L)
  BY <1>1, SumExists
<1>3. PICK upTo : upTo = [i \in 0 .. L |-> h[1 .. i]]
  OBVIOUS
<1>4. \A i \in 0 .. L : 1 .. i \in SUBSET (1 .. L)
  OBVIOUS
<1>5. upTo \in [0 .. L -> Nat]
  BY <1>2, <1>3, <1>4, SumTypes
<1>6. upTo[0] = 0
  <2>1. 1 .. 0 = {}
    OBVIOUS
  <2> QED
    BY <1>2, <1>3, <2>1 DEF IsSum
<1>7. ASSUME NEW i \in 1 .. L PROVE upTo[i] = counts[i] + upTo[i - 1]
  <2>1. (1 .. i) \ {i} = 1 .. (i - 1) /\ i \in 1 .. i /\ 1 .. i \in SUBSET (1 .. L)
    OBVIOUS
  <2>2. h[1 .. i] = counts[i] + h[(1 .. i) \ {i}]
    BY <1>2, <2>1 DEF IsSum
  <2>3. i \in 0 .. L /\ i - 1 \in 0 .. L
    OBVIOUS
  <2> QED
    BY <1>3, <2>1, <2>2, <2>3
<1>8. ASSUME NEW i \in 0 .. L, NEW j \in 0 .. L, i <= j PROVE upTo[i] <= upTo[j]
  <2>1. 1 .. i \in SUBSET (1 .. j) /\ 1 .. j \in SUBSET (1 .. L)
    BY <1>8
  <2>2. h[1 .. i] <= h[1 .. j]
    BY <1>1, <1>2, <2>1, SumOfLess
  <2> QED
    BY <1>3, <2>2
<1>9. ASSUME NEW i \in 0 .. L PROVE upTo[i] = Total([j \in 1 .. i |-> counts[j]])
  <2>1. Total([j \in 1 .. i |-> counts[j]]) = h[1 .. i]
    BY <1>1, <1>2, <1>4, SumOfPart
  <2> QED
    BY <1>3, <2>1
<1>10. upTo[L] = Total(counts)
  <2>1. DOMAIN counts = 1 .. L /\ L \in 0 .. L
    OBVIOUS
  <2>2. Total(counts) = h[1 .. L]
    BY <1>1, <1>2, <2>1, TotalIsSum
  <2> QED
    BY <1>3, <2>1, <2>2
<1> QED
  BY <1>5, <1>6, <1>7, <1>8, <1>9, <1>10 DEF Ends

LEMMA SplitContactIs ==
  ASSUME NEW n \in Nat, NEW p \in Nat, NEW split \in Seq(Nat), NEW percent \in Nat,
         NEW upTo,
         Ends(upTo, AllocateVariantCounts(SampleSize(n, percent), split), Len(split))
  PROVE  \A v \in 1 .. Len(split) :
           SplitContact(n, p, split, percent) = v <=> upTo[v - 1] < p /\ p <= upTo[v]
<1>1. PICK L, counts : /\ L = Len(split) /\ L \in Nat /\ DOMAIN split = 1 .. L
                       /\ counts = AllocateVariantCounts(SampleSize(n, percent), split)
  OBVIOUS
<1>2. PICK takes : takes = {i \in 1 .. L : upTo[i - 1] < p /\ p <= upTo[i]}
  OBVIOUS
<1>3. \A i \in 1 .. L : i \in 0 .. L /\ i - 1 \in 0 .. L
  BY <1>1
<1>4. takes = {i \in DOMAIN split : Total([j \in 1 .. i - 1 |-> counts[j]]) < p
                                    /\ p <= Total([j \in 1 .. i |-> counts[j]])}
  <2>1. \A i \in 1 .. L : /\ upTo[i] = Total([j \in 1 .. i |-> counts[j]])
                          /\ upTo[i - 1] = Total([j \in 1 .. i - 1 |-> counts[j]])
    BY <1>1, <1>3 DEF Ends
  <2> QED
    BY <1>1, <1>2, <2>1
<1>5. SplitContact(n, p, split, percent) = IF takes = {} THEN 0 ELSE CHOOSE i \in takes : TRUE
  BY <1>1, <1>4 DEF SplitContact
<1>6. \A i, j \in takes : ~ i < j
  <2> SUFFICES ASSUME NEW i \in takes, NEW j \in takes, i < j PROVE FALSE
    OBVIOUS
  <2>1. i \in 0 .. L /\ j - 1 \in 0 .. L /\ i <= j - 1
    BY <1>1, <1>2
  <2>2. upTo[i] <= upTo[j - 1] /\ upTo[i] \in Nat /\ upTo[j - 1] \in Nat
    BY <1>1, <2>1 DEF Ends
  <2>3. p <= upTo[i] /\ upTo[j - 1] < p
    BY <1>2
  <2> QED
    BY <2>2, <2>3
<1>7. \A i, j \in takes : i = j
  <2>1. \A i \in takes : i \in Nat
    BY <1>2
  <2> QED
    BY <1>6, <2>1
<1>8. \A v \in 1 .. L : SplitContact(n, p, split, percent) = v <=> v \in takes
  <2> SUFFICES ASSUME NEW v \in 1 .. L
               PROVE  SplitContact(n, p, split, percent) = v <=> v \in takes
    OBVIOUS
  <2>1. CASE takes = {}
    <3>1. v # 0
      BY <1>1
    <3> QED
      BY <1>5, <2>1, <3>1
  <2>2. CASE takes # {}
    <3>1. (CHOOSE i \in takes : TRUE) \in takes
      BY <2>2
    <3> QED
      BY <1>5, <1>7, <2>2, <3>1
  <2> QED
    BY <2>1, <2>2
<1> QED
  BY <1>1, <1>2, <1>8

LEMMA SampleFits ==
  ASSUME NEW n \in Nat, NEW percent \in 0 .. 100
  PROVE  SampleSize(n, percent) \in Nat /\ SampleSize(n, percent) <= n
<1> DEFINE a == 2 * n * percent + 100
           q == a \div 200
<1>1. 2 * n * percent \in Nat /\ 2 * n * percent <= 2 * n * 100
  <2>1. percent \in Nat /\ 100 - percent \in Nat
    OBVIOUS
  <2>2. (2 * n) * (100 - percent) \in Nat /\ (2 * n) * percent \in Nat
    BY <2>1, Multiples
  <2>3. (2 * n) * (100 - percent) = 2 * n * 100 - 2 * n * percent
    BY <2>1
  <2> QED
    BY <2>1, <2>2, <2>3
<1>2. a \in Nat /\ a <= 200 * n + 100
  BY <1>1
<1> HIDE DEF a
<1>3. q \in Nat /\ 200 * q <= a
  BY <1>2
<1>4. q <= n
  <2> HIDE DEF q
  <2> QED
    BY <1>2, <1>3
<1> QED
  BY <1>3, <1>4 DEF SampleSize, a

(* splitContactsForAbTest (dispatch.job.ts:83): of the contacts of any     *)
(* audience, as many fall to a variant as were allocated to it.            *)
THEOREM SharesFilled ==
  ASSUME NEW S, IsFiniteSet(S), S \subseteq Nat, NEW split \in Seq(Nat), Total(split) # 0,
         NEW percent \in 0 .. 100, NEW v \in 1 .. Len(split)
  PROVE  Cardinality({c \in S : SplitContact(Cardinality(S), Cardinality({o \in S : o <= c}),
                                             split, percent) = v})
           = AllocateVariantCounts(SampleSize(Cardinality(S), percent), split)[v]
<1>1. PICK N, n, L, counts :
        /\ N = Cardinality(S) /\ n = SampleSize(N, percent) /\ L = Len(split)
        /\ counts = AllocateVariantCounts(n, split)
  OBVIOUS
<1>2. N \in Nat /\ n \in Nat /\ n <= N /\ L \in Nat
  <2>1. N \in Nat /\ L \in Nat
    BY <1>1, FS_CardinalityType
  <2> QED
    BY <1>1, <2>1, SampleFits
<1>3. counts \in [1 .. L -> Nat] /\ Total(counts) = n
  BY <1>1, <1>2, AllocationIsFair
<1>4. PICK upTo : Ends(upTo, counts, L)
  BY <1>2, <1>3, SharesEnd
<1>5. v \in 0 .. L /\ v - 1 \in 0 .. L /\ L \in 0 .. L /\ v - 1 <= v /\ v <= L /\ v \in 1 .. L
  BY <1>1, <1>2
<1>6. /\ upTo[v] \in Nat /\ upTo[v - 1] \in Nat /\ upTo[v - 1] <= upTo[v] /\ upTo[v] <= n
      /\ counts[v] \in Nat /\ upTo[v] = counts[v] + upTo[v - 1]
  BY <1>3, <1>4, <1>5 DEF Ends
<1>7. PICK before : before = [c \in S |-> {o \in S : o < c}]
  OBVIOUS
<1>8. /\ before \in [S -> SUBSET S]
      /\ \A c, o \in S : o \in before[c] <=> o < c
      /\ \A c \in S : before[c] = {o \in S : o < c}
  BY <1>7
<1>9. ASSUME NEW c \in S PROVE Cardinality({o \in S : o <= c}) = Cardinality(before[c]) + 1
  <2>1. {o \in S : o <= c} = before[c] \cup {c} /\ c \notin before[c]
    BY <1>8
  <2>2. IsFiniteSet(before[c])
    BY <1>8, FS_Subset
  <2> QED
    BY <2>1, <2>2, FS_AddElement
<1> DEFINE First(r) == {c \in S : Cardinality(before[c]) < r}
<1>10. ASSUME NEW r \in 0 .. N PROVE Cardinality(First(r)) = r
  <2>1. \A c \in S : c \notin before[c]
    BY <1>8
  <2>2. \A c, o \in S : o \in before[c] => before[o] \subseteq before[c]
    <3> SUFFICES ASSUME NEW c \in S, NEW o \in S, o \in before[c], NEW x \in before[o]
                 PROVE  x \in before[c]
      OBVIOUS
    <3>1. x \in S /\ x < o /\ o < c
      BY <1>8
    <3>2. x \in Nat /\ o \in Nat /\ c \in Nat
      BY <3>1
    <3>3. x < c
      BY <3>1, <3>2
    <3> QED
      BY <1>8, <3>1, <3>3
  <2>3. \A c, o \in S : c # o => c \in before[o] \/ o \in before[c]
    BY <1>8
  <2> QED
    BY <1>1, <1>8, <2>1, <2>2, <2>3, FirstOnes
<1> DEFINE mine == {c \in S : SplitContact(N, Cardinality({o \in S : o <= c}), split, percent) = v}
<1>11. mine = First(upTo[v]) \ First(upTo[v - 1])
  <2> SUFFICES ASSUME NEW c \in S
               PROVE  c \in mine <=> c \in First(upTo[v]) /\ c \notin First(upTo[v - 1])
    OBVIOUS
  <2> DEFINE p == Cardinality({o \in S : o <= c})
             q == Cardinality(before[c])
  <2>1. p = q + 1 /\ q \in Nat
    BY <1>8, <1>9, FS_Subset, FS_CardinalityType
  <2>2. c \in mine <=> SplitContact(N, p, split, percent) = v
    OBVIOUS
  <2>3. c \in First(upTo[v]) <=> q < upTo[v]
    OBVIOUS
  <2>4. c \in First(upTo[v - 1]) <=> q < upTo[v - 1]
    OBVIOUS
  <2> HIDE DEF p, q, mine, First
  <2>5. SplitContact(N, p, split, percent) = v <=> upTo[v - 1] < p /\ p <= upTo[v]
    <3>1. p \in Nat /\ percent \in Nat
      BY <2>1
    <3>2. Ends(upTo, AllocateVariantCounts(SampleSize(N, percent), split), Len(split))
      BY <1>1, <1>4
    <3> QED
      BY <1>2, <3>1, <3>2, SplitContactIs
  <2> QED
    BY <1>6, <2>1, <2>2, <2>3, <2>4, <2>5
<1>12. First(upTo[v]) \cap First(upTo[v - 1]) = First(upTo[v - 1])
  <2>1. \A c \in S : Cardinality(before[c]) \in Nat
    BY <1>8, FS_Subset, FS_CardinalityType
  <2>2. \A c \in S : Cardinality(before[c]) < upTo[v - 1] => Cardinality(before[c]) < upTo[v]
    BY <1>6, <2>1
  <2> QED
    BY <2>2
<1>13. IsFiniteSet(First(upTo[v]))
  BY FS_Subset
<1>14. Cardinality(First(upTo[v])) = upTo[v] /\ Cardinality(First(upTo[v - 1])) = upTo[v - 1]
  <2>1. upTo[v] \in 0 .. N /\ upTo[v - 1] \in 0 .. N
    BY <1>2, <1>6
  <2> HIDE DEF First
  <2> QED
    BY <1>10, <2>1
<1>15. Cardinality(mine) = counts[v]
  <2>1. PICK X, Y : X = First(upTo[v]) /\ Y = First(upTo[v - 1])
    OBVIOUS
  <2>2. IsFiniteSet(X) /\ X \cap Y = Y /\ mine = X \ Y
    BY <1>11, <1>12, <1>13, <2>1
  <2>3. Cardinality(X) = upTo[v] /\ Cardinality(Y) = upTo[v - 1]
    BY <1>14, <2>1
  <2> HIDE DEF mine, First
  <2>4. Cardinality(X \ Y) = Cardinality(X) - Cardinality(X \cap Y)
    BY <2>2, FS_Difference
  <2>5. Cardinality(mine) = upTo[v] - upTo[v - 1]
    BY <2>2, <2>3, <2>4
  <2> QED
    BY <1>6, <2>5
<1> QED
  BY <1>1, <1>15

-----------------------------------------------------------------------------
(* The winner.  A rate is a share in ten-thousandths, rounded.             *)
LEMMA RateRounds ==
  ASSUME NEW hits \in Nat, NEW of \in Nat \ {0}
  PROVE  /\ Rate(hits, of) \in Nat
         /\ (2 * of) * Rate(hits, of) <= 20000 * hits + of
         /\ 20000 * hits + of < (2 * of) * (Rate(hits, of) + 1)
<1>1. PICK a, b : a = 20000 * hits + of /\ b = 2 * of
  OBVIOUS
<1>2. a \in Nat /\ b \in Nat \ {0} /\ Rate(hits, of) = a \div b
  BY <1>1 DEF Rate
<1>3. PICK q, r : q = a \div b /\ r = a % b
  OBVIOUS
<1>4. q \in Nat /\ r \in Nat /\ r < b /\ a = b * q + r
  BY <1>2, <1>3, Division
<1>5. b * (q + 1) = b * q + b /\ b * q \in Nat
  BY <1>2, <1>4
<1>6. b * q <= a /\ a < b * (q + 1)
  BY <1>2, <1>4, <1>5
<1> QED
  BY <1>1, <1>2, <1>3, <1>4, <1>6

LEMMA RateIsNat == \A h, o \in Nat : Rate(h, o) \in Nat
BY RateRounds DEF Rate

(* Whoever has the higher rate is behind by less than the rounding.        *)
LEMMA RateDecides ==
  ASSUME NEW h \in Nat, NEW o \in Nat \ {0}, NEW k \in Nat, NEW p \in Nat \ {0},
         Rate(k, p) <= Rate(h, o)
  PROVE  10000 * (k * o) < 10000 * (h * p) + o * p
<1>1. PICK r, s : r = Rate(h, o) /\ s = Rate(k, p)
  OBVIOUS
<1>2. r \in Nat /\ (2 * o) * r <= 20000 * h + o
  BY <1>1, RateRounds
<1>3. s \in Nat /\ 20000 * k + p < (2 * p) * (s + 1) /\ s <= r
  BY <1>1, RateRounds
<1>4. PICK op, ko, hp \in Nat : op = o * p /\ ko = k * o /\ hp = h * p
  OBVIOUS
<1>5. (20000 * k + p) * o < ((2 * p) * (s + 1)) * o
  <2>1. PICK a, b \in Nat : a = 20000 * k + p /\ b = (2 * p) * (s + 1)
    BY <1>3
  <2>2. o * a < o * b
    BY ONLY <1>3, <2>1, o \in Nat \ {0}
  <2> QED
    BY <2>1, <2>2
<1>6. ((2 * o) * r) * p <= (20000 * h + o) * p
  <2>1. PICK a, b \in Nat : a = (2 * o) * r /\ b = 20000 * h + o
    BY <1>2
  <2>2. p * a <= p * b
    BY ONLY <1>2, <2>1, p \in Nat \ {0}
  <2> QED
    BY <2>1, <2>2
<1>7. (20000 * k + p) * o = 20000 * ko + op
  BY <1>4
<1>8. (20000 * h + o) * p = 20000 * hp + op
  BY <1>4
<1>9. ((2 * p) * (s + 1)) * o = 2 * (op * s) + 2 * op
  BY <1>3, <1>4
<1>10. ((2 * o) * r) * p = 2 * (op * r)
  BY <1>2, <1>4
<1>11. op * s <= op * r /\ op * s \in Nat /\ op * r \in Nat
  BY ONLY <1>2, <1>3, op \in Nat
<1>12. 20000 * ko + op < 2 * (op * s) + 2 * op
  BY ONLY <1>5, <1>7, <1>9
<1>13. 2 * (op * r) <= 20000 * hp + op
  BY ONLY <1>6, <1>8, <1>10
<1>14. PICK x, y \in Nat : x = op * s /\ y = op * r
  BY <1>11
<1>15. 10000 * ko < 10000 * hp + op
  BY ONLY <1>11, <1>12, <1>13, <1>14, ko \in Nat, hp \in Nat, op \in Nat
<1> QED
  BY <1>4, <1>15

LEMMA LargestExists ==
  ASSUME NEW D, IsFiniteSet(D), D # {}, NEW f \in [D -> Nat]
  PROVE  \E i \in D : \A j \in D : f[j] <= f[i]
<1> DEFINE F == {s \in SUBSET D : s # {} => \E i \in s : \A j \in s : f[j] <= f[i]}
<1>1. {} \in F
  OBVIOUS
<1>2. ASSUME NEW s \in SUBSET D, s # {}, \A i \in s : s \ {i} \in F PROVE s \in F
  <2>1. PICK i \in s : TRUE
    BY <1>2
  <2>2. CASE s \ {i} = {}
    BY <2>1, <2>2
  <2>3. CASE s \ {i} # {}
    <3>1. PICK m \in s \ {i} : \A j \in s \ {i} : f[j] <= f[m]
      BY <1>2, <2>3
    <3>2. CASE f[i] <= f[m]
      BY <3>1, <3>2
    <3>3. CASE f[m] <= f[i]
      BY <3>1, <3>3
    <3> QED
      BY <3>2, <3>3
  <2> QED
    BY <2>2, <2>3
<1> HIDE DEF F
<1>3. D \in F
  BY <1>1, <1>2, SubsetInduction
<1> QED
  BY <1>3 DEF F

(* The winner (ab-test-resolve.job.ts:71) is the first of the variants of  *)
(* the highest rate; rates are rounded, and none was really better than it *)
(* by a ten-thousandth.  It is nobody only if nothing was sent.            *)
THEOREM WinnerIsBest ==
  ASSUME NEW N \in Nat, NEW sent \in [1 .. N -> Nat], NEW hits \in [1 .. N -> Nat],
         NEW w, w = Winner(sent, hits)
  PROVE  /\ w \in 0 .. N
         /\ w = 0 <=> \A i \in 1 .. N : sent[i] = 0
         /\ w # 0 => \A j \in 1 .. N :
              /\ Rate(hits[j], sent[j]) <= Rate(hits[w], sent[w])
              /\ j < w => Rate(hits[j], sent[j]) < Rate(hits[w], sent[w])
              /\ sent[j] > 0 /\ sent[w] > 0 =>
                   10000 * (hits[j] * sent[w]) < 10000 * (hits[w] * sent[j]) + sent[w] * sent[j]
<1>1. PICK rate : rate = [i \in 1 .. N |-> Rate(hits[i], sent[i])]
  OBVIOUS
<1>2. PICK best : best = {i \in 1 .. N : \A j \in 1 .. N : rate[j] <= rate[i]}
  OBVIOUS
<1>3. rate \in [1 .. N -> Nat] /\ \A i \in 1 .. N : rate[i] = Rate(hits[i], sent[i])
  BY <1>1, RateIsNat
<1>4. DOMAIN sent = 1 .. N
  OBVIOUS
<1>5. best = {i \in DOMAIN sent : \A j \in DOMAIN sent :
               Rate(hits[j], sent[j]) <= Rate(hits[i], sent[i])}
  BY <1>2, <1>3, <1>4
<1>6. CASE \A i \in 1 .. N : sent[i] = 0
  BY <1>4, <1>6 DEF Winner
<1>7. CASE ~ \A i \in 1 .. N : sent[i] = 0
  <2>1. w = CHOOSE i \in best : \A j \in best : i <= j
    BY <1>4, <1>5, <1>7 DEF Winner
  <2>2. IsFiniteSet(1 .. N) /\ 1 .. N # {}
    <3>1. 1 \in Int /\ N \in Int
      OBVIOUS
    <3>2. IsFiniteSet(1 .. N)
      BY <3>1, FS_Interval
    <3> QED
      BY <1>7, <3>2
  <2>3. best # {} /\ best \subseteq Nat
    <3>1. PICK D : D = 1 .. N
      OBVIOUS
    <3>2. \E i \in D : \A j \in D : rate[j] <= rate[i]
      BY <1>3, <2>2, <3>1, LargestExists
    <3>3. PICK i \in 1 .. N : \A j \in 1 .. N : rate[j] <= rate[i]
      BY ONLY <3>1, <3>2
    <3>4. i \in best
      BY <1>2, <3>3
    <3> QED
      BY <1>2, <3>4
  <2>4. \E i \in best : \A j \in best : i <= j
    BY <2>3, LeastOf
  <2>5. w \in best /\ \A j \in best : w <= j
    BY <2>1, <2>4
  <2>6. w \in 1 .. N /\ w # 0 /\ \A j \in 1 .. N : rate[j] <= rate[w]
    BY <1>2, <2>5
  <2>7. ASSUME NEW j \in 1 .. N, j < w PROVE rate[j] < rate[w]
    <3>1. j \notin best
      BY <2>5, <2>6, <2>7
    <3>2. PICK i \in 1 .. N : ~ (rate[i] <= rate[j])
      BY <1>2, <3>1
    <3>3. rate[i] <= rate[w] /\ rate[i] \in Nat /\ rate[j] \in Nat /\ rate[w] \in Nat
      BY <1>3, <2>6
    <3> QED
      BY <3>2, <3>3
  <2>8. ASSUME NEW j \in 1 .. N, sent[j] > 0, sent[w] > 0
        PROVE  10000 * (hits[j] * sent[w]) < 10000 * (hits[w] * sent[j]) + sent[w] * sent[j]
    <3>1. PICK h, o, k, p : h = hits[w] /\ o = sent[w] /\ k = hits[j] /\ p = sent[j]
      OBVIOUS
    <3>2. h \in Nat /\ k \in Nat /\ o \in Nat \ {0} /\ p \in Nat \ {0} /\ Rate(k, p) <= Rate(h, o)
      BY <1>3, <2>6, <2>8, <3>1
    <3>3. 10000 * (k * o) < 10000 * (h * p) + o * p
      BY <3>2, RateDecides
    <3> QED
      BY <3>1, <3>3
  <2>9. \A j \in 1 .. N :
          /\ Rate(hits[j], sent[j]) <= Rate(hits[w], sent[w])
          /\ j < w => Rate(hits[j], sent[j]) < Rate(hits[w], sent[w])
    BY <1>3, <2>6, <2>7
  <2> QED
    BY <1>7, <2>6, <2>8, <2>9
<1> QED
  BY <1>6, <1>7

=============================================================================
