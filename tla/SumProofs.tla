------------------------------ MODULE SumProofs ------------------------------
(***************************************************************************)
(* What the sums of Posture come to, for any finite number of summands.    *)
(* SumFunction is a recursive function over the subsets of a domain: that  *)
(* it exists, and every property of its values, is shown by a least        *)
(* counterexample, for which the order of the natural numbers is enough.   *)
(***************************************************************************)
EXTENDS Integers, FiniteSets, Functions, FiniteSetTheorems, WellFoundedInduction, TLAPS

(* A set of natural numbers has a least one.                               *)
LEMMA LeastNumber ==
    ASSUME NEW S \in SUBSET Nat, S # {}
    PROVE  \E m \in S : \A k \in S : m <= k
<1> DEFINE R == {ss \in Nat \X Nat : ss[1] < ss[2]}
<1>1. R = OpToRel(<, Nat)
  BY DEF OpToRel
<1>2. IsWellFoundedOn(R, Nat)
  BY <1>1, NatLessThanWellFounded
<1>3. \A a, b \in Nat : <<a, b>> \in R <=> a < b
  OBVIOUS
<1> HIDE DEF R
<1>4. PICK m \in S : \A k \in S : ~ (<<k, m>> \in R)
  BY <1>2, WFMin
<1>5. \A k \in S : k \in Nat /\ m \in Nat /\ ~ (k < m)
  BY <1>3, <1>4
<1>6. \A k \in S : m <= k
  BY <1>5
<1> QED
  BY <1>6

(* Of some numbers the one with the least value, and the least of these.   *)
LEMMA LeastOfLeast ==
    ASSUME NEW S \in SUBSET Nat, S # {}, NEW f \in [S -> Nat]
    PROVE  \E i \in S : \A j \in S : f[i] < f[j] \/ (f[i] = f[j] /\ i <= j)
<1> DEFINE V == {f[j] : j \in S}
<1>0. V \in SUBSET Nat /\ V # {}
  OBVIOUS
<1> HIDE DEF V
<1>1. PICK v \in V : \A w \in V : v <= w
  BY <1>0, LeastNumber
<1> USE DEF V
<1> DEFINE T == {j \in S : f[j] = v}
<1>2. T \in SUBSET Nat /\ T # {}
  BY <1>1
<1>3. PICK i \in T : \A j \in T : i <= j
  BY <1>2, LeastNumber
<1>4. \A j \in S : f[j] \in Nat /\ v \in Nat /\ v <= f[j] /\ (f[j] = v => i <= j)
  BY <1>1, <1>3
<1> QED
  BY <1>3, <1>4

(* The element that the sum takes out of a set next.                       *)
Picked(s) == CHOOSE x \in s : TRUE

(* It is one of the set, which has one element less without it.            *)
LEMMA PickedOut ==
    ASSUME NEW D, IsFiniteSet(D), NEW s \in SUBSET D, s # {}
    PROVE  /\ Picked(s) \in s /\ s \ {Picked(s)} \in SUBSET D
           /\ Cardinality(s) \in Nat /\ Cardinality(s) = Cardinality(s \ {Picked(s)}) + 1
           /\ Cardinality(s \ {Picked(s)}) \in Nat
<1>1. Picked(s) \in s
  BY DEF Picked
<1>2. IsFiniteSet(s)
  BY FS_Subset
<1>3. IsFiniteSet(s \ {Picked(s)}) /\ Cardinality(s \ {Picked(s)}) = Cardinality(s) - 1
  BY <1>1, <1>2, FS_RemoveElement
<1>4. Cardinality(s) \in Nat /\ Cardinality(s \ {Picked(s)}) \in Nat
  BY <1>2, <1>3, FS_CardinalityType
<1> QED
  BY <1>1, <1>3, <1>4

(* What holds of the empty set, and of a set when it holds without the     *)
(* element picked, holds of every subset of a finite set.                  *)
LEMMA SubsetInduction ==
    ASSUME NEW D, IsFiniteSet(D), NEW Good, {} \in Good,
           \A s \in SUBSET D : s # {} /\ s \ {Picked(s)} \in Good => s \in Good
    PROVE  \A s \in SUBSET D : s \in Good
<1> DEFINE Bad == {s \in SUBSET D : s \notin Good}
           Sizes == {Cardinality(s) : s \in Bad}
<1> SUFFICES ASSUME Bad # {} PROVE FALSE
  OBVIOUS
<1>1. Sizes \in SUBSET Nat /\ Sizes # {}
  BY FS_Subset, FS_CardinalityType
<1>2. PICK m \in Sizes : \A k \in Sizes : m <= k
  BY <1>1, LeastNumber
<1>3. PICK s \in Bad : m = Cardinality(s)
  BY <1>2
<1>4. s \in SUBSET D /\ s \notin Good /\ s # {}
  OBVIOUS
<1>5. s \ {Picked(s)} \in Bad
  BY <1>4, PickedOut
<1>6. m <= Cardinality(s \ {Picked(s)})
  BY <1>2, <1>5
<1> QED
  BY <1>3, <1>4, <1>6, PickedOut

-----------------------------------------------------------------------------
(* The recursion of SumFunction, on the sets of F.                         *)
Recursion(F, v, g) ==
    g = [s \in F |-> IF s = {} THEN 0 ELSE v[Picked(s)] + g[s \ {Picked(s)}]]

(* The library's recursive function, written out.                          *)
LEMMA SumExpanded ==
    ASSUME NEW v
    PROVE  SumFunction(v) = (CHOOSE g : Recursion(SUBSET (DOMAIN v), v, g))[DOMAIN v]
BY DEF SumFunction, SumFunctionOnSet, FoldFunctionOnSet, MapThenFoldSet, Picked, Recursion

(* The recursion has a solution: one for the sets of at most k elements    *)
(* gives one for those of k + 1.                                           *)
Small(D, k) == {s \in SUBSET D : Cardinality(s) <= k}

(* The step of that recursion.                                             *)
LEMMA OneMoreElement ==
    ASSUME NEW D, IsFiniteSet(D), NEW v, NEW k \in Nat, NEW g, Recursion(Small(D, k), v, g)
    PROVE  \E h : Recursion(Small(D, k + 1), v, h)
<1> DEFINE h == [s \in Small(D, k + 1) |-> IF s = {} THEN 0 ELSE v[Picked(s)] + g[s \ {Picked(s)}]]
<1>1. \A s \in Small(D, k + 1) : s # {} => s \ {Picked(s)} \in Small(D, k)
  BY PickedOut DEF Small
<1>2. \A s \in Small(D, k) : s \in Small(D, k + 1)
  <2> SUFFICES ASSUME NEW s \in Small(D, k) PROVE Cardinality(s) <= k + 1
    BY DEF Small
  <2>1. Cardinality(s) \in Nat /\ Cardinality(s) <= k
    BY FS_Subset, FS_CardinalityType DEF Small
  <2> QED
    BY <2>1
<1>3. \A s \in Small(D, k) : g[s] = h[s]
  BY <1>2 DEF Recursion
<1>4. \A s \in Small(D, k + 1) :
         h[s] = IF s = {} THEN 0 ELSE v[Picked(s)] + h[s \ {Picked(s)}]
  BY <1>1, <1>3
<1>5. Recursion(Small(D, k + 1), v, h)
  BY <1>4 DEF Recursion
<1> QED
  BY <1>5

(* It goes on up to the whole domain, or there were a least k where it     *)
(* stops.                                                                  *)
LEMMA SumExists ==
    ASSUME NEW v, IsFiniteSet(DOMAIN v)
    PROVE  \E g : Recursion(SUBSET (DOMAIN v), v, g)
<1> DEFINE D == DOMAIN v
           Bad == {k \in Nat : ~ \E g : Recursion(Small(D, k), v, g)}
<1>1. 0 \notin Bad
  <2> DEFINE g == [s \in Small(D, 0) |-> 0]
  <2>1. \A s \in Small(D, 0) : s = {}
    BY FS_Subset, FS_EmptySet, FS_CardinalityType, PickedOut DEF Small
  <2>2. Recursion(Small(D, 0), v, g)
    BY <2>1 DEF Recursion
  <2> QED
    BY <2>2
<1>2. Bad = {}
  <2> SUFFICES ASSUME Bad # {} PROVE FALSE
    OBVIOUS
  <2>1. PICK m \in Bad : \A k \in Bad : m <= k
    BY LeastNumber
  <2>2. m \in Nat /\ m # 0 /\ m - 1 \in Nat /\ m - 1 \notin Bad
    BY <1>1, <2>1
  <2>3. \E g : Recursion(Small(D, m - 1), v, g)
    BY <2>2
  <2>4. \E g : Recursion(Small(D, m - 1 + 1), v, g)
    BY <2>2, <2>3, OneMoreElement
  <2>5. m - 1 + 1 = m
    BY <2>2
  <2> QED
    BY <2>4, <2>5
<1>3. Cardinality(D) \in Nat
  BY FS_CardinalityType
<1>4. \E g : Recursion(Small(D, Cardinality(D)), v, g)
  BY <1>2, <1>3
<1>5. Small(D, Cardinality(D)) = SUBSET D
  BY FS_Subset DEF Small
<1> QED
  BY <1>4, <1>5

(* The sums of the parts of a domain.                                      *)
Sums(v) == CHOOSE g : Recursion(SUBSET (DOMAIN v), v, g)

(* The equations of the recursion, which every later proof rests on.       *)
LEMMA SumsOfParts ==
    ASSUME NEW v, IsFiniteSet(DOMAIN v)
    PROVE  /\ SumFunction(v) = Sums(v)[DOMAIN v] /\ Sums(v)[{}] = 0
           /\ \A s \in SUBSET (DOMAIN v) : s # {} =>
                 Sums(v)[s] = v[Picked(s)] + Sums(v)[s \ {Picked(s)}]
<1>1. Recursion(SUBSET (DOMAIN v), v, Sums(v))
  BY SumExists DEF Sums
<1>2. SumFunction(v) = Sums(v)[DOMAIN v]
  BY SumExpanded DEF Sums
<1> HIDE DEF Sums
<1> QED
  BY <1>1, <1>2 DEF Recursion

-----------------------------------------------------------------------------
(* Sums of numbers are numbers.                                            *)
LEMMA SumsAreNumbers ==
    ASSUME NEW D, IsFiniteSet(D), NEW v \in [D -> Int]
    PROVE  \A s \in SUBSET D : Sums(v)[s] \in Int
<1> DEFINE Good == {s \in SUBSET D : Sums(v)[s] \in Int}
<1>1. {} \in Good
  BY SumsOfParts
<1>2. ASSUME NEW s \in SUBSET D, s # {}, s \ {Picked(s)} \in Good
      PROVE  s \in Good
  <2>1. Sums(v)[s] = v[Picked(s)] + Sums(v)[s \ {Picked(s)}]
    BY <1>2, SumsOfParts
  <2>2. v[Picked(s)] \in Int /\ Sums(v)[s \ {Picked(s)}] \in Int
    BY <1>2, PickedOut
  <2> QED
    BY <2>1, <2>2
<1> HIDE DEF Good
<1>3. \A s \in SUBSET D : s \in Good
  BY <1>1, <1>2, SubsetInduction
<1> QED
  BY <1>3 DEF Good

(* A bound on every summand, by the summand of another sum, is one of the  *)
(* sums.                                                                   *)
LEMMA SumsAreBounded ==
    ASSUME NEW D, IsFiniteSet(D), NEW u \in [D -> Int], NEW w \in [D -> Int], NEW c \in Int,
           \A x \in D : u[x] <= c * w[x]
    PROVE  \A s \in SUBSET D : Sums(u)[s] <= c * Sums(w)[s]
<1> DEFINE Good == {s \in SUBSET D : Sums(u)[s] <= c * Sums(w)[s]}
<1>1. {} \in Good
  BY SumsOfParts
<1>2. ASSUME NEW s \in SUBSET D, s # {}, s \ {Picked(s)} \in Good
      PROVE  s \in Good
  <2> DEFINE x == Picked(s)
             r == s \ {x}
  <2>1. Sums(u)[s] = u[x] + Sums(u)[r] /\ Sums(w)[s] = w[x] + Sums(w)[r]
    BY <1>2, SumsOfParts
  <2>2. x \in D /\ r \in SUBSET D /\ Sums(u)[r] <= c * Sums(w)[r]
    BY <1>2, PickedOut
  <2>3. u[x] \in Int /\ w[x] \in Int /\ Sums(u)[r] \in Int /\ Sums(w)[r] \in Int /\ u[x] <= c * w[x]
    BY <2>2, SumsAreNumbers
  <2>4. \A a, b, p, q \in Int : a <= c * p /\ b <= c * q => a + b <= c * (p + q)
    OBVIOUS
  <2>5. Sums(u)[s] <= c * Sums(w)[s]
    BY <2>1, <2>2, <2>3, <2>4
  <2> QED
    BY <2>5
<1> HIDE DEF Good
<1>3. \A s \in SUBSET D : s \in Good
  BY <1>1, <1>2, SubsetInduction
<1> QED
  BY <1>3 DEF Good

(* The same from below.                                                    *)
LEMMA SumsAreBoundedBelow ==
    ASSUME NEW D, IsFiniteSet(D), NEW u \in [D -> Int], NEW w \in [D -> Int], NEW c \in Int,
           \A x \in D : c * w[x] <= u[x]
    PROVE  \A s \in SUBSET D : c * Sums(w)[s] <= Sums(u)[s]
<1> DEFINE Good == {s \in SUBSET D : c * Sums(w)[s] <= Sums(u)[s]}
<1>1. {} \in Good
  BY SumsOfParts
<1>2. ASSUME NEW s \in SUBSET D, s # {}, s \ {Picked(s)} \in Good
      PROVE  s \in Good
  <2> DEFINE x == Picked(s)
             r == s \ {x}
  <2>1. Sums(u)[s] = u[x] + Sums(u)[r] /\ Sums(w)[s] = w[x] + Sums(w)[r]
    BY <1>2, SumsOfParts
  <2>2. x \in D /\ r \in SUBSET D /\ c * Sums(w)[r] <= Sums(u)[r]
    BY <1>2, PickedOut
  <2>3. u[x] \in Int /\ w[x] \in Int /\ Sums(u)[r] \in Int /\ Sums(w)[r] \in Int /\ c * w[x] <= u[x]
    BY <2>2, SumsAreNumbers
  <2>4. \A a, b, p, q \in Int : c * p <= a /\ c * q <= b => c * (p + q) <= a + b
    OBVIOUS
  <2>5. c * Sums(w)[s] <= Sums(u)[s]
    BY <2>1, <2>2, <2>3, <2>4
  <2> QED
    BY <2>5
<1> HIDE DEF Good
<1>3. \A s \in SUBSET D : s \in Good
  BY <1>1, <1>2, SubsetInduction
<1> QED
  BY <1>3 DEF Good

(* The number of elements is a sum as well.                                *)
LEMMA CardinalityIsSum ==
    ASSUME NEW D, IsFiniteSet(D)
    PROVE  \A s \in SUBSET D : Sums([x \in D |-> 1])[s] = Cardinality(s)
<1> DEFINE one == [x \in D |-> 1]
           Good == {s \in SUBSET D : Sums(one)[s] = Cardinality(s)}
<1>1. DOMAIN one = D /\ \A x \in D : one[x] = 1
  OBVIOUS
<1> HIDE DEF one
<1>2. {} \in Good
  BY <1>1, SumsOfParts, FS_EmptySet
<1>3. ASSUME NEW s \in SUBSET D, s # {}, s \ {Picked(s)} \in Good
      PROVE  s \in Good
  <2>1. Sums(one)[s] = one[Picked(s)] + Sums(one)[s \ {Picked(s)}]
    BY <1>1, <1>3, SumsOfParts
  <2>2. one[Picked(s)] = 1 /\ Cardinality(s) = Cardinality(s \ {Picked(s)}) + 1
        /\ Cardinality(s \ {Picked(s)}) \in Nat
    BY <1>1, <1>3, PickedOut
  <2> QED
    BY <1>3, <2>1, <2>2
<1> HIDE DEF Good
<1>4. \A s \in SUBSET D : s \in Good
  BY <1>2, <1>3, SubsetInduction
<1> QED
  BY <1>4 DEF Good, one

-----------------------------------------------------------------------------
(* The sum of (v[x] - a)^2 is no less than 0.                              *)
LEMMA SquaredDistances ==
    ASSUME NEW D, IsFiniteSet(D), NEW v \in [D -> Int], NEW q \in [D -> Int],
           \A x \in D : q[x] = v[x] * v[x], NEW a \in Int
    PROVE  \A s \in SUBSET D : 0 <= Sums(q)[s] - 2 * (a * Sums(v)[s]) + Cardinality(s) * (a * a)
<1> DEFINE P(s) == 0 <= Sums(q)[s] - 2 * (a * Sums(v)[s]) + Cardinality(s) * (a * a)
           Good == {s \in SUBSET D : P(s)}
<1>1. {} \in Good
  BY SumsOfParts, FS_EmptySet
<1>2. ASSUME NEW s \in SUBSET D, s # {}, s \ {Picked(s)} \in Good
      PROVE  s \in Good
  <2> DEFINE x == Picked(s)
             r == s \ {x}
  <2>1. Sums(q)[s] = q[x] + Sums(q)[r] /\ Sums(v)[s] = v[x] + Sums(v)[r]
    BY <1>2, SumsOfParts
  <2>2. x \in D /\ r \in SUBSET D /\ P(r) /\ Cardinality(s) = Cardinality(r) + 1
        /\ Cardinality(r) \in Int
    BY <1>2, PickedOut
  <2>3. v[x] \in Int /\ Sums(v)[r] \in Int /\ Sums(q)[r] \in Int /\ q[x] = v[x] * v[x]
    BY <2>2, SumsAreNumbers
  <2>4. ASSUME NEW b \in Int, NEW S \in Int, NEW Q \in Int, NEW n \in Int,
               0 <= Q - 2 * (a * S) + n * (a * a)
        PROVE  0 <= (b * b + Q) - 2 * (a * (b + S)) + (n + 1) * (a * a)
    <3>1. 0 <= (b - a) * (b - a)
      OBVIOUS
    <3>2. (b - a) * (b - a) = b * b - 2 * (a * b) + a * a
      OBVIOUS
    <3>3. (b * b + Q) - 2 * (a * (b + S)) + (n + 1) * (a * a)
             = (Q - 2 * (a * S) + n * (a * a)) + (b * b - 2 * (a * b) + a * a)
      OBVIOUS
    <3> QED
      BY <2>4, <3>1, <3>2, <3>3
  <2>5. PICK b \in Int, S \in Int, Q \in Int, n \in Int :
               b = v[x] /\ S = Sums(v)[r] /\ Q = Sums(q)[r] /\ n = Cardinality(r)
    BY <2>2, <2>3
  <2>6. 0 <= (b * b + Q) - 2 * (a * (b + S)) + (n + 1) * (a * a)
    BY <2>2, <2>4, <2>5
  <2>7. Sums(q)[s] = b * b + Q /\ Sums(v)[s] = b + S /\ Cardinality(s) = n + 1
    BY <2>1, <2>2, <2>3, <2>5
  <2>8. P(s)
    BY <2>6, <2>7
  <2> QED
    BY <2>8
<1> HIDE DEF Good
<1>3. \A s \in SUBSET D : s \in Good
  BY <1>1, <1>2, SubsetInduction
<1> QED
  BY <1>3 DEF Good

(* The square of a sum is at most the sum of the squares, once for each    *)
(* summand (Cauchy and Schwarz, for a vector of ones).                     *)
LEMMA SquareOfSums ==
    ASSUME NEW D, IsFiniteSet(D), NEW v \in [D -> Int], NEW q \in [D -> Int],
           \A x \in D : q[x] = v[x] * v[x]
    PROVE  \A s \in SUBSET D : Sums(v)[s] * Sums(v)[s] <= Cardinality(s) * Sums(q)[s]
<1> DEFINE P(s) == Sums(v)[s] * Sums(v)[s] <= Cardinality(s) * Sums(q)[s]
           Good == {s \in SUBSET D : P(s)}
<1>1. {} \in Good
  BY SumsOfParts, FS_EmptySet
<1>2. ASSUME NEW s \in SUBSET D, s # {}, s \ {Picked(s)} \in Good
      PROVE  s \in Good
  <2> DEFINE x == Picked(s)
             r == s \ {x}
  <2>1. Sums(q)[s] = q[x] + Sums(q)[r] /\ Sums(v)[s] = v[x] + Sums(v)[r]
    BY <1>2, SumsOfParts
  <2>2. /\ x \in D /\ r \in SUBSET D /\ Cardinality(s) = Cardinality(r) + 1
        /\ Cardinality(r) \in Int
        /\ Sums(v)[r] * Sums(v)[r] <= Cardinality(r) * Sums(q)[r]
    <3>1. x \in D /\ r \in SUBSET D /\ Cardinality(s) = Cardinality(r) + 1 /\ Cardinality(r) \in Nat
      BY <1>2, PickedOut
    <3>2. P(r)
      BY <1>2
    <3> QED
      BY <3>1, <3>2
  <2>3. v[x] \in Int /\ Sums(v)[r] \in Int /\ Sums(q)[r] \in Int /\ q[x] = v[x] * v[x]
    BY <2>2, SumsAreNumbers
  <2>4. 0 <= Sums(q)[r] - 2 * (v[x] * Sums(v)[r]) + Cardinality(r) * (v[x] * v[x])
    BY <2>2, <2>3, SquaredDistances
  <2>5. ASSUME NEW b \in Int, NEW S \in Int, NEW Q \in Int, NEW n \in Int,
               S * S <= n * Q, 0 <= Q - 2 * (b * S) + n * (b * b)
        PROVE  (b + S) * (b + S) <= (n + 1) * (b * b + Q)
    <3>1. (b + S) * (b + S) = b * b + 2 * (b * S) + S * S
      OBVIOUS
    <3>2. (n + 1) * (b * b + Q) = n * (b * b) + n * Q + b * b + Q
      OBVIOUS
    <3> QED
      BY <2>5, <3>1, <3>2
  <2>6. PICK b \in Int, S \in Int, Q \in Int, n \in Int :
               b = v[x] /\ S = Sums(v)[r] /\ Q = Sums(q)[r] /\ n = Cardinality(r)
    BY <2>2, <2>3
  <2>7. (b + S) * (b + S) <= (n + 1) * (b * b + Q)
    BY <2>2, <2>4, <2>5, <2>6
  <2>8. Sums(q)[s] = b * b + Q /\ Sums(v)[s] = b + S /\ Cardinality(s) = n + 1
    BY <2>1, <2>2, <2>3, <2>6
  <2>9. P(s)
    BY <2>7, <2>8
  <2> QED
    BY <2>9
<1> HIDE DEF Good
<1>3. \A s \in SUBSET D : s \in Good
  BY <1>1, <1>2, SubsetInduction
<1> QED
  BY <1>3 DEF Good

-----------------------------------------------------------------------------
(* The same of the sums that Posture takes.                                *)
LEMMA SumOfNone ==
    ASSUME NEW v, DOMAIN v = {}
    PROVE  SumFunction(v) = 0
BY SumsOfParts, FS_EmptySet

(* The sum of integers is one.                                             *)
LEMMA SumIsNumber ==
    ASSUME NEW D, IsFiniteSet(D), NEW v \in [D -> Int]
    PROVE  SumFunction(v) \in Int
<1>1. SumFunction(v) = Sums(v)[D] /\ D \in SUBSET D
  BY SumsOfParts
<1> QED
  BY <1>1, SumsAreNumbers

(* Terms bounded by multiples of others, and so the sum.                   *)
LEMMA SumIsBounded ==
    ASSUME NEW D, IsFiniteSet(D), NEW u \in [D -> Int], NEW w \in [D -> Int], NEW c \in Int,
           \A x \in D : u[x] <= c * w[x]
    PROVE  SumFunction(u) <= c * SumFunction(w)
<1>1. SumFunction(u) = Sums(u)[D] /\ SumFunction(w) = Sums(w)[D] /\ D \in SUBSET D
  BY SumsOfParts
<1>2. Sums(u)[D] <= c * Sums(w)[D]
  BY <1>1, SumsAreBounded
<1> QED
  BY <1>1, <1>2

(* The same from below.                                                    *)
LEMMA SumIsBoundedBelow ==
    ASSUME NEW D, IsFiniteSet(D), NEW u \in [D -> Int], NEW w \in [D -> Int], NEW c \in Int,
           \A x \in D : c * w[x] <= u[x]
    PROVE  c * SumFunction(w) <= SumFunction(u)
<1>1. SumFunction(u) = Sums(u)[D] /\ SumFunction(w) = Sums(w)[D] /\ D \in SUBSET D
  BY SumsOfParts
<1>2. c * Sums(w)[D] <= Sums(u)[D]
  BY <1>1, SumsAreBoundedBelow
<1> QED
  BY <1>1, <1>2

(* The sum of a multiple less something is the multiple of the sum less    *)
(* the sum of that.                                                        *)
LessThanTimes(c, v, w) == [x \in DOMAIN v |-> c * v[x] - w[x]]
(* The sum of c * v[x] - w[x] is c times the sum of v less the sum of w.   *)
LEMMA SumIsLinear ==
    ASSUME NEW D, IsFiniteSet(D), NEW v \in [D -> Int], NEW w \in [D -> Int], NEW c \in Int
    PROVE  SumFunction(LessThanTimes(c, v, w)) = c * SumFunction(v) - SumFunction(w)
<1> DEFINE u == LessThanTimes(c, v, w)
           Good == {s \in SUBSET D : Sums(u)[s] = c * Sums(v)[s] - Sums(w)[s]}
<1>1. DOMAIN u = D /\ \A x \in D : u[x] = c * v[x] - w[x]
  BY DEF LessThanTimes
<1> HIDE DEF u
<1>2. {} \in Good
  BY <1>1, SumsOfParts
<1>3. ASSUME NEW s \in SUBSET D, s # {}, s \ {Picked(s)} \in Good
      PROVE  s \in Good
  <2> DEFINE x == Picked(s)
             r == s \ {x}
  <2>1. /\ Sums(u)[s] = u[x] + Sums(u)[r] /\ Sums(v)[s] = v[x] + Sums(v)[r]
        /\ Sums(w)[s] = w[x] + Sums(w)[r]
    BY <1>1, <1>3, SumsOfParts
  <2>2. x \in D /\ r \in SUBSET D /\ Sums(u)[r] = c * Sums(v)[r] - Sums(w)[r]
    BY <1>3, PickedOut
  <2>3. v[x] \in Int /\ w[x] \in Int /\ Sums(v)[r] \in Int /\ Sums(w)[r] \in Int
        /\ u[x] = c * v[x] - w[x]
    BY <1>1, <2>2, SumsAreNumbers
  <2>4. \A p, q, y, z \in Int : (c * p - q) + (c * y - z) = c * (p + y) - (q + z)
    OBVIOUS
  <2>5. Sums(u)[s] = c * Sums(v)[s] - Sums(w)[s]
    BY <2>1, <2>2, <2>3, <2>4
  <2> QED
    BY <2>5
<1> HIDE DEF Good
<1>4. \A s \in SUBSET D : s \in Good
  BY <1>2, <1>3, SubsetInduction
<1>5. D \in SUBSET D /\ Sums(u)[D] = c * Sums(v)[D] - Sums(w)[D]
  BY <1>4 DEF Good
<1>6. SumFunction(u) = Sums(u)[D] /\ SumFunction(v) = Sums(v)[D] /\ SumFunction(w) = Sums(w)[D]
  BY <1>1, SumsOfParts
<1> QED
  BY <1>5, <1>6 DEF u

(* Summing ones is counting.                                               *)
LEMMA SumOfOnes ==
    ASSUME NEW D, IsFiniteSet(D)
    PROVE  SumFunction([x \in D |-> 1]) = Cardinality(D)
<1> DEFINE one == [x \in D |-> 1]
<1>1. DOMAIN one = D /\ D \in SUBSET D
  OBVIOUS
<1>2. Sums(one)[D] = Cardinality(D)
  BY CardinalityIsSum
<1> HIDE DEF one
<1>3. SumFunction(one) = Sums(one)[D]
  BY <1>1, SumsOfParts
<1> QED
  BY <1>2, <1>3 DEF one

(* Bounds that are the same for all.                                       *)
LEMMA SumBetween ==
    ASSUME NEW D, IsFiniteSet(D), NEW v \in [D -> Int], NEW lo \in Int, NEW hi \in Int,
           \A x \in D : lo <= v[x] /\ v[x] <= hi
    PROVE  lo * Cardinality(D) <= SumFunction(v) /\ SumFunction(v) <= hi * Cardinality(D)
<1> DEFINE one == [x \in D |-> 1]
<1>1. one \in [D -> Int] /\ (\A x \in D : one[x] = 1) /\ SumFunction(one) = Cardinality(D)
  BY SumOfOnes
<1> HIDE DEF one
<1>2. \A x \in D : v[x] \in Int /\ lo * one[x] <= v[x] /\ v[x] <= hi * one[x]
  BY <1>1
<1>3. lo * SumFunction(one) <= SumFunction(v)
  BY <1>1, <1>2, SumIsBoundedBelow
<1>4. SumFunction(v) <= hi * SumFunction(one)
  BY <1>1, <1>2, SumIsBounded
<1> QED
  BY <1>1, <1>3, <1>4

(* The square of a sum is at most the number of its terms times the sum    *)
(* of their squares.                                                       *)
LEMMA SquareOfSum ==
    ASSUME NEW D, IsFiniteSet(D), NEW v \in [D -> Int], NEW q \in [D -> Int],
           \A x \in D : q[x] = v[x] * v[x]
    PROVE  SumFunction(v) * SumFunction(v) <= Cardinality(D) * SumFunction(q)
<1>1. SumFunction(v) = Sums(v)[D] /\ SumFunction(q) = Sums(q)[D] /\ D \in SUBSET D
  BY SumsOfParts
<1>2. Sums(v)[D] * Sums(v)[D] <= Cardinality(D) * Sums(q)[D]
  BY <1>1, SquareOfSums
<1> QED
  BY <1>1, <1>2

-----------------------------------------------------------------------------
(* Counting the elements of D by their keys counts each of them once.      *)
At(D, host, H) == {i \in D : host[i] \in H}
LEMMA EachCountedOnce ==
    ASSUME NEW D, IsFiniteSet(D), NEW host, DOMAIN host = D, NEW K, IsFiniteSet(K),
           \A i \in D : host[i] \in K,
           NEW c, c = [k \in K |-> Cardinality({i \in D : host[i] = k})]
    PROVE  SumFunction(c) = Cardinality(D)
<1> DEFINE Good == {s \in SUBSET K : Sums(c)[s] = Cardinality(At(D, host, s))}
<1>1. DOMAIN c = K /\ \A k \in K : c[k] = Cardinality(At(D, host, {k}))
  BY DEF At
<1>2. {} \in Good
  <2>1. At(D, host, {}) = {}
    BY DEF At
  <2> QED
    BY <1>1, <2>1, SumsOfParts, FS_EmptySet
<1>3. ASSUME NEW s \in SUBSET K, s # {}, s \ {Picked(s)} \in Good
      PROVE  s \in Good
  <2> DEFINE x == Picked(s)
             r == s \ {x}
  <2>1. Sums(c)[s] = c[x] + Sums(c)[r]
    BY <1>1, <1>3, SumsOfParts
  <2>2. x \in s /\ r \in SUBSET K /\ Sums(c)[r] = Cardinality(At(D, host, r))
    BY <1>3, PickedOut
  <2>3. c[x] = Cardinality(At(D, host, {x}))
    BY <1>1, <2>2
  <2>4. /\ At(D, host, s) = At(D, host, {x}) \cup At(D, host, r)
        /\ At(D, host, {x}) \cap At(D, host, r) = {}
    BY <2>2 DEF At
  <2>5. IsFiniteSet(At(D, host, {x})) /\ IsFiniteSet(At(D, host, r))
    <3>1. At(D, host, {x}) \subseteq D /\ At(D, host, r) \subseteq D
      BY DEF At
    <3> QED
      BY <3>1, FS_Subset
  <2>6. Cardinality(At(D, host, s)) = Cardinality(At(D, host, {x})) + Cardinality(At(D, host, r)) - 0
    <3>1. Cardinality(At(D, host, {x}) \cup At(D, host, r))
            = Cardinality(At(D, host, {x})) + Cardinality(At(D, host, r))
              - Cardinality(At(D, host, {x}) \cap At(D, host, r))
      BY <2>5, FS_Union
    <3>2. Cardinality({}) = 0
      BY FS_EmptySet
    <3> QED
      BY <2>4, <3>1, <3>2
  <2>7. Cardinality(At(D, host, {x})) \in Nat /\ Cardinality(At(D, host, r)) \in Nat
    BY <2>5, FS_CardinalityType
  <2>8. Sums(c)[s] = Cardinality(At(D, host, s))
    BY <2>1, <2>2, <2>3, <2>6, <2>7
  <2> QED
    BY <2>8
<1> HIDE DEF Good
<1>4. \A s \in SUBSET K : s \in Good
  BY <1>2, <1>3, SubsetInduction
<1>5. K \in SUBSET K /\ Sums(c)[K] = Cardinality(At(D, host, K))
  BY <1>4 DEF Good
<1>6. At(D, host, K) = D
  BY DEF At
<1> QED
  BY <1>1, <1>5, <1>6, SumsOfParts

(* No term of a sum of natural numbers is more than the sum.               *)
LEMMA TermOfSum ==
    ASSUME NEW D, IsFiniteSet(D), NEW v \in [D -> Int], \A x \in D : 0 <= v[x], NEW y \in D
    PROVE  v[y] <= SumFunction(v)
<1> DEFINE P(s) == 0 <= Sums(v)[s] /\ (y \in s => v[y] <= Sums(v)[s])
           Good == {s \in SUBSET D : P(s)}
<1>1. {} \in Good
  BY SumsOfParts
<1>2. ASSUME NEW s \in SUBSET D, s # {}, s \ {Picked(s)} \in Good
      PROVE  s \in Good
  <2> DEFINE x == Picked(s)
             r == s \ {x}
  <2>1. Sums(v)[s] = v[x] + Sums(v)[r]
    BY <1>2, SumsOfParts
  <2>2. x \in D /\ r \in SUBSET D /\ P(r)
    BY <1>2, PickedOut
  <2>3. v[x] \in Int /\ v[y] \in Int /\ Sums(v)[r] \in Int /\ 0 <= v[x]
    BY <2>2, SumsAreNumbers
  <2>4. y \in s => y = x \/ y \in r
    OBVIOUS
  <2> HIDE DEF x, r
  <2>5. P(s)
    BY <2>1, <2>2, <2>3, <2>4
  <2> QED
    BY <2>5
<1> HIDE DEF Good
<1>3. \A s \in SUBSET D : s \in Good
  BY <1>1, <1>2, SubsetInduction
<1>4. P(D)
  BY <1>3 DEF Good
<1> QED
  BY <1>4, SumsOfParts
=============================================================================
