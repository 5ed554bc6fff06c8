-------------------------- MODULE Induction_proofs --------------------------
(***************************************************************************)
(* Induction over data, and what it gives for sums.  The induction theorems*)
(* of the library take an operator, which no installed prover can          *)
(* instantiate; the lemmas here take a set instead: of the numbers, or of  *)
(* the subsets of a finite set, for which a claim holds.  A fold of the    *)
(* community modules takes the elements of a finite set out one by one.    *)
(***************************************************************************)
EXTENDS Integers, Sequences, FiniteSets, FiniteSetsExt, Functions, Folds,
        FiniteSetTheorems, FunctionTheorems, NaturalsInduction, WellFoundedInduction, TLAPS

-----------------------------------------------------------------------------
(* A set of naturals has a least element.                                  *)
LEMMA LeastExists ==
    ASSUME NEW S \in SUBSET Nat, S # {}
    PROVE  \E m \in S : \A k \in S : m <= k
<1> DEFINE R == OpToRel(<, Nat)
<1>1. IsWellFoundedOn(R, Nat)
    BY NatLessThanWellFounded
<1>2. \A x, y \in Nat : y < x => <<y, x>> \in R
    BY DEF OpToRel
<1> HIDE DEF R
<1>3. \E x \in S : \A y \in S : ~(<<y, x>> \in R)
    BY <1>1, WFMin
<1>4. PICK x \in S : \A y \in S : ~(<<y, x>> \in R)
    BY <1>3
<1>5. \A y \in S : ~(y < x)
    BY <1>2, <1>4
<1>6. QED
    BY <1>5

LEMMA MinIsLeast ==
    ASSUME NEW S \in SUBSET Nat, S # {}
    PROVE  Min(S) \in S /\ \A k \in S : Min(S) <= k
BY LeastExists DEF Min

(* What exceeds a set of numbers changes its least only if it is empty.    *)
LEMMA MinJoined ==
    ASSUME NEW S \in SUBSET Nat, NEW n \in Nat, \A i \in S : i < n
    PROVE  Min(S \cup {n}) = IF S = {} THEN n ELSE Min(S)
<1>1. S \cup {n} \in SUBSET Nat /\ S \cup {n} # {}
  OBVIOUS
<1>2. Min(S \cup {n}) \in S \cup {n} /\ \A k \in S \cup {n} : Min(S \cup {n}) <= k
  BY <1>1, MinIsLeast
<1>3. CASE S = {}
  BY <1>2, <1>3
<1>4. CASE S # {}
  <2>1. Min(S) \in S /\ \A k \in S : Min(S) <= k
    BY <1>4, MinIsLeast
  <2>2. Min(S \cup {n}) \in S
    <3>1. Min(S) < n /\ Min(S \cup {n}) <= Min(S) /\ Min(S) \in Nat
      BY <1>2, <2>1
    <3>2. Min(S \cup {n}) # n
      BY <3>1
    <3>. QED  BY <1>2, <3>2
  <2>3. Min(S \cup {n}) <= Min(S) /\ Min(S) <= Min(S \cup {n})
    BY <1>2, <2>1, <2>2
  <2>4. Min(S \cup {n}) \in Nat /\ Min(S) \in Nat
    BY <1>2, <2>1
  <2>5. Min(S \cup {n}) = Min(S)
    BY <2>3, <2>4
  <2>. QED  BY <1>4, <2>5
<1>. QED  BY <1>3, <1>4

(* A bounded set of numbers has a greatest element.                        *)
LEMMA MaxIs ==
    ASSUME NEW S \in SUBSET Nat, NEW m \in S, \A k \in S : k <= m
    PROVE  Max(S) = m
<1>1. Max(S) \in S /\ \A k \in S : Max(S) >= k
  BY DEF Max
<1>2. Max(S) >= m /\ Max(S) <= m /\ Max(S) \in Nat /\ m \in Nat
  BY <1>1
<1>. QED  BY <1>2

LEMMA MaxIsGreatest ==
    ASSUME NEW n \in Nat, NEW S \in SUBSET (1 .. n), S # {}
    PROVE  Max(S) \in S /\ \A k \in S : k <= Max(S)
<1> DEFINE R == {n - k : k \in S}
<1>1. R \in SUBSET Nat /\ R # {}
  <2>1. \A k \in S : k \in 1 .. n /\ n - k \in Nat
    OBVIOUS
  <2>. QED  BY <2>1
<1>2. PICK r \in R : \A k \in R : r <= k
  BY <1>1, LeastExists
<1>3. PICK m \in S : r = n - m
  BY <1>2
<1>4. \A k \in S : k <= m
  <2> SUFFICES ASSUME NEW k \in S PROVE k <= m
    OBVIOUS
  <2>1. r <= n - k
    BY <1>2
  <2>. QED  BY <1>3, <2>1
<1>5. S \in SUBSET Nat
  OBVIOUS
<1>. QED  BY <1>3, <1>4, <1>5, MaxIs

(* Induction on the naturals.                                              *)
LEMMA EveryNumber ==
    ASSUME NEW Good \in SUBSET Nat, 0 \in Good, \A n \in Good : n + 1 \in Good
    PROVE  \A n \in Nat : n \in Good
<1> SUFFICES ASSUME NEW bad \in Nat \ Good PROVE FALSE
    OBVIOUS
<1>1. PICK m \in Nat \ Good : \A k \in Nat \ Good : m <= k
    BY LeastExists
<1>2. m - 1 \in Nat /\ (m - 1) + 1 = m
    BY <1>1
<1>3. m - 1 \in Good
    BY <1>1, <1>2
<1>4. QED
    BY <1>1, <1>2, <1>3

-----------------------------------------------------------------------------
(* Sums over a function with a finite domain.  The sum takes the elements  *)
(* out one by one.                                                         *)
Pick(s) == CHOOSE x \in s : TRUE
Onward(f, g) ==
    [s \in SUBSET DOMAIN f |-> IF s = {} THEN 0 ELSE f[Pick(s)] + g[s \ {Pick(s)}]]
Partial(f) == CHOOSE g : g = Onward(f, g)
Whole(f) == Partial(f)[DOMAIN f]

LEMMA FoldIs ==
    ASSUME NEW f PROVE FoldFunction(+, 0, f) = Whole(f)
BY DEF FoldFunction, FoldFunctionOnSet, MapThenFoldSet, Whole, Partial, Onward, Pick

LEMMA PickOne ==
    ASSUME NEW D, IsFiniteSet(D), NEW s \in SUBSET D, s # {}
    PROVE  /\ Pick(s) \in s /\ s \ {Pick(s)} \in SUBSET D
           /\ Cardinality(s) \in Nat /\ Cardinality(s \ {Pick(s)}) = Cardinality(s) - 1
           /\ Cardinality(s \ {Pick(s)}) \in Nat
<1>1. Pick(s) \in s
    BY DEF Pick
<1>2. IsFiniteSet(s)
    BY FS_Subset
<1>3. QED
    BY <1>1, <1>2, FS_RemoveElement, FS_CardinalityType

(* Induction on the subsets of a finite set, in the order of the fold.     *)
LEMMA EverySubset ==
    ASSUME NEW D, IsFiniteSet(D), NEW Good \in SUBSET SUBSET D, {} \in Good,
           \A s \in SUBSET D : s # {} /\ s \ {Pick(s)} \in Good => s \in Good
    PROVE  \A s \in SUBSET D : s \in Good
<1> SUFFICES ASSUME NEW bad \in SUBSET D, bad \notin Good PROVE FALSE
    OBVIOUS
<1> DEFINE Sizes == {Cardinality(s) : s \in (SUBSET D) \ Good}
<1>1. \A s \in SUBSET D : Cardinality(s) \in Nat
    BY FS_Subset, FS_CardinalityType
<1>2. Sizes \in SUBSET Nat /\ Sizes # {}
    BY <1>1
<1> HIDE DEF Sizes
<1>3. PICK m \in Sizes : \A k \in Sizes : m <= k
    BY <1>2, LeastExists
<1>4. PICK s \in (SUBSET D) \ Good : m = Cardinality(s)
    BY <1>3 DEF Sizes
<1>5. s # {}
    BY <1>4
<1>6. s \ {Pick(s)} \in (SUBSET D) \ Good
    BY <1>4, <1>5
<1>7. Cardinality(s \ {Pick(s)}) \in Sizes
    BY <1>6 DEF Sizes
<1>8. m <= Cardinality(s \ {Pick(s)})
    BY <1>3, <1>7
<1>9. QED
    BY <1>4, <1>5, <1>8, PickOne

(* The recursion of a fold over a finite domain has a solution.            *)
LEMMA Recursion ==
    ASSUME NEW f, IsFiniteSet(DOMAIN f)
    PROVE  Partial(f) = Onward(f, Partial(f))
<1> DEFINE D == DOMAIN f
<1> DEFINE Upto(g, n) == /\ g = [s \in SUBSET D |-> g[s]]
                         /\ \A s \in SUBSET D : Cardinality(s) <= n => g[s] = Onward(f, g)[s]
<1> DEFINE Good == {n \in Nat : \E g : Upto(g, n)}
<1>1. 0 \in Good
  <2> DEFINE g == [s \in SUBSET D |-> 0]
  <2>1. ASSUME NEW s \in SUBSET D, Cardinality(s) <= 0
        PROVE  g[s] = Onward(f, g)[s]
    <3>1. IsFiniteSet(s) /\ Cardinality(s) \in Nat
      BY FS_Subset, FS_CardinalityType
    <3>2. s = {}
      BY <2>1, <3>1, FS_EmptySet
    <3>. QED  BY <3>2 DEF Onward
  <2>2. Upto(g, 0)
    BY <2>1
  <2>. QED  BY <2>2
<1>2. ASSUME NEW n \in Good
      PROVE  n + 1 \in Good
  <2>1. n \in Nat
    OBVIOUS
  <2>2. PICK g : Upto(g, n)
    OBVIOUS
  <2> DEFINE h == Onward(f, g)
  <2>3. ASSUME NEW s \in SUBSET D, Cardinality(s) <= n + 1
        PROVE  h[s] = Onward(f, h)[s]
    <3>1. CASE s = {}
      BY <3>1 DEF Onward
    <3>2. CASE s # {}
      <4>1. /\ s \ {Pick(s)} \in SUBSET D
            /\ Cardinality(s \ {Pick(s)}) = Cardinality(s) - 1
            /\ Cardinality(s) \in Nat
        BY <3>2, PickOne
      <4>2. Cardinality(s \ {Pick(s)}) <= n
        BY <2>1, <2>3, <4>1
      <4>5. g[s \ {Pick(s)}] = h[s \ {Pick(s)}]
        BY <2>2, <4>1, <4>2
      <4>3. h[s] = f[Pick(s)] + g[s \ {Pick(s)}]
        BY <3>2 DEF Onward
      <4>4. Onward(f, h)[s] = f[Pick(s)] + h[s \ {Pick(s)}]
        BY <3>2 DEF Onward
      <4>. QED  BY <4>3, <4>4, <4>5
    <3>. QED  BY <3>1, <3>2
  <2>4. h = [s \in SUBSET D |-> h[s]]
    BY DEF Onward
  <2>5. Upto(h, n + 1)
    BY <2>3, <2>4
  <2> HIDE DEF h, Upto
  <2>6. \E some : Upto(some, n + 1)
    BY <2>5
  <2>. QED  BY <2>1, <2>6
<1>3. \A n \in Nat : n \in Good
  <2> HIDE DEF Good
  <2>1. Good \in SUBSET Nat
    BY DEF Good
  <2>. QED  BY <1>1, <1>2, <2>1, EveryNumber
<1>4. Cardinality(D) \in Nat
    BY FS_CardinalityType
<1>5. PICK g : Upto(g, Cardinality(D))
    BY <1>3, <1>4
<1>6. \A s \in SUBSET D : Cardinality(s) <= Cardinality(D)
    BY FS_Subset
<1>7. \A s \in SUBSET D : g[s] = Onward(f, g)[s]
    BY <1>5, <1>6
<1>8. g = [s \in SUBSET D |-> Onward(f, g)[s]]
    BY <1>5, <1>7
<1>9. g = Onward(f, g)
    BY <1>8 DEF Onward
<1>. QED  BY <1>9 DEF Partial

LEMMA PartialIs ==
    ASSUME NEW f, IsFiniteSet(DOMAIN f), NEW s \in SUBSET DOMAIN f
    PROVE  Partial(f)[s] = IF s = {} THEN 0 ELSE f[Pick(s)] + Partial(f)[s \ {Pick(s)}]
BY Recursion DEF Onward

LEMMA PartialNat ==
    ASSUME NEW D, IsFiniteSet(D), NEW f \in [D -> Nat]
    PROVE  \A s \in SUBSET D : Partial(f)[s] \in Nat
<1> DEFINE Good == {s \in SUBSET D : Partial(f)[s] \in Nat}
<1>1. {} \in Good
  <2>1. DOMAIN f = D /\ {} \in SUBSET D
    OBVIOUS
  <2>2. Partial(f)[{}] = 0
    BY <2>1, PartialIs
  <2>. QED  BY <2>1, <2>2
<1>2. ASSUME NEW s \in SUBSET D, s # {}, s \ {Pick(s)} \in Good
      PROVE  s \in Good
  <2>1. Partial(f)[s] = f[Pick(s)] + Partial(f)[s \ {Pick(s)}]
    BY <1>2, PartialIs
  <2>2. Pick(s) \in D
    BY <1>2, PickOne
  <2>3. f[Pick(s)] \in Nat
    BY <2>2
  <2>. QED  BY <1>2, <2>1, <2>3
<1> HIDE DEF Good
<1>3. Good \in SUBSET SUBSET D
    BY DEF Good
<1>4. \A s \in SUBSET D : s \in Good
    BY <1>1, <1>2, <1>3, EverySubset
<1>. QED  BY <1>4 DEF Good

(* A sum goes up by what one of its terms goes up by.                      *)
LEMMA SumRaised ==
    ASSUME NEW D, IsFiniteSet(D), NEW f \in [D -> Nat], NEW x \in D
    PROVE  Whole([f EXCEPT ![x] = @ + 1]) = Whole(f) + 1
<1> DEFINE g == [f EXCEPT ![x] = @ + 1]
<1> DEFINE Good == {s \in SUBSET D : Partial(g)[s] = Partial(f)[s] + (IF x \in s THEN 1 ELSE 0)}
<1>0. g \in [D -> Nat] /\ DOMAIN g = D /\ DOMAIN f = D
         /\ \A y \in D : g[y] = f[y] + (IF x = y THEN 1 ELSE 0)
    OBVIOUS
<1> HIDE DEF g
<1>1. {} \in Good
  <2>1. {} \in SUBSET D
    OBVIOUS
  <2>2. Partial(f)[{}] = 0 /\ Partial(g)[{}] = 0
    BY <1>0, <2>1, PartialIs
  <2>. QED  BY <2>1, <2>2
<1>2. ASSUME NEW s \in SUBSET D, s # {}, s \ {Pick(s)} \in Good
      PROVE  s \in Good
  <2> DEFINE y == Pick(s)
             rest == s \ {y}
  <2>1. /\ Partial(f)[s] = f[y] + Partial(f)[rest]
        /\ Partial(g)[s] = g[y] + Partial(g)[rest]
    BY <1>0, <1>2, PartialIs
  <2>2. y \in s /\ rest \in SUBSET D
    BY <1>2, PickOne
  <2>3. f[y] \in Nat /\ g[y] = f[y] + (IF x = y THEN 1 ELSE 0)
    BY <1>0, <2>2
  <2>4. Partial(f)[rest] \in Nat
    BY <2>2, PartialNat
  <2>5. Partial(g)[rest] = Partial(f)[rest] + (IF x \in rest THEN 1 ELSE 0)
    BY <1>2
  <2>6. x \in s <=> x = y \/ x \in rest
    BY <2>2
  <2>7. ~(x = y /\ x \in rest)
    OBVIOUS
  <2> HIDE DEF y, rest
  <2>8. Partial(g)[s] = Partial(f)[s] + (IF x \in s THEN 1 ELSE 0)
    BY <2>1, <2>3, <2>4, <2>5, <2>6, <2>7
  <2>. QED  BY <2>8
<1> HIDE DEF Good
<1>3. Good \in SUBSET SUBSET D
    BY DEF Good
<1>4. \A s \in SUBSET D : s \in Good
    BY <1>1, <1>2, <1>3, EverySubset
<1>5. D \in Good
    BY <1>4
<1>. QED  BY <1>0, <1>5 DEF Good, Whole, g

(* A sum of smaller terms is smaller.                                      *)
LEMMA SumBounded ==
    ASSUME NEW D, IsFiniteSet(D), NEW f \in [D -> Nat], NEW g \in [D -> Nat],
           \A x \in D : f[x] <= g[x]
    PROVE  Whole(f) <= Whole(g)
<1> DEFINE Good == {s \in SUBSET D : Partial(f)[s] <= Partial(g)[s]}
<1>1. {} \in Good
  <2>1. DOMAIN f = D /\ DOMAIN g = D /\ {} \in SUBSET D
    OBVIOUS
  <2>2. Partial(f)[{}] = 0 /\ Partial(g)[{}] = 0
    BY <2>1, PartialIs
  <2>. QED  BY <2>1, <2>2
<1>2. ASSUME NEW s \in SUBSET D, s # {}, s \ {Pick(s)} \in Good
      PROVE  s \in Good
  <2> DEFINE y == Pick(s)
             rest == s \ {y}
  <2>1. /\ Partial(f)[s] = f[y] + Partial(f)[rest]
        /\ Partial(g)[s] = g[y] + Partial(g)[rest]
    BY <1>2, PartialIs
  <2>2. y \in D /\ rest \in SUBSET D
    BY <1>2, PickOne
  <2>3. f[y] \in Nat /\ g[y] \in Nat /\ f[y] <= g[y]
    BY <2>2
  <2>4. Partial(f)[rest] \in Nat /\ Partial(g)[rest] \in Nat
    BY <2>2, PartialNat
  <2>5. Partial(f)[rest] <= Partial(g)[rest]
    BY <1>2
  <2> HIDE DEF y, rest
  <2>. QED  BY <2>1, <2>3, <2>4, <2>5
<1> HIDE DEF Good
<1>3. Good \in SUBSET SUBSET D
    BY DEF Good
<1>4. \A s \in SUBSET D : s \in Good
    BY <1>1, <1>2, <1>3, EverySubset
<1>5. D \in Good
    BY <1>4
<1>. QED  BY <1>5 DEF Good, Whole

LEMMA SumOfZeros ==
    ASSUME NEW D, IsFiniteSet(D)
    PROVE  Whole([x \in D |-> 0]) = 0
<1> DEFINE f == [x \in D |-> 0]
<1> DEFINE Good == {s \in SUBSET D : Partial(f)[s] = 0}
<1>1. {} \in Good
  <2>1. DOMAIN f = D /\ {} \in SUBSET D
    OBVIOUS
  <2>2. Partial(f)[{}] = 0
    BY <2>1, PartialIs
  <2>. QED  BY <2>1, <2>2
<1>2. ASSUME NEW s \in SUBSET D, s # {}, s \ {Pick(s)} \in Good
      PROVE  s \in Good
  <2>1. Partial(f)[s] = f[Pick(s)] + Partial(f)[s \ {Pick(s)}]
    BY <1>2, PartialIs
  <2>2. f[Pick(s)] = 0
    BY <1>2, PickOne
  <2>. QED  BY <1>2, <2>1, <2>2
<1> HIDE DEF Good
<1>3. Good \in SUBSET SUBSET D
    BY DEF Good
<1>4. \A s \in SUBSET D : s \in Good
    BY <1>1, <1>2, <1>3, EverySubset
<1>5. D \in Good
    BY <1>4
<1>. QED  BY <1>5 DEF Good, Whole

LEMMA SumNat ==
    ASSUME NEW D, IsFiniteSet(D), NEW f \in [D -> Nat]
    PROVE  Whole(f) \in Nat
BY PartialNat DEF Whole

(* Part of a sum is the sum over that part.                                *)
LEMMA SumOfPart ==
    ASSUME NEW D, IsFiniteSet(D), NEW f \in [D -> Nat], NEW part \in SUBSET D
    PROVE  Whole([x \in part |-> f[x]]) = Partial(f)[part]
<1> DEFINE g == [x \in part |-> f[x]]
<1> DEFINE Good == {s \in SUBSET part : Partial(g)[s] = Partial(f)[s]}
<1>0. DOMAIN g = part /\ DOMAIN f = D /\ \A x \in part : g[x] = f[x]
    OBVIOUS
<1>1. IsFiniteSet(part)
    BY FS_Subset
<1> HIDE DEF g
<1>2. {} \in Good
  <2>1. {} \in SUBSET part /\ {} \in SUBSET D
    OBVIOUS
  <2>2. Partial(f)[{}] = 0 /\ Partial(g)[{}] = 0
    BY <1>0, <1>1, <2>1, PartialIs
  <2>. QED  BY <2>1, <2>2
<1>3. ASSUME NEW s \in SUBSET part, s # {}, s \ {Pick(s)} \in Good
      PROVE  s \in Good
  <2>1. s \in SUBSET D
    OBVIOUS
  <2>2. /\ Partial(f)[s] = f[Pick(s)] + Partial(f)[s \ {Pick(s)}]
        /\ Partial(g)[s] = g[Pick(s)] + Partial(g)[s \ {Pick(s)}]
    BY <1>0, <1>1, <1>3, <2>1, PartialIs
  <2>3. g[Pick(s)] = f[Pick(s)]
    BY <1>0, <1>1, <1>3, PickOne
  <2>. QED  BY <1>3, <2>2, <2>3
<1> HIDE DEF Good
<1>4. Good \in SUBSET SUBSET part
    BY DEF Good
<1>5. \A s \in SUBSET part : s \in Good
    BY <1>1, <1>2, <1>3, <1>4, EverySubset
<1>6. part \in Good
    BY <1>5
<1>. QED  BY <1>0, <1>6 DEF Good, Whole, g

(* Any term may be taken out first.                                        *)
LEMMA TakeOut ==
    ASSUME NEW D, IsFiniteSet(D), NEW f \in [D -> Nat], NEW s \in SUBSET D, NEW x \in s
    PROVE  Partial(f)[s] = f[x] + Partial(f)[s \ {x}]
<1> DEFINE Splits(t) == \A y \in t : Partial(f)[t] = f[y] + Partial(f)[t \ {y}]
<1> DEFINE Good == {n \in Nat : \A t \in SUBSET D : Cardinality(t) = n => Splits(t)}
<1>0. DOMAIN f = D
    OBVIOUS
<1>1. 0 \in Good
  <2> SUFFICES ASSUME NEW t \in SUBSET D, Cardinality(t) = 0 PROVE t = {}
    OBVIOUS
  <2>. QED  BY FS_Subset, FS_EmptySet
<1>2. ASSUME NEW n \in Good PROVE n + 1 \in Good
  <2> SUFFICES ASSUME NEW t \in SUBSET D, Cardinality(t) = n + 1, NEW y \in t
               PROVE  Partial(f)[t] = f[y] + Partial(f)[t \ {y}]
    OBVIOUS
  <2> DEFINE z == Pick(t)
             less == t \ {z}
             rest == t \ {y}
             both == (t \ {y}) \ {z}
  <2>1. z \in t /\ less \in SUBSET D /\ Cardinality(less) = n
    BY PickOne
  <2>2. Partial(f)[t] = f[z] + Partial(f)[less]
    BY <1>0, PartialIs
  <2>3. CASE y = z
    BY <2>2, <2>3
  <2>4. CASE y # z
    <3>1. IsFiniteSet(t) /\ rest \in SUBSET D
      BY FS_Subset
    <3>2. Cardinality(rest) = n
      <4>1. Cardinality(rest) = Cardinality(t) - 1 /\ n \in Nat
        BY <3>1, FS_RemoveElement
      <4>. QED  BY <4>1
    <3>3. y \in less /\ z \in rest /\ less \ {y} = both
      BY <2>1, <2>4
    <3>4. Splits(less) /\ Splits(rest)
      BY <2>1, <3>1, <3>2
    <3>5. /\ Partial(f)[less] = f[y] + Partial(f)[both]
          /\ Partial(f)[rest] = f[z] + Partial(f)[both]
      BY <3>3, <3>4
    <3>6. f[y] \in Nat /\ f[z] \in Nat /\ Partial(f)[both] \in Nat
      <4>1. y \in D /\ z \in D /\ both \in SUBSET D
        BY <2>1
      <4>. QED  BY <4>1, PartialNat
    <3> HIDE DEF z, less, rest, both
    <3>7. Partial(f)[t] = f[y] + Partial(f)[rest]
      BY <2>2, <3>5, <3>6
    <3>. QED  BY <3>7 DEF rest
  <2>. QED  BY <2>3, <2>4
<1>3. \A n \in Nat : n \in Good
  <2> HIDE DEF Good
  <2>1. Good \in SUBSET Nat
    BY DEF Good
  <2>. QED  BY <1>1, <1>2, <2>1, EveryNumber
<1>4. Cardinality(s) \in Nat
    BY FS_Subset, FS_CardinalityType
<1>. QED  BY <1>3, <1>4

(* A sum goes up by the term that joins it.                                *)
LEMMA SumJoined ==
    ASSUME NEW D, IsFiniteSet(D), NEW f \in [D -> Nat],
           NEW s \in SUBSET D, NEW x \in D, x \notin s
    PROVE  Partial(f)[s \cup {x}] = Partial(f)[s] + f[x]
<1>1. s \cup {x} \in SUBSET D /\ (s \cup {x}) \ {x} = s
    OBVIOUS
<1>2. Partial(f)[s \cup {x}] = f[x] + Partial(f)[s]
    BY <1>1, TakeOut
<1>3. f[x] \in Nat /\ Partial(f)[s] \in Nat
    BY PartialNat
<1>. QED  BY <1>2, <1>3

(* A sum does not depend on how its terms are named.                       *)
LEMMA SumRenamed ==
    ASSUME NEW D, IsFiniteSet(D), NEW f \in [D -> Nat],
           NEW E, IsFiniteSet(E), NEW p \in Bijection(E, D)
    PROVE  Whole([e \in E |-> f[p[e]]]) = Whole(f)
<1> DEFINE g == [e \in E |-> f[p[e]]]
           image(s) == {p[e] : e \in s}
           Good == {s \in SUBSET E : Partial(g)[s] = Partial(f)[image(s)]}
<1>1. /\ p \in [E -> D] /\ \A a, b \in E : p[a] = p[b] => a = b
      /\ \A d \in D : \E e \in E : p[e] = d
    BY Fun_BijectionProperties
<1>2. /\ g \in [E -> Nat] /\ DOMAIN g = E /\ DOMAIN f = D
      /\ \A e \in E : g[e] = f[p[e]]
    BY <1>1
<1> HIDE DEF g
<1>3. {} \in Good
  <2>1. {} \in SUBSET E /\ {} \in SUBSET D /\ image({}) = {}
    OBVIOUS
  <2>2. Partial(f)[{}] = 0 /\ Partial(g)[{}] = 0
    BY <1>2, <2>1, PartialIs
  <2>. QED  BY <2>1, <2>2
<1>4. ASSUME NEW s \in SUBSET E, s # {}, s \ {Pick(s)} \in Good
      PROVE  s \in Good
  <2> DEFINE y == Pick(s)
             rest == s \ {y}
  <2>1. y \in s
    BY <1>4, PickOne
  <2>2. Partial(g)[s] = g[y] + Partial(g)[rest]
    BY <1>2, <1>4, PartialIs
  <2>3. image(s) \in SUBSET D /\ p[y] \in image(s)
    BY <1>1, <2>1
  <2>4. image(s) \ {p[y]} = image(rest)
    BY <1>1, <2>1
  <2>5. Partial(f)[image(s)] = f[p[y]] + Partial(f)[image(rest)]
    <3>1. \A t \in SUBSET D : \A x \in t : Partial(f)[t] = f[x] + Partial(f)[t \ {x}]
      <4> TAKE t \in SUBSET D
      <4> TAKE x \in t
      <4>. QED  BY TakeOut
    <3> HIDE DEF image
    <3>. QED  BY <2>3, <2>4, <3>1
  <2>6. Partial(g)[rest] = Partial(f)[image(rest)]
    BY <1>4
  <2>7. g[y] = f[p[y]]
    BY <1>2, <2>1
  <2> HIDE DEF y, rest, image
  <2>. QED  BY <2>2, <2>5, <2>6, <2>7
<1> HIDE DEF Good
<1>5. Good \in SUBSET SUBSET E
    BY DEF Good
<1>6. \A s \in SUBSET E : s \in Good
    BY <1>3, <1>4, <1>5, EverySubset
<1>7. E \in Good
    BY <1>6
<1>8. image(E) = D
    BY <1>1
<1>. QED  BY <1>2, <1>7, <1>8 DEF Good, Whole, g

(* A sum over fewer terms is no larger.                                    *)
LEMMA SumOfFewer ==
    ASSUME NEW D, IsFiniteSet(D), NEW f \in [D -> Nat], NEW part \in SUBSET D
    PROVE  Whole([x \in part |-> f[x]]) <= Whole(f)
<1> DEFINE Good == {s \in SUBSET D : Partial(f)[s \cap part] <= Partial(f)[s]}
<1>0. DOMAIN f = D
    OBVIOUS
<1>1. {} \in Good
  <2>1. {} \in SUBSET D /\ {} \cap part = {}
    OBVIOUS
  <2>2. Partial(f)[{}] = 0
    BY <1>0, <2>1, PartialIs
  <2>. QED  BY <2>1, <2>2
<1>2. ASSUME NEW s \in SUBSET D, s # {}, s \ {Pick(s)} \in Good
      PROVE  s \in Good
  <2> DEFINE y == Pick(s)
             rest == s \ {y}
             few == rest \cap part
  <2>1. y \in s /\ y \in D /\ rest \in SUBSET D /\ few \in SUBSET D /\ y \notin few
    BY <1>2, PickOne
  <2>2. Partial(f)[s] = f[y] + Partial(f)[rest]
    BY <1>0, <1>2, PartialIs
  <2>3. f[y] \in Nat /\ Partial(f)[rest] \in Nat /\ Partial(f)[few] \in Nat
    <3>1. f[y] \in Nat
      BY <2>1
    <3> HIDE DEF y, rest, few
    <3>. QED  BY <2>1, <3>1, PartialNat
  <2>4. Partial(f)[few] <= Partial(f)[rest]
    BY <1>2
  <2>5. CASE y \in part
    <3>1. s \cap part = few \cup {y}
      BY <2>1, <2>5
    <3> HIDE DEF y, rest, few
    <3>2. Partial(f)[few \cup {y}] = Partial(f)[few] + f[y]
      BY <2>1, SumJoined
    <3>. QED  BY <2>2, <2>3, <2>4, <3>1, <3>2
  <2>6. CASE y \notin part
    <3>1. s \cap part = few
      BY <2>1, <2>6
    <3>2. Partial(f)[s \cap part] = Partial(f)[few]
      BY <3>1
    <3> HIDE DEF y, rest, few
    <3>3. Partial(f)[s \cap part] <= Partial(f)[s]
      BY <2>2, <2>3, <2>4, <3>2
    <3>. QED  BY <3>3
  <2>. QED  BY <2>5, <2>6
<1> HIDE DEF Good
<1>3. Good \in SUBSET SUBSET D
    BY DEF Good
<1>4. \A s \in SUBSET D : s \in Good
    BY <1>1, <1>2, <1>3, EverySubset
<1>5. D \in Good /\ D \cap part = part
    BY <1>4
<1>6. Partial(f)[part] <= Partial(f)[D]
  <2>1. Partial(f)[D \cap part] <= Partial(f)[D]
    BY <1>5 DEF Good
  <2>. QED  BY <1>5, <2>1
<1>7. Whole([x \in part |-> f[x]]) = Partial(f)[part]
    BY SumOfPart
<1>. QED  BY <1>0, <1>6, <1>7 DEF Whole

-----------------------------------------------------------------------------
(* Lists that stand for a set of rows: one place for each.                 *)

(* The list holds e[i] for every i of T, once.                             *)
Mirrors(list, T, e) ==
    \E n \in Nat : \E p \in Bijection(1 .. n, T) : list = [j \in 1 .. n |-> e[p[j]]]

LEMMA MakeBijection ==
    ASSUME NEW S, NEW T, NEW f \in [S -> T],
           \A x, y \in S : f[x] = f[y] => x = y,
           \A y \in T : \E x \in S : f[x] = y
    PROVE  f \in Bijection(S, T)
BY DEF Bijection, Injection, Surjection, IsInjective

(* What mirrors a set of rows has one place for each of them.              *)
LEMMA MirrorFacts ==
    ASSUME NEW list, NEW T, NEW e, Mirrors(list, T, e)
    PROVE  /\ IsFiniteSet(T)
           /\ Len(list) \in Nat /\ Len(list) = Cardinality(T)
           /\ DOMAIN list = 1 .. Len(list)
           /\ \E p \in Bijection(1 .. Len(list), T) : \A j \in 1 .. Len(list) : list[j] = e[p[j]]
<1>0. PICK n \in Nat : \E p \in Bijection(1 .. n, T) : list = [j \in 1 .. n |-> e[p[j]]]
  BY DEF Mirrors
<1>1. PICK p \in Bijection(1 .. n, T) : list = [j \in 1 .. n |-> e[p[j]]]
  BY <1>0
<1>2. Len(list) = n /\ DOMAIN list = 1 .. n /\ \A j \in 1 .. n : list[j] = e[p[j]]
  BY <1>1
<1>3. IsFiniteSet(1 .. n) /\ Cardinality(1 .. n) = n
  BY FS_Interval
<1>4. ExistsBijection(1 .. n, T)
  BY DEF ExistsBijection
<1>5. IsFiniteSet(T) /\ Cardinality(T) = n
  BY <1>3, <1>4, FS_Bijection
<1>. QED  BY <1>2, <1>5

LEMMA MirrorEmpty == \A e : Mirrors(<<>>, {}, e)
<1> TAKE e
<1> DEFINE p == [j \in 1 .. 0 |-> 0]
<1>1. 1 .. 0 = {} /\ p \in [1 .. 0 -> {}]
  OBVIOUS
<1>2. p \in Bijection(1 .. 0, {})
  BY <1>1, MakeBijection
<1>3. <<>> = [j \in 1 .. 0 |-> e[p[j]]]
  OBVIOUS
<1> HIDE DEF p
<1>. QED  BY <1>2, <1>3 DEF Mirrors

(* Only the values at the rows that are named matter.                      *)
LEMMA MirrorAgrees ==
    ASSUME NEW list, NEW T, NEW e, Mirrors(list, T, e), NEW f, \A i \in T : f[i] = e[i]
    PROVE  Mirrors(list, T, f)
<1>0. PICK n \in Nat : \E p \in Bijection(1 .. n, T) : list = [j \in 1 .. n |-> e[p[j]]]
  BY DEF Mirrors
<1>1. PICK p \in Bijection(1 .. n, T) : list = [j \in 1 .. n |-> e[p[j]]]
  BY <1>0
<1>2. p \in [1 .. n -> T]
  BY Fun_BijectionProperties
<1>3. list = [j \in 1 .. n |-> f[p[j]]]
  BY <1>1, <1>2
<1>. QED  BY <1>3 DEF Mirrors

(* A row that joins goes to the end of the list.                           *)
LEMMA MirrorAppend ==
    ASSUME NEW list, NEW T, NEW e, Mirrors(list, T, e), NEW i, i \notin T
    PROVE  Mirrors(Append(list, e[i]), T \cup {i}, e)
<1>0. PICK n \in Nat : \E p \in Bijection(1 .. n, T) : list = [j \in 1 .. n |-> e[p[j]]]
  BY DEF Mirrors
<1>1. PICK p \in Bijection(1 .. n, T) : list = [j \in 1 .. n |-> e[p[j]]]
  BY <1>0
<1>2. /\ p \in [1 .. n -> T] /\ \A a, b \in 1 .. n : p[a] = p[b] => a = b
      /\ \A t \in T : \E a \in 1 .. n : p[a] = t
  BY Fun_BijectionProperties
<1> DEFINE q == [j \in 1 .. n + 1 |-> IF j = n + 1 THEN i ELSE p[j]]
<1>3. q \in [1 .. n + 1 -> T \cup {i}]
  BY <1>2
<1>4. \A a, b \in 1 .. n + 1 : q[a] = q[b] => a = b
  <2>1. \A a \in 1 .. n + 1 : a # n + 1 => a \in 1 .. n /\ q[a] = p[a] /\ p[a] \in T
    BY <1>2
  <2>2. \A a \in 1 .. n + 1 : a = n + 1 => q[a] = i
    OBVIOUS
  <2> HIDE DEF q
  <2>. QED  BY <1>2, <2>1, <2>2
<1>5. \A t \in T \cup {i} : \E a \in 1 .. n + 1 : q[a] = t
  <2>1. n + 1 \in 1 .. n + 1 /\ q[n + 1] = i
    OBVIOUS
  <2>2. \A a \in 1 .. n : a \in 1 .. n + 1 /\ q[a] = p[a]
    OBVIOUS
  <2> HIDE DEF q
  <2>. QED  BY <1>2, <2>1, <2>2
<1>6. q \in Bijection(1 .. n + 1, T \cup {i})
  BY <1>3, <1>4, <1>5, MakeBijection
<1>7. Append(list, e[i]) = [j \in 1 .. n + 1 |-> e[q[j]]]
  <2>1. \A j \in 1 .. n : e[q[j]] = list[j]
    BY <1>1
  <2>2. list \in Seq({e[p[j]] : j \in 1 .. n} \cup {e[i]}) /\ Len(list) = n
    BY <1>1
  <2>3. e[q[n + 1]] = e[i]
    OBVIOUS
  <2> HIDE DEF q
  <2>. QED  BY <2>1, <2>2, <2>3
<1> HIDE DEF q
<1>8. n + 1 \in Nat
  OBVIOUS
<1>. QED  BY <1>6, <1>7, <1>8 DEF Mirrors

(* Choosing places by what they hold and choosing the rows they name.      *)
LEMMA MirrorPart ==
    ASSUME NEW list, NEW T, NEW e, Mirrors(list, T, e),
           NEW places \in SUBSET DOMAIN list, NEW part \in SUBSET T,
           \A j \in DOMAIN list : \A i \in T : list[j] = e[i] => (j \in places <=> i \in part)
    PROVE  \E q \in Bijection(places, part) : \A j \in places : list[j] = e[q[j]]
<1>1. PICK p \in Bijection(1 .. Len(list), T) : \A j \in 1 .. Len(list) : list[j] = e[p[j]]
  BY MirrorFacts
<1>2. DOMAIN list = 1 .. Len(list)
  BY MirrorFacts
<1>3. /\ p \in [DOMAIN list -> T] /\ \A a, b \in DOMAIN list : p[a] = p[b] => a = b
      /\ \A t \in T : \E a \in DOMAIN list : p[a] = t
  BY <1>2, Fun_BijectionProperties
<1>4. \A j \in DOMAIN list : j \in places <=> p[j] \in part
  BY <1>1, <1>2, <1>3
<1> DEFINE q == [j \in places |-> p[j]]
<1>5. q \in [places -> part]
  BY <1>4
<1>6. \A a, b \in places : q[a] = q[b] => a = b
  BY <1>3
<1>7. \A t \in part : \E a \in places : q[a] = t
  BY <1>3, <1>4
<1>8. \A j \in places : list[j] = e[q[j]]
  BY <1>1, <1>2
<1> HIDE DEF q
<1>9. q \in Bijection(places, part)
  BY <1>5, <1>6, <1>7, MakeBijection
<1>. QED  BY <1>8, <1>9

(* Lengths, sums and sets of values agree.                                 *)
LEMMA SumIs ==
    ASSUME NEW f PROVE SumFunction(f) = Whole(f)
BY DEF SumFunction, SumFunctionOnSet, FoldFunctionOnSet, MapThenFoldSet, Whole, Partial, Onward, Pick

(* A total goes up by what joins it.                                       *)
LEMMA TotalJoined ==
    ASSUME NEW S, IsFiniteSet(S), NEW n, n \notin S, NEW a,
           \A i \in S \cup {n} : a[i] \in Nat
    PROVE  SumFunction([i \in S \cup {n} |-> a[i]]) = SumFunction([i \in S |-> a[i]]) + a[n]
<1> DEFINE D == S \cup {n}
           f == [i \in D |-> a[i]]
<1>1. IsFiniteSet(D) /\ n \in D /\ S \in SUBSET D
  BY FS_AddElement
<1>2. f \in [D -> Nat] /\ DOMAIN f = D /\ f[n] = a[n]
  OBVIOUS
<1>3. SumFunction(f) = Partial(f)[D]
  BY <1>2, SumIs DEF Whole
<1>4. SumFunction([i \in S |-> a[i]]) = Whole([i \in S |-> f[i]])
  <2>1. [i \in S |-> f[i]] = [i \in S |-> a[i]]
    OBVIOUS
  <2> HIDE DEF f
  <2>. QED  BY <2>1, SumIs
<1> HIDE DEF f
<1>5. Whole([i \in S |-> f[i]]) = Partial(f)[S]
  BY <1>1, <1>2, SumOfPart
<1>6. Partial(f)[S \cup {n}] = Partial(f)[S] + f[n]
  <2> HIDE DEF D
  <2>. QED  BY <1>1, <1>2, SumJoined
<1>7. SumFunction(f) = SumFunction([i \in S |-> a[i]]) + a[n]
  BY <1>2, <1>3, <1>4, <1>5, <1>6
<1>. QED  BY <1>7 DEF f

LEMMA MirrorPartCount ==
    ASSUME NEW list, NEW T, NEW e, Mirrors(list, T, e),
           NEW places \in SUBSET DOMAIN list, NEW part \in SUBSET T,
           \A j \in DOMAIN list : \A i \in T : list[j] = e[i] => (j \in places <=> i \in part)
    PROVE  IsFiniteSet(places) /\ IsFiniteSet(part) /\ Cardinality(places) = Cardinality(part)
<1>1. PICK q \in Bijection(places, part) : \A j \in places : list[j] = e[q[j]]
  BY MirrorPart
<1>2. /\ IsFiniteSet(T) /\ IsFiniteSet(part)
      /\ DOMAIN list = 1 .. Len(list) /\ Len(list) \in Nat
  BY MirrorFacts, FS_Subset
<1>3. IsFiniteSet(places)
  <2>1. IsFiniteSet(1 .. Len(list)) /\ places \in SUBSET (1 .. Len(list))
    BY <1>2, FS_Interval
  <2>. QED  BY <2>1, FS_Subset
<1>4. ExistsBijection(places, part)
  BY <1>1 DEF ExistsBijection
<1>. QED  BY <1>2, <1>3, <1>4, FS_Bijection

LEMMA MirrorPartSum ==
    ASSUME NEW list, NEW T, NEW e, Mirrors(list, T, e),
           NEW places \in SUBSET DOMAIN list, NEW part \in SUBSET T,
           \A j \in DOMAIN list : \A i \in T : list[j] = e[i] => (j \in places <=> i \in part),
           \A i \in part : e[i].amount \in Nat
    PROVE  SumFunction([j \in places |-> list[j].amount])
               = SumFunction([i \in part |-> e[i].amount])
<1>1. PICK q \in Bijection(places, part) : \A j \in places : list[j] = e[q[j]]
  BY MirrorPart
<1>2. IsFiniteSet(places) /\ IsFiniteSet(part)
  BY MirrorPartCount
<1> DEFINE f == [i \in part |-> e[i].amount]
<1>3. f \in [part -> Nat]
  OBVIOUS
<1>4. q \in [places -> part]
  BY <1>1, Fun_BijectionProperties
<1>5. [j \in places |-> list[j].amount] = [j \in places |-> f[q[j]]]
  BY <1>1, <1>4
<1> HIDE DEF f
<1>6. Whole([j \in places |-> f[q[j]]]) = Whole(f)
  BY <1>1, <1>2, <1>3, SumRenamed
<1>7. SumFunction([j \in places |-> list[j].amount]) = SumFunction(f)
  BY <1>5, <1>6, SumIs
<1>. QED  BY <1>7 DEF f

LEMMA MirrorValues ==
    ASSUME NEW list, NEW T, NEW e, Mirrors(list, T, e)
    PROVE  /\ \A j \in DOMAIN list : \E i \in T : list[j] = e[i]
           /\ \A i \in T : \E j \in DOMAIN list : list[j] = e[i]
<1>1. PICK p \in Bijection(1 .. Len(list), T) : \A j \in 1 .. Len(list) : list[j] = e[p[j]]
  BY MirrorFacts
<1>2. DOMAIN list = 1 .. Len(list)
  BY MirrorFacts
<1>. QED  BY <1>1, <1>2, Fun_BijectionProperties
=============================================================================
