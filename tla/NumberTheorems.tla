--------------------------- MODULE NumberTheorems ---------------------------
(***************************************************************************)
(* Facts about numbers and sequences that the proofs of several components *)
(* need: rounding; the sums the model takes with SumFunctionOnSet over     *)
(* writer slots, asks, the walk of a purchase and the claims on a vault;   *)
(* and what an insertion or a removal does to each place of a book.        *)
(*                                                                         *)
(* The sum is defined by recursion, and what holds of it for every finite  *)
(* set is proved from the least number for which it would fail.            *)
(***************************************************************************)
EXTENDS Integers, FiniteSets, SequencesExt, FiniteSetTheorems, SequenceTheorems,
        WellFoundedInduction, TLAPS

-----------------------------------------------------------------------------
(* Products and quotients of natural numbers.                              *)

\* Division of naturals, as two inequalities the solver can use.
LEMMA DivBounds ==
  ASSUME NEW a \in Nat, NEW b \in Nat, b > 0
  PROVE  /\ a \div b \in Nat
         /\ (a \div b) * b <= a
         /\ a < (a \div b) * b + b
  OBVIOUS

\* Multiplying both sides by a natural number keeps an inequality.
LEMMA MulMono ==
  ASSUME NEW a \in Nat, NEW b \in Nat, NEW c \in Nat, a <= b
  PROVE  a * c <= b * c
  OBVIOUS

\* Products of natural numbers are natural numbers.
LEMMA MulNat ==
  ASSUME NEW a \in Nat, NEW b \in Nat
  PROVE  a * b \in Nat
  OBVIOUS

\* Products of positive numbers are positive.
LEMMA MulPos ==
  ASSUME NEW a \in Nat, NEW b \in Nat, a > 0, b > 0
  PROVE  a * b >= a /\ a * b >= b
  OBVIOUS

\* Multiplying both sides by a positive number keeps a strict inequality.
LEMMA MulStrict ==
  ASSUME NEW a \in Nat, NEW b \in Nat, NEW c \in Nat, c > 0, a < b
  PROVE  a * c < b * c
<1>1. (a + 1) * c <= b * c
  BY MulMono
<1>2. (a + 1) * c = a * c + c /\ a * c \in Nat /\ b * c \in Nat
  OBVIOUS
<1> QED
  BY <1>1, <1>2

\* A positive factor can be cancelled from an inequality.
LEMMA MulCancel ==
  ASSUME NEW a \in Nat, NEW b \in Nat, NEW c \in Nat, a * c < b * c
  PROVE  a < b
  OBVIOUS

\* Multiplying both sides by a natural number, for integers.
LEMMA MulMonoInt ==
  ASSUME NEW a \in Int, NEW b \in Int, NEW c \in Nat, a <= b
  PROVE  a * c <= b * c
  OBVIOUS

\* A common positive factor can be taken out of an inequality of integers.
LEMMA MulCancelInt ==
  ASSUME NEW a \in Int, NEW b \in Int, NEW c \in Nat, c > 0, a * c <= b * c
  PROVE  a <= b
<1> SUFFICES ASSUME b + 1 <= a PROVE FALSE
  OBVIOUS
<1>1. (b + 1) * c <= a * c
  BY MulMonoInt
<1>2. (b + 1) * c = b * c + c
  OBVIOUS
<1>3. a * c \in Int /\ b * c \in Int
  OBVIOUS
<1> QED
  BY <1>1, <1>2, <1>3

\* A quotient is the only natural number between the two bounds.
LEMMA DivLeast ==
  ASSUME NEW a \in Nat, NEW b \in Nat, b > 0, NEW c \in Nat
  PROVE  /\ c * b <= a => c <= a \div b
         /\ a < c * b + b => a \div b <= c
<1>1. a \div b \in Nat /\ (a \div b) * b <= a /\ a < (a \div b) * b + b
  BY DivBounds
<1> DEFINE d == a \div b
<1> HIDE DEF d
<1>2. ASSUME c * b <= a PROVE c <= d
  <2>1. c * b < (d + 1) * b
    BY <1>1, <1>2 DEF d
  <2>2. c < d + 1
    BY <1>1, <2>1, MulCancel DEF d
  <2> QED
    BY <1>1, <2>2 DEF d
<1>3. ASSUME a < c * b + b PROVE d <= c
  <2>1. d * b < (c + 1) * b
    BY <1>1, <1>3 DEF d
  <2>2. d < c + 1
    BY <1>1, <2>1, MulCancel DEF d
  <2> QED
    BY <1>1, <2>2 DEF d
<1> QED
  BY <1>2, <1>3 DEF d

\* Rounding two amounts down apart gives no more than rounding them together,
\* and at most one unit less.
LEMMA FloorsOfSum ==
  ASSUME NEW a \in Nat, NEW b \in Nat, NEW d \in Nat, d > 0
  PROVE  /\ a \div d + b \div d <= (a + b) \div d
         /\ (a + b) \div d <= a \div d + b \div d + 1
<1> DEFINE m == a \div d
           n == b \div d
<1>1. m \in Nat /\ m * d <= a /\ a < m * d + d
  BY DivBounds
<1>2. n \in Nat /\ n * d <= b /\ b < n * d + d
  BY DivBounds
<1> HIDE DEF m, n
<1>3. (m + n) * d = m * d + n * d /\ (m + n + 1) * d = m * d + n * d + d
  BY <1>1, <1>2
<1>4. m * d \in Nat /\ n * d \in Nat
  BY <1>1, <1>2, MulNat
<1>5. (m + n) * d <= a + b /\ a + b < (m + n + 1) * d + d
  BY <1>1, <1>2, <1>3, <1>4
<1>6. m + n \in Nat /\ m + n + 1 \in Nat /\ a + b \in Nat
  BY <1>1, <1>2
<1> QED
  BY <1>5, <1>6, DivLeast DEF m, n

\* Two roundings down, of a price and of what n pay at it, never give n of t
\* more than their part of an amount, nor more than the amount.
LEMMA PartAtPrice ==
  ASSUME NEW a \in Nat, NEW t \in Nat, t > 0, NEW i \in Nat, i > 0, NEW n \in Nat
  PROVE  /\ (a * i) \div t \in Nat
         /\ (n * ((a * i) \div t)) \div i \in Nat
         /\ ((n * ((a * i) \div t)) \div i) * t <= n * a
         /\ n <= t => (n * ((a * i) \div t)) \div i <= a
<1> DEFINE p == (a * i) \div t
<1>1. p \in Nat /\ p * t <= a * i
  <2>1. a * i \in Nat
    BY MulNat
  <2> QED
    BY <2>1, DivBounds
<1> HIDE DEF p
<1> DEFINE q == (n * p) \div i
<1>2. q \in Nat /\ q * i <= n * p
  <2>1. n * p \in Nat
    BY <1>1, MulNat
  <2> QED
    BY <2>1, DivBounds
<1> HIDE DEF q
<1>3. q * t <= n * a
  <2>1. q * t \in Nat /\ n * a \in Nat /\ q * i \in Nat /\ n * p \in Nat
    BY <1>1, <1>2, MulNat
  <2>2. (q * i) * t <= (n * p) * t
    BY <1>2, <2>1, MulMono
  <2>3. (p * t) * n <= (a * i) * n
    BY <1>1, MulNat, MulMono
  <2>4. (q * i) * t = (q * t) * i /\ (n * p) * t = (p * t) * n /\ (a * i) * n = (n * a) * i
    BY <1>1, <1>2
  <2>5. (q * t) * i <= (n * a) * i
    <3>1. (q * t) * i \in Nat /\ (n * a) * i \in Nat /\ (p * t) * n \in Nat
      BY <1>1, <2>1, MulNat
    <3> QED
      BY <2>2, <2>3, <2>4, <3>1
  <2>6. ~ ((n * a) * i < (q * t) * i)
    <3>1. (q * t) * i \in Nat /\ (n * a) * i \in Nat
      BY <2>1, MulNat
    <3> QED
      BY <2>5, <3>1
  <2>7. n * a < q * t => (n * a) * i < (q * t) * i
    BY <2>1, MulStrict
  <2> QED
    BY <2>1, <2>6, <2>7
<1>4. ASSUME n <= t PROVE q <= a
  <2>1. n * a <= t * a
    BY <1>4, MulMono
  <2>2. q * t < (a + 1) * t
    BY <1>2, <1>3, <2>1
  <2> QED
    BY <1>2, <2>2, MulCancel
<1> QED
  BY <1>1, <1>2, <1>3, <1>4 DEF p, q

\* The part of an amount, converted at any rate, is at most the same part of
\* the amount converted, up to one unit.
LEMMA PartConverted ==
  ASSUME NEW a \in Nat, NEW q \in Nat, NEW n \in Nat, NEW t \in Nat, n <= t,
         q * t <= n * a, NEW k \in Nat, NEW d \in Nat, d > 0
  PROVE  ((q * k) \div d) * t <= n * ((a * k) \div d) + t
<1> DEFINE x == (q * k) \div d
           y == (a * k) \div d
<1>1. q * k \in Nat /\ a * k \in Nat /\ q * t \in Nat /\ n * a \in Nat
  BY MulNat
<1>2. x \in Nat /\ x * d <= q * k
  BY <1>1, DivBounds
<1>3. y \in Nat /\ a * k < y * d + d
  BY <1>1, DivBounds
<1> HIDE DEF x, y
<1>4. (x * d) * t <= (q * k) * t
  BY <1>1, <1>2, MulNat, MulMono
<1>5. (q * t) * k <= (n * a) * k
  BY <1>1, MulMono
<1>6. (a * k) * n <= (y * d + d) * n
  BY <1>1, <1>3, MulNat, MulMono
<1>7. /\ (x * d) * t = (x * t) * d
      /\ (q * k) * t = (q * t) * k
      /\ (n * a) * k = (a * k) * n
      /\ (y * d + d) * n = (n * y + n) * d
  BY <1>2, <1>3
<1>8. x * t \in Nat /\ n * y + n \in Nat
  BY <1>2, <1>3, MulNat
<1>9. (x * t) * d \in Nat /\ (n * y + n) * d \in Nat /\ (q * t) * k \in Nat /\ (a * k) * n \in Nat
  BY <1>1, <1>8, MulNat
<1>10. (x * t) * d <= (n * y + n) * d
  BY <1>4, <1>5, <1>6, <1>7, <1>9
<1>11. x * t <= n * y + n
  <2>1. n * y + n < x * t => (n * y + n) * d < (x * t) * d
    BY <1>8, MulStrict
  <2> QED
    BY <1>8, <1>9, <1>10, <2>1
<1>12. n * y \in Nat
  BY <1>3, MulNat
<1> QED
  BY <1>8, <1>11, <1>12 DEF x, y

-----------------------------------------------------------------------------
(* Induction, over sets of numbers and over the subsets of a finite set.   *)

\* A set of natural numbers that is not empty has a least one.
LEMMA LeastNat ==
  ASSUME NEW T \in SUBSET Nat, T # {}
  PROVE  \E m \in T : \A k \in T : m <= k
<1> DEFINE R == {ss \in Nat \X Nat : ss[1] < ss[2]}
<1>1. IsWellFoundedOn(R, Nat)
  BY NatLessThanWellFounded, Zenon DEF OpToRel
<1>2. PICK x \in T : \A y \in T : ~ (<<y, x>> \in R)
  <2> HIDE DEF R
  <2> QED  BY <1>1, WFMin
<1>3. \A x1, y1 \in Nat : <<y1, x1>> \in R <=> y1 < x1
  OBVIOUS
<1>4. \A y \in T : ~ (y < x)
  <2> HIDE DEF R
  <2> QED  BY <1>2, <1>3
<1> QED
  BY <1>4

\* A set with 0 and the successor of each of its members has every number.
LEMMA EveryNat ==
  ASSUME NEW T \in SUBSET Nat, 0 \in T, \A n \in T : n + 1 \in T
  PROVE  T = Nat
<1>1. SUFFICES ASSUME Nat \ T # {} PROVE FALSE
  OBVIOUS
<1>2. PICK m \in Nat \ T : \A k \in Nat \ T : m <= k
  BY <1>1, LeastNat
<1>3. m # 0 /\ m - 1 \in Nat
  BY <1>2
<1>4. m - 1 \in T
  BY <1>2, <1>3
<1>5. (m - 1) + 1 \in T
  BY <1>4
<1> QED
  BY <1>2, <1>3, <1>5

\* A collection with the empty set, and with every set of members of S that
\* has all the sets of one member less, has S itself if S is finite.
LEMMA SizeInduction ==
  ASSUME NEW S, IsFiniteSet(S), NEW T, {} \in T,
         \A s \in SUBSET S : s # {} /\ (\A x \in s : s \ {x} \in T) => s \in T
  PROVE  S \in T
<1> DEFINE N == {n \in Nat : \A s \in SUBSET S : Cardinality(s) = n => s \in T}
<1>1. \A s \in SUBSET S : IsFiniteSet(s) /\ Cardinality(s) \in Nat
  BY FS_Subset, FS_CardinalityType
<1>2. 0 \in N
  BY <1>1, FS_EmptySet
<1>3. ASSUME NEW n \in N PROVE n + 1 \in N
  <2>1. SUFFICES ASSUME NEW s \in SUBSET S, Cardinality(s) = n + 1 PROVE s \in T
    OBVIOUS
  <2>2. s # {}
    <3>1. n + 1 # 0
      OBVIOUS
    <3> QED
      BY <2>1, <3>1, FS_EmptySet, Zenon
  <2>3. ASSUME NEW x \in s PROVE s \ {x} \in T
    <3>1. Cardinality(s \ {x}) = n
      BY <1>1, <2>1, FS_RemoveElement
    <3> QED
      BY <3>1
  <2> QED
    BY <2>2, <2>3
<1>4. N = Nat
  <2>1. \A n \in N : n + 1 \in N
    BY <1>3
  <2>2. N \in SUBSET Nat
    OBVIOUS
  <2> HIDE DEF N
  <2> QED
    BY <1>2, <2>1, <2>2, EveryNat
<1>5. Cardinality(S) \in N
  BY <1>1, <1>4
<1> QED
  BY <1>5

\* The same with a member added to any set of the collection.
LEMMA FiniteInduction ==
  ASSUME NEW S, IsFiniteSet(S), NEW T, {} \in T,
         \A s \in SUBSET S : s \in T => \A x \in S \ s : s \cup {x} \in T
  PROVE  S \in T
<1>1. ASSUME NEW s \in SUBSET S, s # {}, \A x \in s : s \ {x} \in T PROVE s \in T
  <2>1. PICK x \in s : TRUE
    BY <1>1
  <2>2. s \ {x} \in T /\ s \ {x} \in SUBSET S /\ x \in S \ (s \ {x})
    BY <1>1, <2>1
  <2>3. (s \ {x}) \cup {x} \in T
    BY <2>2
  <2>4. (s \ {x}) \cup {x} = s
    BY <2>1
  <2> QED
    BY <2>3, <2>4
<1> QED
  BY <1>1, SizeInduction

-----------------------------------------------------------------------------
(* What the recursive definition of a sum computes.                        *)

Picked(s) == CHOOSE x \in s : TRUE

\* The sums over the subsets of a set, each from one with a member less.
SumsOver(f, S) ==
  CHOOSE it : it = [s \in SUBSET S |->
                      IF s = {} THEN 0 ELSE f[Picked(s)] + it[s \ {Picked(s)}]]

\* The sum of the community module is the chosen solution of its recursion.
LEMMA SumIsChosen ==
  ASSUME NEW f, NEW S
  PROVE  SumFunctionOnSet(f, S) = SumsOver(f, S)[S]
BY Zenon DEF SumFunctionOnSet, FoldFunctionOnSet, MapThenFoldSet, SumsOver, Picked

\* The recursion has a solution on a finite set: one for the subsets of at
\* most n members gives one for those of at most n + 1.
LEMMA SumsExist ==
  ASSUME NEW f, NEW S, IsFiniteSet(S)
  PROVE  \A s \in SUBSET S :
           SumsOver(f, S)[s] =
             IF s = {} THEN 0 ELSE f[Picked(s)] + SumsOver(f, S)[s \ {Picked(s)}]
<1> DEFINE UpTo(n) == {s \in SUBSET S : Cardinality(s) <= n}
           Solves(g, n) ==
             g = [s \in UpTo(n) |->
                    IF s = {} THEN 0 ELSE f[Picked(s)] + g[s \ {Picked(s)}]]
           N == {n \in Nat : \E g : Solves(g, n)}
<1>1. \A s \in SUBSET S : IsFiniteSet(s) /\ Cardinality(s) \in Nat
  BY FS_Subset, FS_CardinalityType
<1>2. 0 \in N
  <2>1. UpTo(0) = {{}}
    BY <1>1, FS_EmptySet
  <2>2. Solves([s \in {{}} |-> 0], 0)
    BY <2>1
  <2> QED
    BY <2>2
<1>3. ASSUME NEW n \in N PROVE n + 1 \in N
  <2>1. PICK g : Solves(g, n)
    OBVIOUS
  <2> DEFINE h == [s \in UpTo(n + 1) |->
                     IF s = {} THEN 0 ELSE f[Picked(s)] + g[s \ {Picked(s)}]]
  <2>2. ASSUME NEW s \in UpTo(n + 1), s # {}
        PROVE  s \ {Picked(s)} \in UpTo(n)
    <3>1. Picked(s) \in s
      BY <2>2 DEF Picked
    <3>2. Cardinality(s \ {Picked(s)}) = Cardinality(s) - 1
      BY <1>1, <3>1, FS_RemoveElement
    <3> QED
      BY <1>1, <2>2, <3>2
  <2>3. ASSUME NEW s \in UpTo(n) PROVE s \in UpTo(n + 1) /\ g[s] = h[s]
    <3>1. s \in UpTo(n + 1)
      BY <1>1
    <3>2. g[s] = IF s = {} THEN 0 ELSE f[Picked(s)] + g[s \ {Picked(s)}]
      BY <2>1
    <3> QED
      BY <3>1, <3>2
  <2>4. ASSUME NEW s \in UpTo(n + 1)
        PROVE  (IF s = {} THEN 0 ELSE f[Picked(s)] + g[s \ {Picked(s)}])
                 = (IF s = {} THEN 0 ELSE f[Picked(s)] + h[s \ {Picked(s)}])
    <3>1. s # {} => g[s \ {Picked(s)}] = h[s \ {Picked(s)}]
      BY <2>2, <2>3
    <3> QED
      BY <3>1, Zenon
  <2>5. h = [s \in UpTo(n + 1) |->
               IF s = {} THEN 0 ELSE f[Picked(s)] + h[s \ {Picked(s)}]]
    BY <2>4, Zenon
  <2>6. \E k : Solves(k, n + 1)
    BY <2>5, Zenon
  <2>7. n + 1 \in Nat
    OBVIOUS
  <2> QED
    BY <2>6, <2>7, Zenon
<1>4. N = Nat
  <2>1. \A n \in N : n + 1 \in N
    BY <1>3
  <2>2. N \in SUBSET Nat
    OBVIOUS
  <2> HIDE DEF N
  <2> QED
    BY <1>2, <2>1, <2>2, EveryNat
<1>5. PICK g : Solves(g, Cardinality(S))
  BY <1>1, <1>4
<1>6. UpTo(Cardinality(S)) = SUBSET S
  BY FS_Subset
<1>7. g = [s \in SUBSET S |->
             IF s = {} THEN 0 ELSE f[Picked(s)] + g[s \ {Picked(s)}]]
  BY <1>5, <1>6
<1>8. SumsOver(f, S) =
        [s \in SUBSET S |->
           IF s = {} THEN 0 ELSE f[Picked(s)] + SumsOver(f, S)[s \ {Picked(s)}]]
  BY <1>7, Zenon DEF SumsOver
<1> QED
  BY <1>8, Zenon

\* A sum over a set, by any of the pickings the recursion may make of it, is
\* the sum over each of its subsets in turn.
LEMMA SumOfSubset ==
  ASSUME NEW f, NEW S, IsFiniteSet(S), NEW U \in SUBSET S
  PROVE  SumsOver(f, S)[U] = SumFunctionOnSet(f, U)
<1> DEFINE Agree == {s \in SUBSET U : SumsOver(f, S)[s] = SumsOver(f, U)[s]}
<1>1. IsFiniteSet(U)
  BY FS_Subset
<1>2. ASSUME NEW s \in SUBSET U
      PROVE  /\ SumsOver(f, S)[s] = IF s = {} THEN 0
                  ELSE f[Picked(s)] + SumsOver(f, S)[s \ {Picked(s)}]
             /\ SumsOver(f, U)[s] = IF s = {} THEN 0
                  ELSE f[Picked(s)] + SumsOver(f, U)[s \ {Picked(s)}]
  <2>1. s \in SUBSET S
    OBVIOUS
  <2>2. \A t \in SUBSET S :
          SumsOver(f, S)[t] =
            IF t = {} THEN 0 ELSE f[Picked(t)] + SumsOver(f, S)[t \ {Picked(t)}]
    BY SumsExist
  <2>3. \A t \in SUBSET U :
          SumsOver(f, U)[t] =
            IF t = {} THEN 0 ELSE f[Picked(t)] + SumsOver(f, U)[t \ {Picked(t)}]
    BY <1>1, SumsExist
  <2> QED
    BY <2>1, <2>2, <2>3, Zenon
<1>3. {} \in Agree
  BY <1>2
<1>4. ASSUME NEW s \in SUBSET U, s # {}, \A x \in s : s \ {x} \in Agree
      PROVE  s \in Agree
  <2>1. Picked(s) \in s
    BY <1>4 DEF Picked
  <2> QED
    BY <1>2, <1>4, <2>1
<1>5. U \in Agree
  <2> HIDE DEF Agree
  <2> QED
    BY <1>1, <1>3, <1>4, SizeInduction
<1> QED
  BY <1>5, SumIsChosen

\* The sum over no terms is zero.
LEMMA SumOfNone == ASSUME NEW f PROVE SumFunctionOnSet(f, {}) = 0
<1>1. IsFiniteSet({})
  BY FS_EmptySet
<1>2. SumsOver(f, {})[{}] = 0
  BY <1>1, SumsExist
<1> QED
  BY <1>2, SumIsChosen

\* A sum takes the term the recursion picks and adds the sum of the others.
LEMMA SumPicked ==
  ASSUME NEW f, NEW S, IsFiniteSet(S), S # {}
  PROVE  SumFunctionOnSet(f, S)
           = f[Picked(S)] + SumFunctionOnSet(f, S \ {Picked(S)})
<1>3. SumsOver(f, S)[S] = f[Picked(S)] + SumsOver(f, S)[S \ {Picked(S)}]
  BY SumsExist
<1>4. SumsOver(f, S)[S \ {Picked(S)}] = SumFunctionOnSet(f, S \ {Picked(S)})
  BY SumOfSubset
<1> QED
  BY <1>3, <1>4, SumIsChosen

-----------------------------------------------------------------------------
(* Sums of integers.                                                       *)

\* The terms a sum over S takes from f are integers, or natural numbers.
IntTerms(f, S) == \A x \in S : f[x] \in Int
NatTerms(f, S) == \A x \in S : f[x] \in Nat

\* Natural numbers are integers.
LEMMA NatTermsAreInts ==
  ASSUME NEW f, NEW S, NatTerms(f, S)
  PROVE  IntTerms(f, S)
BY DEF IntTerms, NatTerms

\* So are the terms over a part of the set,
LEMMA PartOfIntTerms ==
  ASSUME NEW f, NEW S, NEW T \in SUBSET S, IntTerms(f, S)
  PROVE  IntTerms(f, T)
BY DEF IntTerms

\* and natural ones stay natural.
LEMMA PartOfNatTerms ==
  ASSUME NEW f, NEW S, NEW T \in SUBSET S, NatTerms(f, S)
  PROVE  NatTerms(f, T)
BY DEF NatTerms

\* A finite sum of integers is an integer.
LEMMA SumInt ==
  ASSUME NEW f, NEW S, IsFiniteSet(S), IntTerms(f, S)
  PROVE  SumFunctionOnSet(f, S) \in Int
<1> USE DEF IntTerms, NatTerms
<1> DEFINE Good == {s \in SUBSET S : SumFunctionOnSet(f, s) \in Int}
<1>1. {} \in Good
  BY SumOfNone
<1>2. ASSUME NEW s \in SUBSET S, s # {}, \A x \in s : s \ {x} \in Good
      PROVE  s \in Good
  <2>1. Picked(s) \in s
    BY <1>2 DEF Picked
  <2>2. IsFiniteSet(s)
    BY FS_Subset
  <2>3. SumFunctionOnSet(f, s) = f[Picked(s)] + SumFunctionOnSet(f, s \ {Picked(s)})
    BY <1>2, <2>2, SumPicked
  <2>4. f[Picked(s)] \in Int /\ SumFunctionOnSet(f, s \ {Picked(s)}) \in Int
    BY <1>2, <2>1
  <2> QED
    BY <2>3, <2>4
<1>3. S \in Good
  <2> HIDE DEF Good
  <2> QED
    BY <1>1, <1>2, SizeInduction
<1> QED
  BY <1>3

\* Whichever member is taken out of a set, the sum goes down by its term.
LEMMA SumIsAnyOrder ==
  ASSUME NEW f, NEW S, IsFiniteSet(S), IntTerms(f, S)
  PROVE  \A x \in S : SumFunctionOnSet(f, S) = f[x] + SumFunctionOnSet(f, S \ {x})
<1> USE DEF IntTerms, NatTerms
<1> DEFINE Sum(s) == SumFunctionOnSet(f, s)
           Good == {s \in SUBSET S : \A x \in s : Sum(s) = f[x] + Sum(s \ {x})}
<1>1. {} \in Good
  BY SumOfNone
<1>2. ASSUME NEW s \in SUBSET S, s # {}, \A x \in s : s \ {x} \in Good
      PROVE  s \in Good
  <2> DEFINE c == Picked(s)
  <2>1. c \in s
    BY <1>2 DEF Picked
  <2>2. IsFiniteSet(s)
    BY FS_Subset
  <2>3. Sum(s) = f[c] + Sum(s \ {c})
    BY <1>2, <2>2, SumPicked
  <2> HIDE DEF c
  <2>5. \A x \in s : f[x] \in Int
    OBVIOUS
  <2>6. ASSUME NEW x \in s PROVE Sum(s) = f[x] + Sum(s \ {x})
    <3>1. CASE x = c
      BY <2>3, <3>1
    <3>2. CASE x # c
      <4>1. x \in s \ {c} /\ c \in s \ {x}
        BY <2>1, <3>2
      <4>2. Sum(s \ {c}) = f[x] + Sum((s \ {c}) \ {x})
        BY <1>2, <2>1, <4>1
      <4>3. Sum(s \ {x}) = f[c] + Sum((s \ {x}) \ {c})
        BY <1>2, <4>1
      <4>4. (s \ {x}) \ {c} = (s \ {c}) \ {x}
        OBVIOUS
      <4>5. Sum((s \ {c}) \ {x}) \in Int
        <5>1. IsFiniteSet((s \ {c}) \ {x}) /\ (s \ {c}) \ {x} \in SUBSET S
          BY <2>2, FS_RemoveElement
        <5> QED
          BY <5>1, SumInt
      <4>6. Sum(s) = f[c] + (f[x] + Sum((s \ {c}) \ {x}))
        BY <2>3, <4>2
      <4>7. Sum(s \ {x}) = f[c] + Sum((s \ {c}) \ {x})
        BY <4>3, <4>4
      <4> QED
        BY <2>1, <2>5, <4>5, <4>6, <4>7
    <3> QED
      BY <3>1, <3>2
  <2> QED
    BY <2>6
<1>3. S \in Good
  <2> HIDE DEF Good
  <2> QED
    BY <1>1, <1>2, SizeInduction
<1> QED
  BY <1>3

\* One member more adds its term.
LEMMA SumAdd ==
  ASSUME NEW f, NEW S, IsFiniteSet(S), IntTerms(f, S),
         NEW i, i \notin S, f[i] \in Int
  PROVE  SumFunctionOnSet(f, S \cup {i}) = f[i] + SumFunctionOnSet(f, S)
<1> USE DEF IntTerms, NatTerms
<1>1. IsFiniteSet(S \cup {i})
  BY FS_AddElement
<1>2. (S \cup {i}) \ {i} = S
  OBVIOUS
<1>3. \A x \in S \cup {i} : f[x] \in Int
  OBVIOUS
<1>4. SumFunctionOnSet(f, S \cup {i})
        = f[i] + SumFunctionOnSet(f, (S \cup {i}) \ {i})
  BY <1>1, <1>3, SumIsAnyOrder
<1> QED
  BY <1>2, <1>4

\* Only the terms of the set's members count.
LEMMA SumAgree ==
  ASSUME NEW f, NEW g, NEW S, IsFiniteSet(S), \A x \in S : f[x] = g[x]
  PROVE  SumFunctionOnSet(f, S) = SumFunctionOnSet(g, S)
<1> DEFINE Good == {s \in SUBSET S : SumFunctionOnSet(f, s) = SumFunctionOnSet(g, s)}
<1>1. {} \in Good
  BY SumOfNone
<1>2. ASSUME NEW s \in SUBSET S, s # {}, \A x \in s : s \ {x} \in Good
      PROVE  s \in Good
  <2>1. Picked(s) \in s
    BY <1>2 DEF Picked
  <2>2. IsFiniteSet(s)
    BY FS_Subset
  <2>3. SumFunctionOnSet(f, s) = f[Picked(s)] + SumFunctionOnSet(f, s \ {Picked(s)})
    BY <1>2, <2>2, SumPicked
  <2>4. SumFunctionOnSet(g, s) = g[Picked(s)] + SumFunctionOnSet(g, s \ {Picked(s)})
    BY <1>2, <2>2, SumPicked
  <2> QED
    BY <1>2, <2>1, <2>3, <2>4
<1>3. S \in Good
  <2> HIDE DEF Good
  <2> QED
    BY <1>1, <1>2, SizeInduction
<1> QED
  BY <1>3

\* Sums add term by term.
LEMMA SumPlus ==
  ASSUME NEW f, NEW g, NEW h, NEW S, IsFiniteSet(S),
         IntTerms(f, S), IntTerms(g, S), \A x \in S : h[x] = f[x] + g[x]
  PROVE  SumFunctionOnSet(h, S) = SumFunctionOnSet(f, S) + SumFunctionOnSet(g, S)
<1> USE DEF IntTerms, NatTerms
<1> DEFINE Good == {s \in SUBSET S :
                      SumFunctionOnSet(h, s)
                        = SumFunctionOnSet(f, s) + SumFunctionOnSet(g, s)}
<1>1. {} \in Good
  BY SumOfNone
<1>2. ASSUME NEW s \in SUBSET S, s # {}, \A x \in s : s \ {x} \in Good
      PROVE  s \in Good
  <2> DEFINE c == Picked(s)
  <2>1. c \in s
    BY <1>2 DEF Picked
  <2>2. IsFiniteSet(s) /\ IsFiniteSet(s \ {c})
    BY FS_Subset
  <2>3. SumFunctionOnSet(f, s) = f[c] + SumFunctionOnSet(f, s \ {c})
    BY <1>2, <2>2, SumPicked
  <2>4. SumFunctionOnSet(g, s) = g[c] + SumFunctionOnSet(g, s \ {c})
    BY <1>2, <2>2, SumPicked
  <2>5. SumFunctionOnSet(h, s) = h[c] + SumFunctionOnSet(h, s \ {c})
    BY <1>2, <2>2, SumPicked
  <2>6. SumFunctionOnSet(f, s \ {c}) \in Int /\ SumFunctionOnSet(g, s \ {c}) \in Int
    BY <2>2, SumInt
  <2> HIDE DEF c
  <2> QED
    BY <1>2, <2>1, <2>3, <2>4, <2>5, <2>6
<1>3. S \in Good
  <2> HIDE DEF Good
  <2> QED
    BY <1>1, <1>2, SizeInduction
<1> QED
  BY <1>3

\* Larger terms, larger sum.
LEMMA SumMonotone ==
  ASSUME NEW f, NEW g, NEW S, IsFiniteSet(S),
         IntTerms(f, S), IntTerms(g, S), \A x \in S : f[x] <= g[x]
  PROVE  SumFunctionOnSet(f, S) <= SumFunctionOnSet(g, S)
<1> USE DEF IntTerms, NatTerms
<1> DEFINE Good == {s \in SUBSET S : SumFunctionOnSet(f, s) <= SumFunctionOnSet(g, s)}
<1>1. {} \in Good
  BY SumOfNone
<1>2. ASSUME NEW s \in SUBSET S, s # {}, \A x \in s : s \ {x} \in Good
      PROVE  s \in Good
  <2> DEFINE c == Picked(s)
  <2>1. c \in s
    BY <1>2 DEF Picked
  <2>2. IsFiniteSet(s) /\ IsFiniteSet(s \ {c})
    BY FS_Subset
  <2>3. SumFunctionOnSet(f, s) = f[c] + SumFunctionOnSet(f, s \ {c})
    BY <1>2, <2>2, SumPicked
  <2>4. SumFunctionOnSet(g, s) = g[c] + SumFunctionOnSet(g, s \ {c})
    BY <1>2, <2>2, SumPicked
  <2>6. SumFunctionOnSet(f, s \ {c}) \in Int /\ SumFunctionOnSet(g, s \ {c}) \in Int
    BY <2>2, SumInt
  <2> HIDE DEF c
  <2> QED
    BY <1>2, <2>1, <2>3, <2>4, <2>6
<1>3. S \in Good
  <2> HIDE DEF Good
  <2> QED
    BY <1>1, <1>2, SizeInduction
<1> QED
  BY <1>3

\* A sum of zeros is zero.
LEMMA SumOfZeros ==
  ASSUME NEW f, NEW S, IsFiniteSet(S), \A x \in S : f[x] = 0
  PROVE  SumFunctionOnSet(f, S) = 0
<1> USE DEF IntTerms, NatTerms
<1>1. SumFunctionOnSet(f, S) = SumFunctionOnSet(f, S) + SumFunctionOnSet(f, S)
  BY SumPlus
<1>2. PICK n \in Int : n = SumFunctionOnSet(f, S)
  BY SumInt
<1>3. n = n + n
  BY <1>1, <1>2
<1>4. \A m \in Int : m = m + m => m = 0
  OBVIOUS
<1> QED
  BY <1>2, <1>3, <1>4

\* A sum of natural numbers is one, and none of its terms exceeds it.
LEMMA SumNat ==
  ASSUME NEW f, NEW S, IsFiniteSet(S), NatTerms(f, S)
  PROVE  /\ SumFunctionOnSet(f, S) \in Nat
         /\ \A x \in S : f[x] <= SumFunctionOnSet(f, S)
<1> USE DEF IntTerms, NatTerms
<1> DEFINE zero == [x \in S |-> 0]
<1>1. ASSUME NEW T \in SUBSET S PROVE SumFunctionOnSet(f, T) \in Nat
  <2>1. IsFiniteSet(T)
    BY FS_Subset
  <2>2. SumFunctionOnSet(zero, T) = 0
    BY <2>1, SumOfZeros
  <2>3. SumFunctionOnSet(zero, T) <= SumFunctionOnSet(f, T)
    BY <2>1, SumMonotone
  <2>4. SumFunctionOnSet(f, T) \in Int
    BY <2>1, SumInt
  <2> QED
    BY <2>2, <2>3, <2>4
<1>2. ASSUME NEW x \in S PROVE f[x] <= SumFunctionOnSet(f, S)
  <2>1. SumFunctionOnSet(f, S) = f[x] + SumFunctionOnSet(f, S \ {x})
    BY SumIsAnyOrder
  <2>2. SumFunctionOnSet(f, S \ {x}) \in Nat
    BY <1>1
  <2> QED
    BY <2>1, <2>2
<1> QED
  BY <1>1, <1>2

\* The sum of a constant counts the set.
LEMMA SumOfConstant ==
  ASSUME NEW f, NEW S, IsFiniteSet(S), NEW c \in Nat, \A x \in S : f[x] = c
  PROVE  /\ Cardinality(S) \in Nat
         /\ SumFunctionOnSet(f, S) = Cardinality(S) * c
<1> USE DEF IntTerms
<1> DEFINE T == {s \in SUBSET S : /\ Cardinality(s) \in Nat
                                  /\ SumFunctionOnSet(f, s) = Cardinality(s) * c}
<1>1. {} \in T
  BY SumOfNone, FS_EmptySet
<1>2. ASSUME NEW s \in SUBSET S, s \in T, NEW x \in S \ s
      PROVE  s \cup {x} \in T
  <2>1. IsFiniteSet(s)
    BY FS_Subset
  <2>2. Cardinality(s \cup {x}) = Cardinality(s) + 1
    BY <2>1, FS_AddElement
  <2>3. SumFunctionOnSet(f, s \cup {x}) = f[x] + SumFunctionOnSet(f, s)
    BY <2>1, SumAdd
  <2>4. Cardinality(s) \in Nat /\ SumFunctionOnSet(f, s) = Cardinality(s) * c /\ f[x] = c
    BY <1>2
  <2>5. c + Cardinality(s) * c = (Cardinality(s) + 1) * c
    BY <2>4
  <2> QED
    BY <2>2, <2>3, <2>4, <2>5
<1> HIDE DEF T
<1>3. S \in T
  BY <1>1, <1>2, FiniteInduction
<1> QED
  BY <1>3 DEF T

\* One term changes: the sum changes by as much.
LEMMA SumUpdate ==
  ASSUME NEW f, NEW g, NEW S, IsFiniteSet(S), NEW i \in S,
         IntTerms(f, S), IntTerms(g, S),
         \A x \in S \ {i} : g[x] = f[x]
  PROVE  SumFunctionOnSet(g, S) = SumFunctionOnSet(f, S) - f[i] + g[i]
<1> USE DEF IntTerms, NatTerms
<1>1. IsFiniteSet(S \ {i})
  BY FS_RemoveElement
<1>2. SumFunctionOnSet(f, S) = f[i] + SumFunctionOnSet(f, S \ {i})
  BY SumIsAnyOrder
<1>3. SumFunctionOnSet(g, S) = g[i] + SumFunctionOnSet(g, S \ {i})
  BY SumIsAnyOrder
<1>4. SumFunctionOnSet(f, S \ {i}) = SumFunctionOnSet(g, S \ {i})
  BY <1>1, SumAgree
<1>5. SumFunctionOnSet(f, S \ {i}) \in Int
  BY <1>1, SumInt
<1> QED
  BY <1>2, <1>3, <1>4, <1>5

\* The sum over a set, through a bijection with another.
LEMMA SumReindexed ==
  ASSUME NEW S, NEW T, IsFiniteSet(S), NEW b \in [S -> T],
         \A x, y \in S : b[x] = b[y] => x = y,
         NEW f, IntTerms(f, T),
         NEW g, \A x \in S : g[x] = f[b[x]]
  PROVE  SumFunctionOnSet(g, S) = SumFunctionOnSet(f, {b[x] : x \in S})
<1> USE DEF IntTerms, NatTerms
<1> DEFINE Good == {s \in SUBSET S :
                      /\ IsFiniteSet({b[x] : x \in s})
                      /\ SumFunctionOnSet(g, s) = SumFunctionOnSet(f, {b[x] : x \in s})}
<1>1. {} \in Good
  <2>1. {b[x] : x \in {}} = {}
    OBVIOUS
  <2> QED
    BY <2>1, SumOfNone, FS_EmptySet
<1>2. ASSUME NEW s \in SUBSET S, s \in Good, NEW i \in S \ s
      PROVE  s \cup {i} \in Good
  <2> DEFINE Image == {b[x] : x \in s}
  <2>1. {b[x] : x \in s \cup {i}} = Image \cup {b[i]}
    OBVIOUS
  <2>2. b[i] \notin Image
    OBVIOUS
  <2>3. IsFiniteSet(s) /\ IsFiniteSet(Image) /\ IsFiniteSet(Image \cup {b[i]})
    BY <1>2, FS_Subset, FS_AddElement
  <2>4. SumFunctionOnSet(g, s \cup {i}) = g[i] + SumFunctionOnSet(g, s)
    BY <2>3, SumAdd
  <2>5. SumFunctionOnSet(f, Image \cup {b[i]}) = f[b[i]] + SumFunctionOnSet(f, Image)
    BY <2>2, <2>3, SumAdd
  <2> QED
    BY <1>2, <2>1, <2>3, <2>4, <2>5
<1>3. S \in Good
  <2> HIDE DEF Good
  <2> QED
    BY <1>1, <1>2, FiniteInduction
<1> QED
  BY <1>3

\* A sum over a set in parts: over what is in and what is not in another.
LEMMA SumSplit ==
  ASSUME NEW f, NEW S, NEW T, IsFiniteSet(S), IntTerms(f, S)
  PROVE  SumFunctionOnSet(f, S)
           = SumFunctionOnSet(f, S \cap T) + SumFunctionOnSet(f, S \ T)
<1> USE DEF IntTerms, NatTerms
<1> DEFINE Good == {s \in SUBSET S :
                      SumFunctionOnSet(f, s)
                        = SumFunctionOnSet(f, s \cap T) + SumFunctionOnSet(f, s \ T)}
<1>1. {} \in Good
  <2>1. {} \cap T = {} /\ {} \ T = {}
    OBVIOUS
  <2> QED
    BY <2>1, SumOfNone
<1>2. ASSUME NEW s \in SUBSET S, s \in Good, NEW i \in S \ s
      PROVE  s \cup {i} \in Good
  <2>1. IsFiniteSet(s) /\ IsFiniteSet(s \cap T) /\ IsFiniteSet(s \ T)
    BY FS_Subset
  <2>2. SumFunctionOnSet(f, s \cup {i}) = f[i] + SumFunctionOnSet(f, s)
    BY <2>1, SumAdd
  <2>3. SumFunctionOnSet(f, s \cap T) \in Int /\ SumFunctionOnSet(f, s \ T) \in Int
    BY <2>1, SumInt
  <2>6. SumFunctionOnSet(f, s)
          = SumFunctionOnSet(f, s \cap T) + SumFunctionOnSet(f, s \ T)
    BY <1>2
  <2>7. f[i] \in Int
    OBVIOUS
  <2> SUFFICES SumFunctionOnSet(f, s \cup {i})
                 = SumFunctionOnSet(f, (s \cup {i}) \cap T)
                     + SumFunctionOnSet(f, (s \cup {i}) \ T)
    OBVIOUS
  <2>4. CASE i \in T
    <3>1. (s \cup {i}) \cap T = (s \cap T) \cup {i} /\ (s \cup {i}) \ T = s \ T
      BY <2>4
    <3>2. SumFunctionOnSet(f, (s \cap T) \cup {i}) = f[i] + SumFunctionOnSet(f, s \cap T)
      BY <2>1, SumAdd
    <3>3. SumFunctionOnSet(f, (s \cup {i}) \cap T) = f[i] + SumFunctionOnSet(f, s \cap T)
      BY <3>1, <3>2, Zenon
    <3>4. SumFunctionOnSet(f, (s \cup {i}) \ T) = SumFunctionOnSet(f, s \ T)
      BY <3>1, Zenon
    <3> QED
      BY <2>2, <2>3, <2>6, <2>7, <3>3, <3>4
  <2>5. CASE i \notin T
    <3>1. (s \cup {i}) \cap T = s \cap T /\ (s \cup {i}) \ T = (s \ T) \cup {i}
      BY <2>5
    <3>2. SumFunctionOnSet(f, (s \ T) \cup {i}) = f[i] + SumFunctionOnSet(f, s \ T)
      BY <2>1, SumAdd
    <3>3. SumFunctionOnSet(f, (s \cup {i}) \cap T) = SumFunctionOnSet(f, s \cap T)
      BY <3>1, Zenon
    <3>4. SumFunctionOnSet(f, (s \cup {i}) \ T) = f[i] + SumFunctionOnSet(f, s \ T)
      BY <3>1, <3>2, Zenon
    <3> QED
      BY <2>2, <2>3, <2>6, <2>7, <3>3, <3>4
  <2> QED
    BY <2>4, <2>5
<1>3. S \in Good
  <2> HIDE DEF Good
  <2> QED
    BY <1>1, <1>2, FiniteInduction
<1> QED
  BY <1>3

\* A sum over a set that two others make up without sharing a member.
LEMMA SumDisjoint ==
  ASSUME NEW f, NEW S, NEW A, NEW B, IsFiniteSet(S), IntTerms(f, S),
         A \cup B = S, A \cap B = {}
  PROVE  SumFunctionOnSet(f, S) = SumFunctionOnSet(f, A) + SumFunctionOnSet(f, B)
<1>1. SumFunctionOnSet(f, S) = SumFunctionOnSet(f, S \cap A) + SumFunctionOnSet(f, S \ A)
  BY SumSplit
<1>2. S \cap A = A /\ S \ A = B
  OBVIOUS
<1> QED
  BY <1>1, <1>2, Zenon

\* Fewer natural numbers, no greater sum.
LEMMA SumOfPart ==
  ASSUME NEW f, NEW S, IsFiniteSet(S), NatTerms(f, S), NEW T \in SUBSET S
  PROVE  SumFunctionOnSet(f, T) <= SumFunctionOnSet(f, S)
<1>1. IsFiniteSet(T) /\ IsFiniteSet(S \ T)
  BY FS_Subset
<1>2. SumFunctionOnSet(f, S) = SumFunctionOnSet(f, S \cap T) + SumFunctionOnSet(f, S \ T)
  BY NatTermsAreInts, SumSplit
<1>3. S \cap T = T
  OBVIOUS
<1>4. SumFunctionOnSet(f, T) \in Nat /\ SumFunctionOnSet(f, S \ T) \in Nat
  BY <1>1, PartOfNatTerms, SumNat
<1> QED
  BY <1>2, <1>3, <1>4

\* The sums over the members with each key add up to the sum over them all.
LEMMA SumByKey ==
  ASSUME NEW K, IsFiniteSet(K), NEW I, IsFiniteSet(I), NEW key \in [K -> I],
         NEW f, IntTerms(f, K),
         NEW keyed, \A i \in I : /\ keyed[i] \in SUBSET K
                                 /\ \A k \in K : k \in keyed[i] <=> key[k] = i,
         NEW h, \A i \in I : h[i] = SumFunctionOnSet(f, keyed[i])
  PROVE  SumFunctionOnSet(h, I) = SumFunctionOnSet(f, K)
<1> USE DEF IntTerms, NatTerms
<1> DEFINE With(J) == {k \in K : key[k] \in J}
           Good == {J \in SUBSET I : SumFunctionOnSet(h, J) = SumFunctionOnSet(f, With(J))}
<1>1. {} \in Good
  <2>1. With({}) = {}
    OBVIOUS
  <2> QED
    BY <2>1, SumOfNone
<1>2. ASSUME NEW J \in SUBSET I, J \in Good, NEW i \in I \ J
      PROVE  J \cup {i} \in Good
  <2> DEFINE Keyed == keyed[i]
  <2>1. IsFiniteSet(J) /\ IsFiniteSet(With(J)) /\ IsFiniteSet(With(J \cup {i}))
    BY FS_Subset
  <2>2. \A j \in I : h[j] \in Int
    <3> TAKE j \in I
    <3> DEFINE A == keyed[j]
    <3>1. A \in SUBSET K
      OBVIOUS
    <3>2. IsFiniteSet(A) /\ \A k \in A : f[k] \in Int
      BY <3>1, FS_Subset
    <3> HIDE DEF A
    <3>3. SumFunctionOnSet(f, A) \in Int
      BY <3>2, SumInt
    <3> QED
      BY <3>3 DEF A
  <2>3. SumFunctionOnSet(h, J \cup {i}) = h[i] + SumFunctionOnSet(h, J)
    BY <2>1, <2>2, SumAdd
  <2>4. /\ Keyed \cup With(J) = With(J \cup {i}) /\ Keyed \cap With(J) = {}
        /\ With(J \cup {i}) \in SUBSET K
    <3>1. i \in I /\ i \notin J
      OBVIOUS
    <3>2. Keyed \in SUBSET K /\ \A k \in K : k \in Keyed <=> key[k] = i
      BY <3>1
    <3> HIDE DEF Keyed
    <3> QED
      BY <3>1, <3>2
  <2>6. SumFunctionOnSet(f, With(J \cup {i}))
          = SumFunctionOnSet(f, Keyed) + SumFunctionOnSet(f, With(J))
    <3> HIDE DEF IntTerms, Keyed, With
    <3>1. ASSUME NEW A, NEW B, NEW Z \in SUBSET K, IsFiniteSet(Z),
                 A \cup B = Z, A \cap B = {}
          PROVE  SumFunctionOnSet(f, Z) = SumFunctionOnSet(f, A) + SumFunctionOnSet(f, B)
      BY <3>1, PartOfIntTerms, SumDisjoint
    <3> QED
      BY <2>1, <2>4, <3>1, Zenon
  <2>7. h[i] = SumFunctionOnSet(f, Keyed)
    OBVIOUS
  <2>8. SumFunctionOnSet(h, J) = SumFunctionOnSet(f, With(J))
    BY <1>2
  <2> QED
    BY <2>3, <2>6, <2>7, <2>8, Zenon
<1>3. I \in Good
  <2> HIDE DEF Good
  <2> QED
    BY <1>1, <1>2, FiniteInduction
<1>4. With(I) = K
  OBVIOUS
<1> QED
  BY <1>3, <1>4

\* Rounding every term of a sum down gives no more than rounding the sum.
LEMMA SumOfFloors ==
  ASSUME NEW f, NEW g, NEW S, IsFiniteSet(S), NatTerms(f, S),
         NEW n \in Nat, NEW d \in Nat, d > 0, \A x \in S : g[x] = (f[x] * n) \div d
  PROVE  /\ NatTerms(g, S)
         /\ SumFunctionOnSet(g, S) <= (SumFunctionOnSet(f, S) * n) \div d
<1> DEFINE F(s) == SumFunctionOnSet(f, s)
           G(s) == SumFunctionOnSet(g, s)
           Good == {s \in SUBSET S : G(s) <= (F(s) * n) \div d}
<1>1. ASSUME NEW x \in S PROVE f[x] \in Nat /\ g[x] = (f[x] * n) \div d /\ g[x] \in Nat
  <2>1. f[x] \in Nat
    BY DEF NatTerms
  <2>2. f[x] * n \in Nat
    BY <2>1, MulNat
  <2> QED
    BY <2>1, <2>2, DivBounds
<1>2. NatTerms(g, S)
  BY <1>1 DEF NatTerms
<1>3. {} \in Good
  <2>1. F({}) = 0 /\ G({}) = 0
    BY SumOfNone
  <2>2. (0 * n) \div d \in Nat
    BY DivBounds
  <2> QED
    BY <2>1, <2>2
<1>4. ASSUME NEW s \in SUBSET S, s \in Good, NEW x \in S \ s PROVE s \cup {x} \in Good
  <2>1. IsFiniteSet(s) /\ NatTerms(f, s) /\ NatTerms(g, s)
    BY <1>2, FS_Subset, PartOfNatTerms
  <2>2. IntTerms(f, s) /\ IntTerms(g, s) /\ F(s) \in Nat /\ G(s) \in Nat
    BY <2>1, NatTermsAreInts, SumNat
  <2>3. F(s \cup {x}) = f[x] + F(s) /\ G(s \cup {x}) = g[x] + G(s)
    BY <1>1, <2>1, <2>2, SumAdd
  <2> DEFINE a == F(s)
             b == G(s)
  <2>4. a \in Nat /\ b \in Nat /\ b <= (a * n) \div d
    BY <1>4, <2>2
  <2> HIDE DEF F, G, a, b
  <2>5. a * n \in Nat /\ f[x] * n \in Nat
    BY <1>1, <2>4, MulNat
  <2>6. (f[x] + a) * n = f[x] * n + a * n
    <3>1. ASSUME NEW i \in Nat, NEW j \in Nat PROVE (i + j) * n = i * n + j * n
      OBVIOUS
    <3> QED
      BY <1>1, <2>4, <3>1
  <2>7. (f[x] * n) \div d + (a * n) \div d <= (f[x] * n + a * n) \div d
    BY <2>5, FloorsOfSum
  <2>8. (a * n) \div d \in Nat /\ (f[x] * n + a * n) \div d \in Nat
    BY <2>5, DivBounds
  <2>9. g[x] + b <= ((f[x] + a) * n) \div d
    BY <1>1, <2>4, <2>6, <2>7, <2>8
  <2> QED
    BY <2>3, <2>9 DEF a, b
<1>5. S \in Good
  <2> HIDE DEF Good
  <2> QED
    BY <1>3, <1>4, FiniteInduction
<1> QED
  BY <1>2, <1>5

\* A sum over pairs grows by the sum of the column that is added.
LEMMA SumOfColumn ==
  ASSUME NEW S, NEW D, IsFiniteSet(S), IsFiniteSet(D), NEW e, e \notin D,
         NEW g, IntTerms(g, S \X (D \cup {e})),
         NEW col, \A x \in S : col[x] = g[<<x, e>>]
  PROVE  SumFunctionOnSet(g, S \X (D \cup {e}))
           = SumFunctionOnSet(g, S \X D) + SumFunctionOnSet(col, S)
<1> DEFINE All == S \X (D \cup {e})
           Old == S \X D
           New == S \X {e}
           b == [x \in S |-> <<x, e>>]
<1>1. IsFiniteSet(D \cup {e})
  BY FS_AddElement
<1>2. IsFiniteSet(All)
  BY <1>1, FS_Product
<1>3. Old \cup New = All /\ Old \cap New = {}
  OBVIOUS
<1>4. IntTerms(g, New)
  BY DEF IntTerms
<1>5. {b[x] : x \in S} = New
  OBVIOUS
<1>6. b \in [S -> New] /\ \A x, y \in S : b[x] = b[y] => x = y
  OBVIOUS
<1>7. \A x \in S : col[x] = g[b[x]]
  OBVIOUS
<1> HIDE DEF b, New, Old, All
<1>8. SumFunctionOnSet(g, All) = SumFunctionOnSet(g, Old) + SumFunctionOnSet(g, New)
  BY <1>2, <1>3, SumDisjoint DEF All
<1>9. SumFunctionOnSet(col, S) = SumFunctionOnSet(g, New)
  BY <1>4, <1>5, <1>6, <1>7, SumReindexed
<1> QED
  BY <1>8, <1>9 DEF All, Old, New

\* The terms of h combine those of f and g by fixed factors.
Combines(h, f, g, m, n, S) == \A x \in S : h[x] = f[x] * m + g[x] * n

\* And so do the sums.
SumsCombine(h, f, g, m, n, S) ==
  SumFunctionOnSet(h, S) = SumFunctionOnSet(f, S) * m + SumFunctionOnSet(g, S) * n

\* A sum whose terms combine those of two others by fixed factors combines
\* the two sums by the same factors.
LEMMA SumCombines ==
  ASSUME NEW f, NEW g, NEW h, NEW S, IsFiniteSet(S),
         IntTerms(f, S), IntTerms(g, S), NEW m \in Int, NEW n \in Int,
         Combines(h, f, g, m, n, S)
  PROVE  /\ IntTerms(h, S)
         /\ SumsCombine(h, f, g, m, n, S)
<1> USE DEF IntTerms, Combines
<1> DEFINE Good == {s \in SUBSET S :
                      SumFunctionOnSet(h, s)
                        = SumFunctionOnSet(f, s) * m + SumFunctionOnSet(g, s) * n}
<1>1. {} \in Good
  BY SumOfNone
<1>2. ASSUME NEW s \in SUBSET S, s # {}, \A x \in s : s \ {x} \in Good
      PROVE  s \in Good
  <2> DEFINE c == Picked(s)
             F == SumFunctionOnSet(f, s \ {c})
             G == SumFunctionOnSet(g, s \ {c})
  <2>1. c \in s
    BY <1>2 DEF Picked
  <2>2. IsFiniteSet(s) /\ IsFiniteSet(s \ {c})
    BY FS_Subset
  <2>3. SumFunctionOnSet(f, s) = f[c] + F
    BY <1>2, <2>2, SumPicked
  <2>4. SumFunctionOnSet(g, s) = g[c] + G
    BY <1>2, <2>2, SumPicked
  <2>5. SumFunctionOnSet(h, s) = h[c] + SumFunctionOnSet(h, s \ {c})
    BY <1>2, <2>2, SumPicked
  <2>6. F \in Int /\ G \in Int
    BY <2>2, SumInt
  <2>7. SumFunctionOnSet(h, s \ {c}) = F * m + G * n
    BY <1>2, <2>1
  <2>8. ASSUME NEW a \in Int, NEW b \in Int, NEW i \in Int, NEW j \in Int
        PROVE  (a * m + b * n) + (i * m + j * n) = (a + i) * m + (b + j) * n
    OBVIOUS
  <2>9. f[c] \in Int /\ g[c] \in Int /\ h[c] = f[c] * m + g[c] * n
    BY <2>1
  <2> HIDE DEF c, F, G
  <2> QED
    BY <2>3, <2>4, <2>5, <2>6, <2>7, <2>8, <2>9
<1>3. S \in Good
  <2> HIDE DEF Good
  <2> QED
    BY <1>1, <1>2, SizeInduction
<1>4. IntTerms(h, S)
  OBVIOUS
<1> QED
  BY <1>3, <1>4 DEF SumsCombine
\* The first numbers are finitely many.
LEMMA Interval ==
  ASSUME NEW n \in Nat
  PROVE  IsFiniteSet(1 .. n)
<1>1. 1 \in Int /\ n \in Int
  OBVIOUS
<1> QED
  BY <1>1, FS_Interval

\* The sum of a sum's terms, each multiplied by the same number.
LEMMA SumTimes ==
  ASSUME NEW f, NEW h, NEW S, IsFiniteSet(S), IntTerms(f, S), NEW m \in Int,
         \A x \in S : h[x] = f[x] * m
  PROVE  IntTerms(h, S) /\ SumFunctionOnSet(h, S) = SumFunctionOnSet(f, S) * m
<1>1. \A x \in S : f[x] \in Int
  BY DEF IntTerms
<1>2. Combines(h, f, f, m, 0, S) /\ 0 \in Int
  BY <1>1 DEF Combines
<1>3. IntTerms(h, S) /\ SumsCombine(h, f, f, m, 0, S)
  BY <1>2, SumCombines
<1>4. SumFunctionOnSet(f, S) \in Int
  BY SumInt
<1> QED
  BY <1>3, <1>4 DEF SumsCombine

\* A sum of the first terms, none of them more than a number.
LEMMA SumAtMost ==
  ASSUME NEW n \in Nat, NEW c \in Nat, NEW f,
         \A i \in 1 .. n : f[i] \in Nat /\ f[i] <= c
  PROVE  SumFunctionOnSet(f, 1 .. n) <= n * c
<1> DEFINE N == {k \in Nat : k <= n => SumFunctionOnSet(f, 1 .. k) <= k * c}
<1>1. 0 \in N
  <2>1. 1 .. 0 = {} /\ 0 * c = 0
    OBVIOUS
  <2> QED
    BY <2>1, SumOfNone
<1>2. ASSUME NEW k \in N PROVE k + 1 \in N
  <2> SUFFICES ASSUME k + 1 <= n PROVE SumFunctionOnSet(f, 1 .. k + 1) <= (k + 1) * c
    OBVIOUS
  <2> DEFINE S == 1 .. k
  <2>1. k \in Nat /\ SumFunctionOnSet(f, S) <= k * c
    OBVIOUS
  <2>2. IsFiniteSet(S) /\ NatTerms(f, S) /\ f[k + 1] \in Nat /\ f[k + 1] <= c
    BY <2>1, Interval DEF NatTerms
  <2>3. S \cup {k + 1} = 1 .. k + 1 /\ k + 1 \notin S
    BY <2>1
  <2> HIDE DEF S
  <2>4. SumFunctionOnSet(f, S \cup {k + 1}) = f[k + 1] + SumFunctionOnSet(f, S)
    BY <2>2, <2>3, NatTermsAreInts, SumAdd
  <2>5. SumFunctionOnSet(f, S) \in Nat
    BY <2>2, SumNat
  <2>6. (k + 1) * c = k * c + c /\ k * c \in Nat
    BY <2>1, MulNat
  <2> DEFINE x == k * c
             y == (k + 1) * c
             z == SumFunctionOnSet(f, S)
             w == SumFunctionOnSet(f, 1 .. k + 1)
  <2>7. w = f[k + 1] + z /\ y = x + c /\ z <= x /\ x \in Nat /\ z \in Nat
    BY <2>1, <2>3, <2>4, <2>5, <2>6
  <2> HIDE DEF w, x, y, z
  <2>8. w <= y
    BY <2>2, <2>7
  <2> QED
    BY <2>8 DEF w, y
<1>3. N \in SUBSET Nat
  OBVIOUS
<1> HIDE DEF N
<1>4. N = Nat
  BY <1>1, <1>2, <1>3, EveryNat
<1> QED
  BY <1>4 DEF N

\* A term inserted into a sum of the first terms.
LEMMA SumInserted ==
  ASSUME NEW n \in Nat, NEW m \in 1 .. n + 1, NEW f, NatTerms(f, 1 .. n),
         NEW g, g[m] = 0,
         \A i \in 1 .. n : g[IF i < m THEN i ELSE i + 1] = f[i]
  PROVE  SumFunctionOnSet(g, 1 .. n + 1) = SumFunctionOnSet(f, 1 .. n)
<1> DEFINE S == 1 .. n
           T == (1 .. n + 1) \ {m}
           b == [i \in S |-> IF i < m THEN i ELSE i + 1]
<1>1. IsFiniteSet(S) /\ IsFiniteSet(1 .. n + 1)
  BY Interval
<1>2. b \in [S -> T]
  BY SMT
<1>3. \A x, y \in S : b[x] = b[y] => x = y
  BY SMT
<1>4. {b[x] : x \in S} = T
  <2>1. \A y \in T : \E x \in S : b[x] = y
    <3> SUFFICES ASSUME NEW y \in T PROVE \E x \in S : b[x] = y
      OBVIOUS
    <3>0. m \in Nat /\ y \in Nat /\ y # m
      OBVIOUS
    <3>1. CASE y < m
      <4>1. y \in S /\ b[y] = y
        BY <3>0, <3>1
      <4> QED
        BY <4>1
    <3>2. CASE y > m
      <4>1. y - 1 \in S /\ ~(y - 1 < m) /\ (y - 1) + 1 = y
        BY <3>0, <3>2
      <4>2. b[y - 1] = y
        BY <4>1
      <4> QED
        BY <4>1, <4>2
    <3> QED
      BY <3>0, <3>1, <3>2
  <2> HIDE DEF b, S, T
  <2> QED
    BY <1>2, <2>1
<1>5. \A x \in S : f[x] = g[b[x]]
  OBVIOUS
<1>6. IntTerms(g, T)
  <2>1. \A y \in T : g[y] \in Int
    <3> SUFFICES ASSUME NEW y \in T PROVE g[y] \in Int
      OBVIOUS
    <3>1. PICK x \in S : y = b[x]
      BY <1>4
    <3>2. f[x] \in Nat
      BY DEF NatTerms
    <3> HIDE DEF b
    <3> QED
      BY <1>5, <3>1, <3>2
  <2> QED
    BY <2>1 DEF IntTerms
<1>7. T \cup {m} = 1 .. n + 1 /\ m \notin T /\ IsFiniteSet(T)
  <2>1. T \cup {m} = 1 .. n + 1 /\ m \notin T /\ T \in SUBSET (1 .. n + 1)
    OBVIOUS
  <2> HIDE DEF T
  <2> QED
    BY <1>1, <2>1, FS_Subset
<1> HIDE DEF b, S, T
<1>8. SumFunctionOnSet(f, S) = SumFunctionOnSet(g, T)
  BY <1>1, <1>2, <1>3, <1>4, <1>5, <1>6, SumReindexed
<1>9. SumFunctionOnSet(g, T \cup {m}) = g[m] + SumFunctionOnSet(g, T)
  <2>1. g[m] \in Int
    OBVIOUS
  <2> QED
    BY <1>6, <1>7, <2>1, SumAdd
<1>10. SumFunctionOnSet(g, T) \in Int
  BY <1>6, <1>7, SumInt
<1> QED
  <2>1. SumFunctionOnSet(g, T \cup {m}) = SumFunctionOnSet(f, S)
    BY <1>8, <1>9, <1>10
  <2> QED
    BY <1>7, <2>1, Zenon DEF S

\* A set of numbers that has every smaller one counts itself.
LEMMA FirstOnes ==
  ASSUME NEW n \in Nat, NEW E \in SUBSET (1 .. n),
         \A i, j \in 1 .. n : i < j /\ j \in E => i \in E
  PROVE  Cardinality(E) \in 0 .. n /\ E = 1 .. Cardinality(E)
<1> DEFINE T == {k \in Nat : k + 1 \notin E}
<1>1. T \in SUBSET Nat /\ n \in T
  BY SMT
<1>2. PICK m \in T : \A k \in T : m <= k
  <2> HIDE DEF T
  <2> QED
    BY <1>1, LeastNat
<1>3. m \in Nat /\ m + 1 \notin E /\ m <= n
  BY <1>1, <1>2
<1>4. \A i \in 1 .. m : i \in E
  <2> SUFFICES ASSUME NEW i \in 1 .. m, i \notin E PROVE FALSE
    OBVIOUS
  <2>1. i - 1 \in Nat /\ (i - 1) + 1 = i
    BY <1>3
  <2>2. i - 1 \in T
    BY <2>1
  <2> QED
    BY <1>2, <1>3, <2>1, <2>2
<1>5. \A i \in E : i \in 1 .. m
  <2> SUFFICES ASSUME NEW i \in E, ~(i <= m) PROVE FALSE
    BY <1>3
  <2>1. i \in 1 .. n /\ m + 1 \in 1 .. n
    BY <1>3
  <2>2. m + 1 < i \/ m + 1 = i
    BY <1>3, <2>1
  <2> QED
    BY <1>3, <2>1, <2>2
<1>6. E = 1 .. m
  <2> HIDE DEF T
  <2> QED
    BY <1>3, <1>4, <1>5
<1>7. Cardinality(1 .. m) = m
  <2>1. 1 \in Int /\ m \in Int
    BY <1>3
  <2>2. Cardinality(1 .. m) = IF 1 > m THEN 0 ELSE m - 1 + 1
    BY <2>1, FS_Interval
  <2> QED
    BY <1>3, <2>2
<1> QED
  BY <1>3, <1>6, <1>7

-----------------------------------------------------------------------------
(* Sequences: an insertion, a removal and a part, member by member.        *)

\* What InsertAt does to each place of a book.
LEMMA InsertedAt ==
  ASSUME NEW S, NEW s \in Seq(S), NEW e \in S, NEW m \in 1 .. Len(s) + 1
  PROVE  /\ InsertAt(s, m, e) \in Seq(S)
         /\ Len(InsertAt(s, m, e)) = Len(s) + 1
         /\ \A k \in 1 .. Len(s) + 1 :
              InsertAt(s, m, e)[k] = IF k < m THEN s[k] ELSE IF k = m THEN e ELSE s[k - 1]
<1> DEFINE a == SubSeq(s, 1, m - 1)
           b == SubSeq(s, m, Len(s))
           ae == a \o <<e>>
<1>0. Len(s) \in Nat /\ \A k \in 1 .. Len(s) : s[k] \in S
  BY ElementOfSeq
<1>1. /\ a \in Seq(S) /\ Len(a) = m - 1 /\ \A k \in 1 .. m - 1 : a[k] = s[k]
  BY <1>0, SubSeqProperties
<1>2. /\ b \in Seq(S) /\ Len(b) = Len(s) - m + 1
      /\ \A k \in 1 .. Len(s) - m + 1 : b[k] = s[m + k - 1]
  BY <1>0, SubSeqProperties
<1> HIDE DEF a, b
<1>3. <<e>> \in Seq(S) /\ Len(<<e>>) = 1 /\ <<e>>[1] = e
  OBVIOUS
<1>4. /\ ae \in Seq(S) /\ Len(ae) = m
      /\ \A k \in 1 .. m : ae[k] = IF k < m THEN s[k] ELSE e
  BY <1>1, <1>3, ConcatProperties
<1> HIDE DEF ae
<1>5. /\ ae \o b \in Seq(S) /\ Len(ae \o b) = Len(s) + 1
      /\ \A k \in 1 .. Len(s) + 1 : (ae \o b)[k] = IF k <= m THEN ae[k] ELSE b[k - m]
  BY <1>2, <1>4, ConcatProperties
<1>6. InsertAt(s, m, e) = ae \o b
  BY DEF InsertAt, ae, a, b
<1>7. ASSUME NEW k \in 1 .. Len(s) + 1
      PROVE  (ae \o b)[k] = IF k < m THEN s[k] ELSE IF k = m THEN e ELSE s[k - 1]
  <2>1. (ae \o b)[k] = IF k <= m THEN ae[k] ELSE b[k - m]
    BY <1>5
  <2>2. CASE k <= m
    <3>1. ae[k] = IF k < m THEN s[k] ELSE e
      BY <1>0, <1>4, <2>2
    <3> QED
      BY <1>0, <2>1, <2>2, <3>1
  <2>3. CASE ~ (k <= m)
    <3>1. k - m \in 1 .. Len(s) - m + 1 /\ m + (k - m) - 1 = k - 1
      BY <1>0, <2>3
    <3>2. b[k - m] = s[k - 1]
      BY <1>2, <3>1
    <3> QED
      BY <1>0, <2>1, <2>3, <3>2
  <2> QED
    BY <2>2, <2>3
<1> QED
  BY <1>5, <1>6, <1>7

\* What RemoveAt does to each place.
LEMMA RemovedAt ==
  ASSUME NEW S, NEW s \in Seq(S), NEW m \in 1 .. Len(s)
  PROVE  /\ RemoveAt(s, m) \in Seq(S)
         /\ Len(RemoveAt(s, m)) = Len(s) - 1
         /\ \A k \in 1 .. Len(s) - 1 :
              RemoveAt(s, m)[k] = IF k < m THEN s[k] ELSE s[k + 1]
<1> DEFINE a == SubSeq(s, 1, m - 1)
           b == SubSeq(s, m + 1, Len(s))
<1>0. Len(s) \in Nat /\ \A k \in 1 .. Len(s) : s[k] \in S
  BY ElementOfSeq
<1>1. /\ a \in Seq(S) /\ Len(a) = m - 1 /\ \A k \in 1 .. m - 1 : a[k] = s[k]
  BY <1>0, SubSeqProperties
<1>2. /\ b \in Seq(S) /\ Len(b) = Len(s) - m
      /\ \A k \in 1 .. Len(s) - m : b[k] = s[m + k]
  BY <1>0, SubSeqProperties
<1> HIDE DEF a, b
<1> DEFINE c == a \o b
<1>3. /\ c \in Seq(S) /\ Len(c) = Len(s) - 1
      /\ \A k \in 1 .. Len(s) - 1 : c[k] = IF k < m THEN a[k] ELSE b[k - (m - 1)]
  <2>1. /\ c \in Seq(S) /\ Len(c) = Len(a) + Len(b)
        /\ \A k \in 1 .. Len(a) + Len(b) :
             c[k] = IF k <= Len(a) THEN a[k] ELSE b[k - Len(a)]
    BY <1>1, <1>2, ConcatProperties
  <2>2. Len(a) + Len(b) = Len(s) - 1
    BY <1>0, <1>1, <1>2
  <2> HIDE DEF c
  <2> QED
    BY <1>0, <1>1, <2>1, <2>2
<1>4. RemoveAt(s, m) = c
  BY DEF RemoveAt, a, b
<1> HIDE DEF c
<1>5. ASSUME NEW k \in 1 .. Len(s) - 1
      PROVE  c[k] = IF k < m THEN s[k] ELSE s[k + 1]
  <2>1. CASE k < m
    BY <1>0, <1>1, <1>3, <2>1
  <2>2. CASE ~(k < m)
    <3>1. c[k] = b[k - (m - 1)]
      BY <1>0, <1>3, <2>2
    <3>2. k - (m - 1) \in 1 .. Len(s) - m /\ m + (k - (m - 1)) = k + 1
      BY <1>0, <2>2
    <3> QED
      BY <1>2, <2>2, <3>1, <3>2
  <2> QED
    BY <2>1, <2>2
<1> QED
  BY <1>3, <1>4, <1>5

\* The front of a sequence is the sequence without its last place.
LEMMA FrontOf ==
  ASSUME NEW S, NEW s \in Seq(S), Len(s) > 0
  PROVE  /\ Front(s) \in Seq(S)
         /\ Len(Front(s)) = Len(s) - 1
         /\ \A k \in 1 .. Len(s) - 1 : Front(s)[k] = s[k]
<1>1. Len(s) \in Nat /\ \A k \in 1 .. Len(s) : s[k] \in S
  BY ElementOfSeq
<1> QED
  <2> DEFINE n == Len(s) - 1
  <2>1. n \in Nat /\ \A k \in 1 .. n : s[k] \in S
    BY <1>1
  <2> HIDE DEF n
  <2>2. /\ SubSeq(s, 1, n) \in Seq(S) /\ Len(SubSeq(s, 1, n)) = n
        /\ \A k \in 1 .. n : SubSeq(s, 1, n)[k] = s[k]
    BY <2>1, SubSeqProperties
  <2> QED
    BY <2>2 DEF Front, n

\* The least member of a set of numbers belongs to it.
LEMMA LeastMember ==
  ASSUME NEW T \in SUBSET Nat, T # {}
  PROVE  Min(T) \in T /\ \A k \in T : Min(T) <= k
BY LeastNat DEF Min

=============================================================================
