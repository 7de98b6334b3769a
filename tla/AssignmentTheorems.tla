------------------------- MODULE AssignmentTheorems -------------------------
(***************************************************************************)
(* Facts about the operators of module Assignment, and about the rounding  *)
(* they lean on, for every value of the constants.                         *)
(***************************************************************************)
EXTENDS Assignment, NumberTheorems

-----------------------------------------------------------------------------
(* Arithmetic.                                                             *)

\* Rounding up is the least natural number whose product reaches a.
LEMMA CeilDivBounds ==
  ASSUME NEW a \in Nat, NEW b \in Nat, b > 0
  PROVE  /\ CeilDiv(a, b) \in Nat
         /\ a <= CeilDiv(a, b) * b
         /\ CeilDiv(a, b) * b < a + b
<1>1. a + b - 1 \in Nat
  OBVIOUS
<1>2. QED
  BY <1>1, DivBounds DEF CeilDiv

\* Rounding two amounts down apart gives no more than rounding them together;
\* rounding one of them up gives no less.
LEMMA FloorOfSum ==
  ASSUME NEW a \in Nat, NEW b \in Nat, NEW d \in Nat, d > 0
  PROVE  /\ a \div d + b \div d <= (a + b) \div d
         /\ (a + b) \div d <= a \div d + CeilDiv(b, d)
<1>1. a \div d \in Nat /\ (a \div d) * d <= a /\ a < (a \div d) * d + d
  BY DivBounds
<1>2. b \div d \in Nat /\ (b \div d) * d <= b
  BY DivBounds
<1>3. CeilDiv(b, d) \in Nat /\ b <= CeilDiv(b, d) * d
  BY CeilDivBounds
<1>4. ASSUME NEW m \in Nat, NEW n \in Nat PROVE (m + n) * d = m * d + n * d
  OBVIOUS
<1>5. (a \div d + b \div d) * d <= a + b
  <2>1. (a \div d + b \div d) * d = (a \div d) * d + (b \div d) * d
    BY <1>1, <1>2, <1>4
  <2>2. (a \div d) * d \in Nat /\ (b \div d) * d \in Nat
    BY <1>1, <1>2, MulNat
  <2> QED
    BY <1>1, <1>2, <2>1, <2>2
<1>6. a + b < (a \div d + CeilDiv(b, d)) * d + d
  <2>1. (a \div d + CeilDiv(b, d)) * d = (a \div d) * d + CeilDiv(b, d) * d
    BY <1>1, <1>3, <1>4
  <2>2. (a \div d) * d \in Nat /\ CeilDiv(b, d) * d \in Nat
    BY <1>1, <1>3, MulNat
  <2> QED
    BY <1>1, <1>3, <2>1, <2>2
<1>7. /\ a + b \in Nat /\ a \div d + b \div d \in Nat
      /\ a \div d + CeilDiv(b, d) \in Nat
  BY <1>1, <1>2, <1>3
<1> QED
  BY <1>5, <1>6, <1>7, DivLeast

\* A share below the whole, rounded up, is no more than the whole.
LEMMA ShareAtMost ==
  ASSUME NEW a \in Nat, NEW m \in Nat, NEW d \in Nat, d > 0, m <= d
  PROVE  CeilDiv(a * m, d) \in Nat /\ CeilDiv(a * m, d) <= a
<1>1. a * m \in Nat /\ a * m <= a * d /\ a * d \in Nat
  BY MulNat, MulMono
<1>2. CeilDiv(a * m, d) \in Nat /\ CeilDiv(a * m, d) * d < a * m + d
  BY <1>1, CeilDivBounds
<1>3. CeilDiv(a * m, d) * d < (a + 1) * d
  BY <1>1, <1>2
<1>4. CeilDiv(a * m, d) < a + 1
  BY <1>2, <1>3, MulCancel
<1> QED
  BY <1>2, <1>4

-----------------------------------------------------------------------------
(* The product.                                                            *)

\* Rounding the product up neither raises it nor makes it vanish, and an
\* exercise that moves it lowers it.
LEMMA NextProductBounds ==
  ASSUME NEW pl \in PoolType, pl.p > 0,
         NEW q \in Nat, q > 0, q < pl.u
  PROVE  /\ NextProduct(pl, q) \in 1 .. pl.p
         /\ MovesProduct(pl, q) => NextProduct(pl, q) < pl.p
<1> DEFINE rest == pl.u - q
           n == NextProduct(pl, q)
<1>1. /\ pl.p \in Nat /\ pl.u \in Nat /\ pl.u > 0
      /\ rest \in Nat /\ rest > 0 /\ rest < pl.u
  BY DEF PoolType
<1>2. pl.p * rest \in Nat /\ pl.p * rest > 0
  BY <1>1, MulPos, MulNat
<1>3. /\ n \in Nat
      /\ pl.p * rest <= n * pl.u
      /\ n * pl.u < pl.p * rest + pl.u
  BY <1>1, <1>2, CeilDivBounds DEF NextProduct
<1>4. n > 0
  BY <1>1, <1>2, <1>3
<1>5. pl.p * rest + pl.u <= pl.p * pl.u + pl.u
  BY <1>1
<1>6. n <= pl.p
  <2>1. n * pl.u < (pl.p + 1) * pl.u
    BY <1>1, <1>3, <1>5
  <2>2. n < pl.p + 1
    BY <2>1, <1>1, <1>3, MulCancel
  <2>3. QED
    BY <2>2, <1>1, <1>3
<1>7. ASSUME MovesProduct(pl, q)
      PROVE  n < pl.p
  <2>1. q * pl.p >= pl.u
    BY <1>7, <1>1 DEF MovesProduct
  <2>2. pl.p * rest = pl.p * pl.u - q * pl.p
    BY <1>1
  <2>3. n * pl.u < pl.p * pl.u
    BY <2>1, <2>2, <1>1, <1>3, MulNat
  <2>4. QED
    BY <2>3, <1>1, <1>3, MulCancel
<1>8. QED
  BY <1>1, <1>3, <1>4, <1>6, <1>7

\* What an exercise that the instructions accept does to the pool: the product
\* stays in range, the "p == 0" branch is not taken, exactly q lots leave the
\* pool, and the product, its scale or its epoch differs afterwards.
LEMMA ApplyExerciseFacts ==
  ASSUME NEW pl \in PoolType, pl.p \in P_FLOOR .. P_ONE,
         NEW q \in Nat, q > 0, q <= pl.u
  PROVE  /\ ApplyExercise(pl, q) \in PoolType
         /\ ApplyExercise(pl, q).p \in P_FLOOR .. P_ONE
         /\ ApplyExercise(pl, q).u = pl.u - q
         /\ MovesProduct(pl, q) => ~SnapshotCurrent(ApplyExercise(pl, q), pl)
<1> USE ProductConstants
<1>1. pl.p \in Nat /\ pl.p > 0 /\ pl.u \in Nat /\ pl.epoch \in Nat
      /\ pl.scale \in 0 .. ScaleMod - 1
  BY DEF PoolType
<1>2. P_ONE \in Nat /\ P_FLOOR <= P_ONE
  BY MulPos, MulNat
<1>3. CASE q = pl.u
  <2>1. ApplyExercise(pl, q) = ConsumePool(pl)
    BY <1>3 DEF ApplyExercise
  <2>2. QED
    BY <2>1, <1>1, <1>2, <1>3 DEF ConsumePool, PoolType, SnapshotCurrent
<1>4. CASE q < pl.u
  <2> DEFINE raw == NextProduct(pl, q)
             r == Rescale(pl, q)
  <2>1. raw \in 1 .. pl.p /\ (MovesProduct(pl, q) => raw < pl.p)
    BY <1>1, <1>4, NextProductBounds
  <2>2. r.u = pl.u - q /\ r.u \in Nat /\ r.epoch = pl.epoch
    BY <1>1, <1>4 DEF Rescale
  <2>3. /\ r \in PoolType /\ r.p \in P_FLOOR .. P_ONE
        /\ MovesProduct(pl, q) => ~SnapshotCurrent(r, pl)
    <3>1. CASE raw < P_FLOOR
      <4>1. r = [p |-> raw * P_SCALE, scale |-> (pl.scale + 1) % ScaleMod,
                 epoch |-> pl.epoch, u |-> pl.u - q]
        BY <3>1 DEF Rescale
      <4>2. raw * P_SCALE \in Nat /\ raw * P_SCALE >= P_SCALE
        BY <2>1, <1>1, MulPos, MulNat
      <4>3. raw * P_SCALE <= P_FLOOR * P_SCALE
        BY <2>1, <3>1, <1>1, MulMono
      <4>4. /\ (pl.scale + 1) % ScaleMod \in 0 .. ScaleMod - 1
            /\ (pl.scale + 1) % ScaleMod # pl.scale
        <5>1. CASE pl.scale + 1 < ScaleMod
          BY <5>1, <1>1
        <5>2. CASE pl.scale + 1 = ScaleMod
          BY <5>2, <1>1
        <5>3. QED
          BY <5>1, <5>2, <1>1
      <4>5. QED
        BY <4>1, <4>2, <4>3, <4>4, <2>2, <1>1, <1>2 DEF PoolType, SnapshotCurrent
    <3>2. CASE raw >= P_FLOOR
      <4>1. r = [p |-> raw, scale |-> pl.scale, epoch |-> pl.epoch, u |-> pl.u - q]
        BY <3>2, <2>1, <1>1 DEF Rescale
      <4>2. QED
        BY <4>1, <3>2, <2>1, <2>2, <1>1, <1>2 DEF PoolType, SnapshotCurrent
    <3>3. QED
      BY <3>1, <3>2, <2>1, <1>1
  <2>4. ApplyExercise(pl, q) = r
    BY <2>3, <1>1, <1>4 DEF ApplyExercise
  <2>5. QED
    BY <2>2, <2>3, <2>4
<1>5. QED
  BY <1>1, <1>3, <1>4
-----------------------------------------------------------------------------
(* Slots.                                                                  *)

\* The divisor of a slot's rescales is positive.
LEMMA RescaleFactorPositive ==
  ASSUME NEW d \in Nat
  PROVE  RescaleFactor(d) \in Nat /\ RescaleFactor(d) > 0
<1> USE ProductConstants
<1> DEFINE square == P_SCALE * P_SCALE
<1>1. P_SCALE \in Nat /\ P_SCALE > 0
  OBVIOUS
<1>2. square \in Nat /\ square > 0
  BY <1>1, MulPos, MulNat
<1> HIDE DEF square
<1>3. /\ square * P_SCALE \in Nat /\ square * P_SCALE > 0
      /\ square * square \in Nat /\ square * square > 0
  BY <1>1, <1>2, MulPos, MulNat
<1>4. QED
  BY <1>1, <1>2, <1>3 DEF RescaleFactor, square

\* The part of a slot's open lots still unassigned is a part of them.
LEMMA FoldedOpenBounds ==
  ASSUME NEW pl \in PoolType, NEW w, w.open \in Nat, w.p \in Nat, w.scale \in Nat
  PROVE  FoldedOpen(pl, w) \in 0 .. w.open
<1> USE ProductConstants
<1> DEFINE diff == (pl.scale - w.scale) % ScaleMod
           step == CeilDiv(w.open * pl.p, w.p)
<1>1. /\ w.open \in Nat /\ w.p \in Nat /\ pl.p \in Nat
      /\ pl.scale \in Nat /\ w.scale \in Nat
  BY DEF PoolType
<1>2. diff \in Nat
  BY <1>1
<1>3. Unassigned(pl, w) \in 0 .. w.open
  <2>1. CASE w.epoch # pl.epoch \/ diff >= 5 \/ w.p = 0
    BY <2>1, <1>1 DEF Unassigned
  <2>2. CASE ~(w.epoch # pl.epoch \/ diff >= 5 \/ w.p = 0)
    <3>1. w.open * pl.p \in Nat
      BY <1>1, MulNat
    <3>2. step \in Nat
      BY <3>1, <2>2, <1>1, CeilDivBounds
    <3>3. CeilDiv(step, RescaleFactor(diff)) \in Nat
      BY <3>2, <1>2, RescaleFactorPositive, CeilDivBounds
    <3>4. Unassigned(pl, w) = LesserOf(w.open, CeilDiv(step, RescaleFactor(diff)))
      BY <2>2 DEF Unassigned
    <3> HIDE DEF diff, step
    <3>5. QED
      BY <3>3, <3>4, <1>1 DEF LesserOf
  <2>3. QED
    BY <2>1, <2>2
<1>4. QED
  BY <1>1, <1>3 DEF FoldedOpen
=============================================================================
