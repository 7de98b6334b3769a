------------------------ MODULE AssignmentPoolProofs ------------------------
(***************************************************************************)
(* Theorems about the pooled assignment of module AssignmentPool, for      *)
(* every number of slots and every value of the constants that meets       *)
(* ProductConstants.  The bounds on the sum over the slots need PoolBounds *)
(* and LotsBelowScale besides: rounding may cost a lot unit per slot only  *)
(* if the lots are few beside the scale.                                   *)
(***************************************************************************)
EXTENDS AssignmentPool, AssignmentTheorems

-----------------------------------------------------------------------------
(* Slots.                                                                  *)

\* Folding moves lots from open to assigned and loses none of them.
LEMMA FoldFacts ==
  ASSUME NEW pl \in PoolType, NEW w \in SlotType
  PROVE  /\ Fold(pl, w) \in SlotType
         /\ Fold(pl, w).open = FoldedOpen(pl, w)
         /\ Fold(pl, w).assigned + Fold(pl, w).open = w.assigned + w.open
         /\ Fold(pl, w).sold = w.sold
         /\ Fold(pl, w).settled = w.settled
<1>1. FoldedOpen(pl, w) \in 0 .. w.open
  BY FoldedOpenBounds DEF SlotType
<1>2. CASE SnapshotCurrent(pl, w)
  BY <1>2 DEF Fold, FoldedOpen
<1>3. CASE ~SnapshotCurrent(pl, w)
  <2> DEFINE a == w.assigned + (w.open - FoldedOpen(pl, w))
  <2>1. Fold(pl, w) =
          [p |-> pl.p, scale |-> pl.scale, epoch |-> pl.epoch,
           open |-> FoldedOpen(pl, w), assigned |-> a,
           sold |-> w.sold, settled |-> w.settled]
    BY <1>3 DEF Fold, SlotType
  <2>2. a \in Nat /\ a + FoldedOpen(pl, w) = w.assigned + w.open
    BY <1>1 DEF SlotType
  <2> HIDE DEF a
  <2>3. QED
    BY <1>1, <2>1, <2>2 DEF PoolType, SlotType
<1>4. QED
  BY <1>2, <1>3

\* A slot with new open and sold lots, written out field by field.
LEMMA OpenSoldUpdate ==
  ASSUME NEW f \in SlotType, NEW o, NEW n
  PROVE  [f EXCEPT !.open = o, !.sold = n] =
           [p |-> f.p, scale |-> f.scale, epoch |-> f.epoch, open |-> o,
            assigned |-> f.assigned, sold |-> n, settled |-> f.settled]
<1> DEFINE g == [f EXCEPT !.open = o]
<1>1. g = [p |-> f.p, scale |-> f.scale, epoch |-> f.epoch, open |-> o,
           assigned |-> f.assigned, sold |-> f.sold, settled |-> f.settled]
  BY DEF SlotType
<1>2. [f EXCEPT !.open = o, !.sold = n] = [g EXCEPT !.sold = n]
  OBVIOUS
<1> HIDE DEF g
<1>3. [g EXCEPT !.sold = n] =
        [p |-> f.p, scale |-> f.scale, epoch |-> f.epoch, open |-> o,
         assigned |-> f.assigned, sold |-> n, settled |-> f.settled]
  BY <1>1
<1>4. QED
  BY <1>2, <1>3

\* Selling n lots adds them to both counters of the slot.
LEMMA AddOpenFacts ==
  ASSUME NEW pl \in PoolType, NEW w \in SlotType, NEW n \in Nat
  PROVE  /\ AddOpen(pl, w, n) \in SlotType
         /\ AddOpen(pl, w, n).assigned + AddOpen(pl, w, n).open
              = w.assigned + w.open + n
         /\ AddOpen(pl, w, n).sold = w.sold + n
         /\ AddOpen(pl, w, n).settled = w.settled
<1> DEFINE f == Fold(pl, w)
<1>1. /\ f \in SlotType
      /\ f.assigned + f.open = w.assigned + w.open
      /\ f.sold = w.sold /\ f.settled = w.settled
  BY FoldFacts
<1>2. AddOpen(pl, w, n) = [f EXCEPT !.open = f.open + n, !.sold = f.sold + n]
  BY Zenon DEF AddOpen
<1> HIDE DEF f
<1>3. AddOpen(pl, w, n) =
        [p |-> f.p, scale |-> f.scale, epoch |-> f.epoch, open |-> f.open + n,
         assigned |-> f.assigned, sold |-> f.sold + n, settled |-> f.settled]
  BY <1>1, <1>2, OpenSoldUpdate
<1>4. QED
  BY <1>1, <1>3 DEF SlotType

\* Burning n of the slot's unassigned lots takes them from both counters.
LEMMA BurnOpenFacts ==
  ASSUME NEW pl \in PoolType, NEW w \in SlotType,
         w.sold = w.assigned + w.open,
         NEW n \in Nat, n <= FoldedOpen(pl, w)
  PROVE  /\ BurnOpen(pl, w, n) \in SlotType
         /\ BurnOpen(pl, w, n).sold
              = BurnOpen(pl, w, n).assigned + BurnOpen(pl, w, n).open
         /\ BurnOpen(pl, w, n).settled = w.settled
<1> DEFINE f == Fold(pl, w)
<1>1. /\ f \in SlotType /\ f.open = FoldedOpen(pl, w)
      /\ f.assigned + f.open = w.assigned + w.open
      /\ f.sold = w.sold /\ f.settled = w.settled
  BY FoldFacts
<1>2. BurnOpen(pl, w, n) = [f EXCEPT !.open = f.open - n, !.sold = SatSub(f.sold, n)]
  BY DEF BurnOpen
<1> HIDE DEF f
<1>3. f.sold >= n /\ SatSub(f.sold, n) = f.sold - n
  BY <1>1 DEF SatSub, SlotType
<1>4. BurnOpen(pl, w, n) =
        [p |-> f.p, scale |-> f.scale, epoch |-> f.epoch, open |-> f.open - n,
         assigned |-> f.assigned, sold |-> SatSub(f.sold, n), settled |-> f.settled]
  BY <1>1, <1>2, OpenSoldUpdate
<1>5. QED
  BY <1>1, <1>3, <1>4 DEF SlotType

\* Settlement leaves a slot of the same type with nothing open.
LEMMA SettledSlotFacts ==
  ASSUME NEW pl \in PoolType, NEW w \in SlotType
  PROVE  SettledSlot(pl, w) \in SlotType /\ SettledSlot(pl, w).settled
<1> DEFINE f == Fold(pl, w)
           g == [f EXCEPT !.open = 0]
<1>1. f \in SlotType
  BY FoldFacts
<1>2. SettledSlot(pl, w) = [g EXCEPT !.settled = TRUE]
  BY DEF SettledSlot
<1> HIDE DEF f
<1>3. g \in SlotType
  BY <1>1 DEF SlotType
<1> HIDE DEF g
<1>4. QED
  BY <1>2, <1>3 DEF SlotType

-----------------------------------------------------------------------------
(* The inductive invariant.                                                *)

\* ProductInRange is what apply_exercise needs to stay in PoolType; the two
\* conservation laws are what makes the saturating subtractions of a buy-back
\* exact.
IInv ==
  /\ TypeOK
  /\ ProductInRange
  /\ LotsConserved
  /\ SlotLotsConserved

\* A new series satisfies the invariant.
LEMMA InitIInv == Init => IInv
<1> SUFFICES ASSUME Init PROVE IInv
  OBVIOUS
<1> USE ProductConstants
<1>1. P_ONE \in Nat /\ P_FLOOR <= P_ONE
  BY MulPos, MulNat
<1>2. FreshPool \in PoolType /\ FreshPool.p \in P_FLOOR .. P_ONE /\ FreshPool.u = 0
  BY <1>1 DEF FreshPool, PoolType
<1>3. /\ FreshSlot(FreshPool) \in SlotType
      /\ FreshSlot(FreshPool).sold
           = FreshSlot(FreshPool).assigned + FreshSlot(FreshPool).open
  BY <1>2 DEF FreshSlot, PoolType, SlotType
<1>4. QED
  BY <1>2, <1>3 DEF Init, IInv, TypeOK, ProductInRange, LotsConserved,
       SlotLotsConserved

\* Handing a slot with nothing sold to a new writer keeps it.
LEMMA ClaimIInv ==
  ASSUME IInv, NEW s \in Slots, Claim(s)
  PROVE  IInv'
<1> USE ProductConstants DEF IInv
<1>1. /\ FreshSlot(pool) \in SlotType
      /\ FreshSlot(pool).sold = FreshSlot(pool).assigned + FreshSlot(pool).open
  BY DEF FreshSlot, PoolType, SlotType, TypeOK
<1>2. QED
  BY <1>1 DEF Claim, TypeOK, ProductInRange, LotsConserved, SlotLotsConserved

\* A purchase keeps it: the slots' new lots are the pool's new lots.
LEMMA SellIInv ==
  ASSUME IInv, NEW fill \in [Slots -> 0 .. MaxFill], NEW filled \in 1 .. MaxSold,
         Sell(fill, filled)
  PROVE  IInv'
<1> USE PoolBounds DEF IInv
<1>1. pool \in PoolType /\ slots \in [Slots -> SlotType] /\ filled \in Nat
  BY DEF TypeOK
<1>2. /\ pool' = [pool EXCEPT !.u = pool.u + filled]
      /\ pool'.u = pool.u + filled /\ pool'.p = pool.p
      /\ pool' \in PoolType
  BY <1>1 DEF Sell, PoolType
<1>3. ASSUME NEW s \in Slots
      PROVE  /\ slots'[s] \in SlotType
             /\ slots'[s].settled = slots[s].settled
             /\ slots[s].sold = slots[s].assigned + slots[s].open
                  => slots'[s].sold = slots'[s].assigned + slots'[s].open
  <2>1. slots'[s] = IF fill[s] > 0 THEN AddOpen(pool, slots[s], fill[s]) ELSE slots[s]
    BY DEF Sell
  <2>2. fill[s] \in Nat /\ slots[s] \in SlotType
    BY <1>1
  <2>3. CASE fill[s] > 0
    <3> DEFINE w == AddOpen(pool, slots[s], fill[s])
    <3>1. slots'[s] = w
      BY <2>1, <2>3
    <3>2. /\ w \in SlotType
          /\ w.assigned + w.open = slots[s].assigned + slots[s].open + fill[s]
          /\ w.sold = slots[s].sold + fill[s]
          /\ w.settled = slots[s].settled
      BY <1>1, <2>2, AddOpenFacts
    <3> HIDE DEF w
    <3>3. QED
      BY <3>1, <3>2, <2>2 DEF SlotType
  <2>4. CASE ~(fill[s] > 0)
    BY <2>1, <2>2, <2>4
  <2>5. QED
    BY <2>3, <2>4
<1>4. slots' \in [Slots -> SlotType]
  BY <1>3 DEF Sell
<1>5. TypeOK' /\ ProductInRange' /\ LotsConserved'
  BY <1>1, <1>2, <1>4 DEF Sell, TypeOK, ProductInRange, LotsConserved, PoolType
<1>6. SlotLotsConserved'
  BY <1>3 DEF SlotLotsConserved
<1>7. QED
  BY <1>5, <1>6

\* An exercise keeps it: it only moves the product.
LEMMA ExerciseIInv ==
  ASSUME IInv, NEW q \in 1 .. MaxSold, Exercise(q)
  PROVE  IInv'
<1> USE PoolBounds DEF IInv
<1>1. /\ pool \in PoolType /\ pool.p \in P_FLOOR .. P_ONE
      /\ q \in Nat /\ q > 0 /\ q <= pool.u
      /\ pool' = ApplyExercise(pool, q)
  BY DEF TypeOK, ProductInRange, Exercise
<1>2. pool' \in PoolType /\ pool'.p \in P_FLOOR .. P_ONE /\ pool'.u = pool.u - q
  BY <1>1, ApplyExerciseFacts
<1>3. TypeOK' /\ SlotLotsConserved'
  BY <1>1, <1>2 DEF Exercise, TypeOK, SlotLotsConserved
<1>4. ProductInRange'
  BY <1>2, ProductConstants DEF ProductInRange
<1>5. LotsConserved'
  BY <1>1, <1>2 DEF Exercise, TypeOK, LotsConserved, PoolType
<1>6. QED
  BY <1>3, <1>4, <1>5

\* A buy-back keeps it: it burns lots the slot has unassigned.
LEMMA BuyBackIInv ==
  ASSUME IInv, NEW s \in Slots, NEW n \in 1 .. MaxSold, BuyBack(s, n)
  PROVE  IInv'
<1> USE PoolBounds DEF IInv
<1> DEFINE w == BurnOpen(pool, slots[s], n)
<1>1. /\ pool \in PoolType /\ slots \in [Slots -> SlotType] /\ slots[s] \in SlotType
      /\ n \in Nat /\ n <= pool.u /\ n <= FoldedOpen(pool, slots[s])
      /\ slots' = [slots EXCEPT ![s] = w]
  BY DEF TypeOK, BuyBack
<1>2. slots[s].sold = slots[s].assigned + slots[s].open
  BY DEF BuyBack, settling, SlotLotsConserved
<1>3. w \in SlotType /\ w.sold = w.assigned + w.open
  BY <1>1, <1>2, BurnOpenFacts
<1> HIDE DEF w
<1>4. totalSold >= n /\ totalSold' = totalSold - n
  BY <1>1 DEF BuyBack, SatSub, TypeOK, LotsConserved, PoolType
<1>5. pool' \in PoolType /\ pool'.u = pool.u - n /\ pool'.p = pool.p
  BY <1>1 DEF BuyBack, SatSub, PoolType
<1>6. TypeOK' /\ ProductInRange' /\ LotsConserved'
  BY <1>1, <1>3, <1>4, <1>5
     DEF BuyBack, TypeOK, ProductInRange, LotsConserved, PoolType
<1>7. SlotLotsConserved'
  BY <1>1, <1>3 DEF SlotLotsConserved
<1>8. QED
  BY <1>6, <1>7

\* Settling a slot keeps it.
LEMMA SettleIInv ==
  ASSUME IInv, NEW s \in Slots, Settle(s)
  PROVE  IInv'
<1> USE DEF IInv
<1> DEFINE w == SettledSlot(pool, slots[s])
<1>1. /\ pool \in PoolType /\ slots \in [Slots -> SlotType]
      /\ slots' = [slots EXCEPT ![s] = w]
  BY DEF TypeOK, Settle
<1>2. w \in SlotType /\ w.settled
  BY <1>1, SettledSlotFacts
<1> HIDE DEF w
<1>3. QED
  BY <1>1, <1>2
     DEF Settle, TypeOK, ProductInRange, LotsConserved, SlotLotsConserved

\* Every step, stuttering included, keeps the invariant.
LEMMA NextIInv == IInv /\ [Next]_vars => IInv'
<1> SUFFICES ASSUME IInv, [Next]_vars PROVE IInv'
  OBVIOUS
<1>1. ASSUME NEW s \in Slots, Claim(s) PROVE IInv'
  BY <1>1, ClaimIInv
<1>2. ASSUME NEW fill \in [Slots -> 0 .. MaxFill], NEW filled \in 1 .. MaxSold,
             Sell(fill, filled)
      PROVE  IInv'
  BY <1>2, SellIInv
<1>3. ASSUME NEW q \in 1 .. MaxSold, Exercise(q) PROVE IInv'
  BY <1>3, ExerciseIInv
<1>4. ASSUME NEW s \in Slots, NEW n \in 1 .. MaxSold, BuyBack(s, n) PROVE IInv'
  BY <1>4, BuyBackIInv
<1>5. ASSUME NEW s \in Slots, Settle(s) PROVE IInv'
  BY <1>5, SettleIInv
<1>6. CASE UNCHANGED vars
  BY <1>6 DEF vars, IInv, TypeOK, ProductInRange, LotsConserved, SlotLotsConserved
<1>7. QED
  BY <1>1, <1>2, <1>3, <1>4, <1>5, <1>6 DEF Next

-----------------------------------------------------------------------------
(* The theorems.                                                           *)

\* The inductive invariant holds in every reachable state.
THEOREM IInvHolds == Spec => []IInv
<1>1. QED
  BY InitIInv, NextIInv, PTL DEF Spec

\* No counter of the pool or of a slot ever leaves the naturals: none of the
\* saturating subtractions of fold, buy-back or settlement saturates.
THEOREM TypeCorrect == Spec => []TypeOK
<1>1. IInv => TypeOK
  BY DEF IInv
<1>2. QED
  BY <1>1, IInvHolds, PTL

\* apply_exercise keeps the product within [P_FLOOR, P_ONE] for every pool
\* size: precision never falls below P_FLOOR and the "p == 0" branch is dead.
THEOREM ProductStaysInRange == Spec => []ProductInRange
<1>1. IInv => ProductInRange
  BY DEF IInv
<1>2. QED
  BY <1>1, IInvHolds, PTL

\* Every contract ever sold and not bought back is exercised or unassigned.
THEOREM LotsAreConserved == Spec => []LotsConserved
<1>1. IInv => LotsConserved
  BY DEF IInv
<1>2. QED
  BY <1>1, IInvHolds, PTL

\* Up to settlement a slot's sold lots are exactly its assigned and open ones.
THEOREM SlotLotsAreConserved == Spec => []SlotLotsConserved
<1>1. IInv => SlotLotsConserved
  BY DEF IInv
<1>2. QED
  BY <1>1, IInvHolds, PTL

\* An accepted exercise always moves the product, its scale or its epoch, so
\* no slot can skip the fold that charges it.
THEOREM ExerciseAlwaysCharges == Spec => ExerciseCharges
<1>1. IInv /\ [Next]_vars =>
        [totalExercised' > totalExercised => ~SnapshotCurrent(pool', pool)]_vars
  <2> SUFFICES ASSUME IInv, Next, totalExercised' > totalExercised
               PROVE  ~SnapshotCurrent(pool', pool)
    BY DEF vars
  <2>1. PICK q \in 1 .. MaxSold : Exercise(q)
    <3>1. ASSUME totalExercised' = totalExercised PROVE FALSE
      BY <3>1 DEF IInv, TypeOK
    <3>2. ASSUME NEW s \in Slots, Claim(s) \/ Settle(s) PROVE FALSE
      BY <3>1, <3>2 DEF Claim, Settle
    <3>3. ASSUME NEW fill, NEW filled, Sell(fill, filled) PROVE FALSE
      BY <3>1, <3>3 DEF Sell
    <3>4. ASSUME NEW s \in Slots, NEW n, BuyBack(s, n) PROVE FALSE
      BY <3>1, <3>4 DEF BuyBack
    <3>5. QED
      BY <3>2, <3>3, <3>4 DEF Next
  <2>2. /\ pool \in PoolType /\ pool.p \in P_FLOOR .. P_ONE
        /\ q \in Nat /\ q > 0 /\ q <= pool.u /\ MovesProduct(pool, q)
        /\ pool' = ApplyExercise(pool, q)
    BY <2>1, PoolBounds DEF IInv, TypeOK, ProductInRange, Exercise
  <2>3. QED
    BY <2>2, ApplyExerciseFacts
<1>2. QED
  BY <1>1, IInvHolds, PTL DEF Spec, ExerciseCharges

-----------------------------------------------------------------------------
(* What the writers together may be assigned.                              *)

\* What a product that fell through d rescales has lost at least.
Fallen(d) == IF d < 5 THEN RescaleFactor(d) ELSE P_SCALE * RescaleFactor(4)

\* The scales between a slot's snapshot and the pool, as unassigned() counts
\* them.
Behind(pl, v) == (pl.scale - v.scale) % ScaleMod

\* w / n bounds the exact, unrounded part of a slot's open lots that is still
\* unassigned: nothing once the pool was consumed, and otherwise the lots in
\* proportion to the product, which fell by k more than its digits say.
ShareBound(pl, v, n, w, k) ==
  /\ v.p \in P_FLOOR .. P_ONE
  /\ w <= n * v.open
  /\ v.epoch # pl.epoch => w <= 0
  /\ v.epoch = pl.epoch => /\ Fallen(Behind(pl, v)) <= k
                           /\ w * (v.p * k) <= (n * v.open) * pl.p

\* Each further rescale takes at most one factor P_SCALE more.
LEMMA FallenFacts ==
  ASSUME NEW d \in Nat
  PROVE  /\ Fallen(d) \in Nat /\ Fallen(d) > 0
         /\ Fallen(0) <= Fallen(d) * P_SCALE
         /\ Fallen(d + 1) <= Fallen(d) * P_SCALE
         /\ Fallen(d) <= P_SCALE * RescaleFactor(4)
<1> USE ProductConstants
<1> DEFINE sc == P_SCALE
           square == sc * sc
           cube == square * sc
           fourth == square * square
<1>1. sc \in Nat /\ sc > 0
  OBVIOUS
<1> HIDE DEF sc
<1>2. square \in Nat /\ square >= sc /\ square > 0
  BY <1>1, MulPos, MulNat
<1>3. cube \in Nat /\ cube >= square
  BY <1>1, <1>2, MulPos, MulNat
<1>4. fourth = cube * sc /\ fourth \in Nat /\ fourth >= cube
  <2>1. ASSUME NEW a \in Nat PROVE (a * a) * (a * a) = ((a * a) * a) * a
    OBVIOUS
  <2>2. cube * sc >= cube /\ cube * sc \in Nat
    BY <1>1, <1>2, <1>3, MulPos, MulNat
  <2> QED
    BY <1>1, <2>1, <2>2
<1>5. sc * fourth \in Nat /\ sc * fourth >= fourth /\ sc * fourth = fourth * sc
  BY <1>1, <1>2, <1>3, <1>4, MulPos, MulNat
<1>6. /\ RescaleFactor(0) = 1 /\ RescaleFactor(1) = sc /\ RescaleFactor(2) = square
      /\ RescaleFactor(3) = cube /\ RescaleFactor(4) = fourth
  BY DEF RescaleFactor, sc
<1>7. (sc * fourth) * sc >= sc * fourth /\ (sc * fourth) * sc \in Nat
  BY <1>1, <1>2, <1>3, <1>4, <1>5, MulPos, MulNat
<1>8. /\ Fallen(0) = 1 /\ Fallen(1) = sc /\ Fallen(2) = square
      /\ Fallen(3) = cube /\ Fallen(4) = fourth
  BY <1>6 DEF Fallen
<1>9. ASSUME NEW e \in Nat, e >= 5 PROVE Fallen(e) = sc * fourth
  BY <1>6, <1>9 DEF Fallen, sc
<1>10. 1 * sc = sc /\ sc * sc = square /\ square * sc = cube
  BY <1>1
<1> HIDE DEF square, cube, fourth
<1>11. sc = P_SCALE
  BY DEF sc
<1>12. CASE d >= 5
  BY <1>12, <1>9, <1>8, <1>7, <1>5, <1>6, <1>1, <1>2, <1>3, <1>4, <1>11
<1>13. CASE d < 5
  <2>1. d = 0 \/ d = 1 \/ d = 2 \/ d = 3 \/ d = 4
    BY <1>13
  <2>2. Fallen(5) = sc * fourth
    BY <1>9
  <2>3. CASE d = 0
    BY <2>3, <1>1, <1>2, <1>3, <1>4, <1>5, <1>6, <1>8, <1>10, <1>11
  <2>4. CASE d = 1
    BY <2>4, <1>1, <1>2, <1>3, <1>4, <1>5, <1>6, <1>8, <1>10, <1>11
  <2>5. CASE d = 2
    BY <2>5, <1>1, <1>2, <1>3, <1>4, <1>5, <1>6, <1>8, <1>10, <1>11
  <2>6. CASE d = 3
    BY <2>6, <1>1, <1>2, <1>3, <1>4, <1>5, <1>6, <1>8, <1>10, <1>11
  <2>7. CASE d = 4
    BY <2>7, <2>2, <1>1, <1>2, <1>3, <1>4, <1>5, <1>6, <1>8, <1>10, <1>11
  <2> QED
    BY <2>1, <2>3, <2>4, <2>5, <2>6, <2>7
<1> QED
  BY <1>12, <1>13

\* A fold that leaves a slot less than its bound, because it rounds all of an
\* old slot's lots away, assigns it more than it forgets.
LEMMA FoldForgets ==
  ASSUME NEW pl \in PoolType, pl.p \in P_FLOOR .. P_ONE, NEW v \in SlotType,
         NEW n \in Nat, n > 0, NEW w \in Int, NEW k \in Nat, k > 0,
         ShareBound(pl, v, n, w, k)
  PROVE  (w - n * FoldedOpen(pl, v)) * RescaleFactor(4)
           <= n * (v.open - FoldedOpen(pl, v))
<1> USE ProductConstants
<1> DEFINE o == v.open
           F == FoldedOpen(pl, v)
           big == RescaleFactor(4)
           d == Behind(pl, v)
<1>0. SUFFICES (w - n * F) * big <= n * (o - F)
  OBVIOUS
<1>1. /\ F \in 0 .. o /\ o \in Nat /\ F \in Nat
      /\ pl.p \in Nat /\ v.p \in Nat /\ v.p > 0 /\ d \in Nat
  <2>1. /\ v.open \in Nat /\ v.p \in Nat /\ v.scale \in Nat
        /\ pl.scale \in Nat /\ pl.p \in Nat
    BY DEF SlotType, PoolType
  <2>2. F \in 0 .. o
    BY <2>1, FoldedOpenBounds
  <2>3. v.p > 0
    BY <2>1 DEF ShareBound
  <2> QED
    BY <2>1, <2>2, <2>3 DEF Behind
<1>2. big \in Nat /\ big > 0
  BY RescaleFactorPositive
<1>3. ASSUME w <= n * F PROVE (w - n * F) * big <= n * (o - F)
  <2>1. n * F \in Nat /\ o - F \in Nat /\ n * (o - F) \in Nat
    BY <1>1, MulNat
  <2>2. w - n * F \in Int /\ w - n * F <= 0
    BY <1>3, <2>1
  <2>3. (w - n * F) * big <= 0 * big
    BY <1>2, <2>2, MulMonoInt
  <2> HIDE DEF F, o, big
  <2> QED
    BY <1>2, <2>1, <2>2, <2>3
<1>4. CASE SnapshotCurrent(pl, v) \/ o = 0
  <2>1. F = o
    BY <1>4 DEF FoldedOpen
  <2> QED
    BY <1>3, <2>1 DEF ShareBound
<1>5. CASE w <= 0
  <2>1. n * F \in Nat
    BY <1>1, MulNat
  <2> HIDE DEF F
  <2> QED
    BY <1>3, <1>5, <2>1
<1>6. CASE ~(SnapshotCurrent(pl, v) \/ o = 0) /\ w > 0
  <2>1. /\ v.epoch = pl.epoch /\ Fallen(d) <= k
        /\ w * (v.p * k) <= (n * o) * pl.p
    BY <1>6 DEF ShareBound
  <2>2. F = Unassigned(pl, v)
    BY <1>6 DEF FoldedOpen
  <2>3. w \in Nat /\ v.p * k \in Nat /\ n * o \in Nat /\ Fallen(d) \in Nat /\ Fallen(d) > 0
    BY <1>1, <1>6, MulNat, FallenFacts
  <2>4. CASE d >= 5
    <3> DEFINE sc == P_SCALE
               fl == P_FLOOR
    <3>1. F = 0
      BY <2>2, <2>4 DEF Unassigned, Behind
    <3>2. sc * big <= k /\ sc * big \in Nat /\ sc \in Nat /\ sc > 0 /\ fl \in Nat /\ fl > 0
      <4>1. sc \in Nat /\ sc > 0 /\ fl \in Nat /\ fl > 0
        OBVIOUS
      <4>2. Fallen(d) = sc * big
        BY <1>1, <2>4 DEF Fallen
      <4>3. sc * big \in Nat
        BY <4>1, <1>2, MulNat
      <4> HIDE DEF sc, big, fl, d
      <4> QED
        BY <4>1, <4>2, <4>3, <2>1
    <3>3. fl * (sc * big) <= v.p * k
      <4>1. fl <= v.p
        BY DEF ShareBound
      <4>2. (sc * big) * fl <= k * fl
        BY <3>2, MulMono
      <4>3. fl * k <= v.p * k
        BY <3>2, <4>1, <1>1, MulMono
      <4>4. (sc * big) * fl = fl * (sc * big) /\ k * fl = fl * k /\ k * fl \in Nat
        BY <3>2
      <4>5. v.p * k \in Nat /\ fl * (sc * big) \in Nat
        BY <2>3, <3>2, MulNat
      <4> HIDE DEF fl, sc, big
      <4> QED
        BY <4>2, <4>3, <4>4, <4>5
    <3>4. (fl * (sc * big)) * w <= (v.p * k) * w
      BY <3>2, <3>3, <2>3, MulNat, MulMono
    <3>5. (n * o) * pl.p <= (n * o) * (fl * sc)
      <4>1. pl.p <= fl * sc /\ fl * sc \in Nat
        BY <3>2
      <4>2. pl.p * (n * o) <= (fl * sc) * (n * o)
        BY <4>1, <2>3, <1>1, MulMono
      <4>3. fl * sc \in Nat /\ pl.p \in Nat /\ n * o \in Nat
        BY <4>1, <1>1, <2>3
      <4>4. ASSUME NEW a \in Nat, NEW b \in Nat PROVE a * b = b * a
        OBVIOUS
      <4> QED
        BY <4>2, <4>3, <4>4
    <3>6. (w * big) * (fl * sc) <= (n * o) * (fl * sc)
      <4>1. ASSUME NEW a \in Nat, NEW b \in Nat, NEW c \in Nat, NEW e \in Nat
            PROVE  (a * (b * c)) * e = (e * c) * (a * b)
        OBVIOUS
      <4>2. (fl * (sc * big)) * w = (w * big) * (fl * sc)
        BY <4>1, <3>2, <2>3, <1>2
      <4>3. (v.p * k) * w = w * (v.p * k)
        BY <2>3
      <4>4. /\ (w * big) * (fl * sc) \in Int /\ w * (v.p * k) \in Int
            /\ (n * o) * pl.p \in Int /\ (n * o) * (fl * sc) \in Int
        BY <1>1, <1>2, <2>3, <3>2, MulNat
      <4> HIDE DEF fl, sc, big, o, d
      <4> QED
        BY <2>1, <3>4, <3>5, <4>2, <4>3, <4>4
    <3>7. w * big <= n * o
      <4>1. fl * sc \in Nat /\ fl * sc > 0
        BY <3>2, MulPos, MulNat
      <4>2. w * big \in Int /\ n * o \in Int
        BY <1>2, <2>3
      <4> HIDE DEF fl, sc, big, o
      <4> QED
        BY <3>6, <4>1, <4>2, MulCancelInt
    <3> HIDE DEF F, big, o
    <3> QED
      BY <3>1, <3>7, <1>1, <1>2, <2>3
  <2>5. CASE d < 5
    <3> DEFINE step == CeilDiv(o * pl.p, v.p)
               rf == RescaleFactor(d)
               c == CeilDiv(step, rf)
    <3>1. rf \in Nat /\ rf > 0 /\ rf <= k
      BY <1>1, <2>1, <2>5, RescaleFactorPositive DEF Fallen
    <3>2. F = LesserOf(o, c)
      BY <1>1, <2>1, <2>2, <2>5 DEF Unassigned, Behind
    <3>3. o * pl.p \in Nat /\ step \in Nat /\ o * pl.p <= step * v.p
      BY <1>1, MulNat, CeilDivBounds
    <3>4. c \in Nat /\ step <= c * rf
      BY <3>1, <3>3, CeilDivBounds
    <3>5. CASE F = o
      BY <1>3, <3>5 DEF ShareBound
    <3>6. CASE F = c
      <4>1. o * pl.p <= (c * rf) * v.p
        <5>1. step * v.p <= (c * rf) * v.p
          BY <1>1, <3>1, <3>3, <3>4, MulMono, MulNat
        <5>2. step * v.p \in Nat /\ (c * rf) * v.p \in Nat
          BY <1>1, <3>1, <3>3, <3>4, MulNat
        <5> HIDE DEF step, rf, c, o
        <5> QED
          BY <3>3, <5>1, <5>2
      <4>2. w * (v.p * rf) <= w * (v.p * k)
        <5>1. rf * v.p <= k * v.p /\ rf * v.p \in Nat /\ k * v.p \in Nat
          BY <1>1, <3>1, MulMono, MulNat
        <5>2. (rf * v.p) * w <= (k * v.p) * w
          BY <5>1, <2>3, MulMono
        <5>3. ASSUME NEW a \in Nat, NEW b \in Nat, NEW e \in Nat
              PROVE  (a * b) * e = e * (b * a)
          OBVIOUS
        <5> HIDE DEF rf
        <5> QED
          BY <5>2, <5>3, <1>1, <2>3, <3>1
      <4>3. (n * o) * pl.p <= (n * c) * (v.p * rf)
        <5>1. (o * pl.p) * n <= ((c * rf) * v.p) * n
          BY <4>1, <1>1, <3>1, <3>3, <3>4, MulMono, MulNat
        <5>2. ASSUME NEW a \in Nat, NEW b \in Nat, NEW e \in Nat
              PROVE  (a * b) * e = (e * a) * b
          OBVIOUS
        <5>3. ASSUME NEW a \in Nat, NEW b \in Nat, NEW e \in Nat, NEW i \in Nat
              PROVE  ((a * b) * e) * i = (i * a) * (e * b)
          OBVIOUS
        <5>4. (o * pl.p) * n = (n * o) * pl.p
          BY <5>2, <1>1
        <5>5. ((c * rf) * v.p) * n = (n * c) * (v.p * rf)
          BY <5>3, <1>1, <3>1, <3>4
        <5> HIDE DEF rf, c, o
        <5> QED
          BY <5>1, <5>4, <5>5
      <4>4. w * (v.p * rf) <= (n * c) * (v.p * rf)
        <5>1. /\ w * (v.p * rf) \in Int /\ w * (v.p * k) \in Int
              /\ (n * o) * pl.p \in Int /\ (n * c) * (v.p * rf) \in Int
          BY <1>1, <2>3, <3>1, <3>4, MulNat
        <5> HIDE DEF rf, c, o, d
        <5> QED
          BY <2>1, <4>2, <4>3, <5>1
      <4>5. v.p * rf \in Nat /\ v.p * rf > 0 /\ n * c \in Int
        BY <1>1, <3>1, <3>4, MulPos, MulNat
      <4>6. w <= n * c
        <5> HIDE DEF rf, c
        <5> QED
          BY <4>4, <4>5, MulCancelInt
      <4> QED
        BY <1>3, <3>6, <4>6
    <3>7. F = o \/ F = c
      BY <3>2 DEF LesserOf
    <3> QED
      BY <3>5, <3>6, <3>7
  <2> QED
    BY <1>1, <2>4, <2>5
<1> QED
  BY <1>4, <1>5, <1>6

\* Slot a becomes b: it is folded, and d of its open lots come or go.
FoldedWith(pl, a, b, d) ==
  /\ b.p = pl.p /\ b.scale = pl.scale /\ b.epoch = pl.epoch
  /\ b.open = FoldedOpen(pl, a) + d
  /\ b.assigned = a.assigned + (a.open - FoldedOpen(pl, a))

\* The bound of a slot that is folded: the old one, unless rounding left less.
FoldedShare(pl, a, n, w, d) == LesserOf(w, n * FoldedOpen(pl, a)) + n * d

\* What has been assigned to a slot up to now, folded or not.
Charged(pl, v) == v.assigned + v.open - FoldedOpen(pl, v)

\* A slot just folded has its bound again, and what the bound lost the slot
\* was assigned.
LEMMA FoldBounds ==
  ASSUME NEW pl \in PoolType, pl.p \in P_FLOOR .. P_ONE,
         NEW a \in SlotType, NEW b \in SlotType, NEW d \in Int,
         FoldedWith(pl, a, b, d),
         NEW n \in Nat, n > 0, NEW w \in Int, NEW k \in Nat, k > 0,
         ShareBound(pl, a, n, w, k)
  PROVE  /\ FoldedShare(pl, a, n, w, d) \in Int
         /\ ShareBound(pl, b, n, FoldedShare(pl, a, n, w, d), 1)
         /\ (w + n * d - FoldedShare(pl, a, n, w, d)) * RescaleFactor(4)
              <= n * (b.assigned - a.assigned)
<1> USE ProductConstants
<1> DEFINE F == FoldedOpen(pl, a)
           x == FoldedShare(pl, a, n, w, d)
           big == RescaleFactor(4)
<1>1. F \in Nat /\ a.open \in Nat /\ a.assigned \in Nat /\ F <= a.open
  <2>1. /\ a.open \in Nat /\ a.p \in Nat /\ a.scale \in Nat /\ a.assigned \in Nat
    BY DEF SlotType
  <2>2. F \in 0 .. a.open
    BY <2>1, FoldedOpenBounds
  <2> HIDE DEF F
  <2> QED
    BY <2>1, <2>2
<1>2. big \in Nat /\ big > 0
  BY RescaleFactorPositive
<1>3. n * F \in Nat /\ n * d \in Int
  <2> HIDE DEF F
  <2> QED
    BY <1>1, MulNat
<1>4. x = LesserOf(w, n * F) + n * d /\ LesserOf(w, n * F) \in Int
  <2> HIDE DEF F
  <2>1. LesserOf(w, n * F) \in Int
    BY <1>3 DEF LesserOf
  <2> QED
    BY <2>1 DEF FoldedShare, F
<1>5. x \in Int
  <2> HIDE DEF F, x
  <2> QED
    BY <1>3, <1>4
<1>6. x <= n * b.open /\ n * b.open = n * F + n * d /\ b.open \in Nat
  <2>1. b.open = F + d /\ b.open \in Nat
    BY DEF FoldedWith, SlotType
  <2>2. n * (F + d) = n * F + n * d
    <3> HIDE DEF F
    <3> QED
      BY <1>1
  <2>3. LesserOf(w, n * F) <= n * F
    <3> HIDE DEF F
    <3> QED
      BY <1>3 DEF LesserOf
  <2> HIDE DEF F, x
  <2> QED
    BY <1>3, <1>4, <2>1, <2>2, <2>3
<1>7. ShareBound(pl, b, n, x, 1)
  <2>1. b.p = pl.p /\ b.p \in P_FLOOR .. P_ONE /\ b.epoch = pl.epoch /\ b.p \in Nat
    BY DEF FoldedWith, PoolType
  <2>2. Behind(pl, b) = 0
    BY DEF FoldedWith, Behind, PoolType
  <2>3. Fallen(Behind(pl, b)) = 1
    BY <2>2 DEF Fallen, RescaleFactor
  <2>4. x * b.p <= (n * b.open) * b.p
    <3>1. n * b.open \in Int
      BY <1>3, <1>6
    <3> HIDE DEF x
    <3> QED
      BY <1>5, <1>6, <2>1, <3>1, MulMonoInt
  <2>5. b.p * 1 = b.p
    BY <2>1
  <2> HIDE DEF x
  <2> QED
    BY <1>6, <2>1, <2>3, <2>4, <2>5 DEF ShareBound
<1>8. (w + n * d - x) * big <= n * (b.assigned - a.assigned)
  <2>1. b.assigned - a.assigned = a.open - F
    <3>1. b.assigned = a.assigned + (a.open - F)
      BY DEF FoldedWith
    <3> HIDE DEF F
    <3> QED
      BY <1>1, <3>1
  <2>2. (w - n * F) * big <= n * (a.open - F)
    BY FoldForgets
  <2>3. a.open - F \in Nat /\ n * (a.open - F) \in Nat
    <3> HIDE DEF F
    <3> QED
      BY <1>1, MulNat
  <2> HIDE DEF F, x, big
  <2>4. CASE w <= n * F
    <3>1. w + n * d - x = 0
      BY <1>3, <1>4, <2>4 DEF LesserOf
    <3> QED
      BY <1>2, <2>1, <2>3, <3>1
  <2>5. CASE ~(w <= n * F)
    <3>1. w + n * d - x = w - n * F
      BY <1>3, <1>4, <2>5 DEF LesserOf
    <3> QED
      BY <2>1, <2>2, <3>1
  <2> QED
    BY <2>4, <2>5
<1> QED
  BY <1>5, <1>7, <1>8

\* One rescale more moves the u8 difference of the scales by one, or from its
\* last value to zero.
LEMMA BehindStep ==
  ASSUME NEW x \in 0 .. ScaleMod - 1, NEW y \in 0 .. ScaleMod - 1
  PROVE  \/ /\ (((x + 1) % ScaleMod) - y) % ScaleMod = 0
            /\ (x - y) % ScaleMod = ScaleMod - 1
         \/ (((x + 1) % ScaleMod) - y) % ScaleMod = ((x - y) % ScaleMod) + 1
<1> USE ProductConstants
<1> DEFINE M == ScaleMod
<1>0. M \in Nat /\ M > 0
  OBVIOUS
<1> HIDE DEF M
<1>1. ASSUME NEW i \in 0 .. M - 1 PROVE i % M = i
  BY <1>0
<1>2. ASSUME NEW i \in Int, i < 0, i + M > 0 PROVE i % M = i + M
  <2>1. ASSUME NEW j \in 0 .. M - 1 PROVE (j - M) % M = j
    BY <1>0
  <2>2. i + M \in 0 .. M - 1 /\ (i + M) - M = i
    BY <1>0, <1>2
  <2> QED
    BY <2>1, <2>2
<1>3. CASE x + 1 < M
  <2>1. (x + 1) % M = x + 1
    BY <1>0, <1>1, <1>3 DEF M
  <2>2. CASE y <= x
    <3>1. (x - y) % M = x - y
      BY <1>0, <1>1, <2>2 DEF M
    <3>2. (x + 1 - y) % M = x + 1 - y
      BY <1>0, <1>1, <1>3, <2>2 DEF M
    <3> QED
      BY <2>1, <3>1, <3>2 DEF M
  <2>3. CASE y = x + 1
    <3>1. x - y = -1 /\ -1 + M > 0
      BY <1>3, <2>3 DEF M
    <3>2. (x - y) % M = M - 1
      BY <1>0, <1>2, <3>1
    <3>3. (x + 1 - y) % M = 0
      BY <1>0, <1>1, <2>3
    <3> QED
      BY <2>1, <3>2, <3>3 DEF M
  <2>4. CASE y > x + 1
    <3>1. (x - y) % M = x - y + M
      BY <1>0, <1>2, <2>4 DEF M
    <3>2. (x + 1 - y) % M = x + 1 - y + M
      BY <1>0, <1>2, <1>3, <2>4 DEF M
    <3> QED
      BY <2>1, <3>1, <3>2 DEF M
  <2> QED
    BY <2>2, <2>3, <2>4 DEF M
<1>4. CASE x + 1 = M
  <2>1. (x + 1) % M = 0
    BY <1>0, <1>4
  <2>2. CASE y = 0
    <3>1. (x - y) % M = M - 1 /\ (0 - y) % M = 0
      BY <1>0, <1>1, <1>4, <2>2
    <3> QED
      BY <2>1, <3>1 DEF M
  <2>3. CASE y > 0
    <3>1. (x - y) % M = x - y
      BY <1>0, <1>1, <1>4, <2>3 DEF M
    <3>2. (0 - y) % M = M - y
      BY <1>0, <1>2, <2>3 DEF M
    <3> QED
      BY <1>4, <2>1, <3>1, <3>2 DEF M
  <2> QED
    BY <2>2, <2>3 DEF M
<1> QED
  BY <1>3, <1>4 DEF M

\* What an exercise of a part of the pool makes of the product: the exact part,
\* rounded up, and rescaled when it fell below P_FLOOR.
LEMMA ExerciseProduct ==
  ASSUME NEW pl \in PoolType, pl.p \in P_FLOOR .. P_ONE,
         NEW q \in Nat, q > 0, q < pl.u
  PROVE  LET r == ApplyExercise(pl, q)
             raw == NextProduct(pl, q)
         IN  /\ r.epoch = pl.epoch
             /\ raw \in Nat /\ pl.p * (pl.u - q) <= raw * pl.u
             /\ raw < P_FLOOR => /\ r.p = raw * P_SCALE
                                 /\ r.scale = (pl.scale + 1) % ScaleMod
             /\ ~(raw < P_FLOOR) => r.p = raw /\ r.scale = pl.scale
<1> USE ProductConstants
<1> DEFINE raw == NextProduct(pl, q)
           r == Rescale(pl, q)
<1>1. /\ pl.p \in Nat /\ pl.p > 0 /\ pl.u \in Nat /\ pl.u > 0
      /\ pl.u - q \in Nat /\ pl.u - q > 0
  BY DEF PoolType
<1>2. raw \in 1 .. pl.p
  BY <1>1, NextProductBounds
<1>3. pl.p * (pl.u - q) \in Nat /\ pl.p * (pl.u - q) <= raw * pl.u
  BY <1>1, MulNat, CeilDivBounds DEF NextProduct
<1>4. /\ r.epoch = pl.epoch
      /\ raw < P_FLOOR => r.p = raw * P_SCALE /\ r.scale = (pl.scale + 1) % ScaleMod
      /\ ~(raw < P_FLOOR) => r.p = raw /\ r.scale = pl.scale
  BY DEF Rescale
<1>5. raw * P_SCALE >= P_SCALE
  BY <1>1, <1>2, MulPos
<1>6. r.p # 0
  <2> HIDE DEF raw, r
  <2> QED
    BY <1>1, <1>2, <1>4, <1>5
<1>7. ApplyExercise(pl, q) = r
  BY <1>1, <1>6 DEF ApplyExercise
<1> HIDE DEF raw, r
<1>8. raw \in Nat
  BY <1>1, <1>2
<1> QED
  BY <1>3, <1>4, <1>7, <1>8 DEF raw

\* How far the product has fallen once q lots are exercised.
FellTo(pl, q, k) == IF NextProduct(pl, q) < P_FLOOR THEN k * P_SCALE ELSE k

\* An exercise leaves each slot its exact part of what it had: the bound of
\* each slot is scaled by the pool's part that is left.
LEMMA ExerciseBounds ==
  ASSUME NEW pl \in PoolType, pl.p \in P_FLOOR .. P_ONE,
         NEW q \in Nat, q > 0, q < pl.u,
         NEW v \in SlotType,
         NEW n \in Nat, n > 0, NEW w \in Int, NEW k \in Nat, k > 0,
         ShareBound(pl, v, n, w, k)
  PROVE  /\ FellTo(pl, q, k) \in Nat /\ FellTo(pl, q, k) > 0
         /\ ShareBound(ApplyExercise(pl, q), v, n * pl.u, w * (pl.u - q), FellTo(pl, q, k))
<1> USE ProductConstants
<1> DEFINE r == ApplyExercise(pl, q)
           raw == NextProduct(pl, q)
           m == pl.u - q
           u == pl.u
           o == v.open
           j == FellTo(pl, q, k)
           sc == P_SCALE
<1>1. /\ u \in Nat /\ u > 0 /\ m \in Nat /\ m > 0 /\ m < u
      /\ o \in Nat /\ v.p \in Nat /\ v.p > 0 /\ pl.p \in Nat /\ pl.p > 0
      /\ sc \in Nat /\ sc > 0
      /\ pl.scale \in 0 .. ScaleMod - 1 /\ v.scale \in 0 .. ScaleMod - 1
  BY DEF PoolType, SlotType, ShareBound
<1>2. /\ r.epoch = pl.epoch
      /\ raw \in Nat /\ pl.p * m <= raw * u
      /\ raw < P_FLOOR => r.p = raw * sc /\ r.scale = (pl.scale + 1) % ScaleMod
      /\ ~(raw < P_FLOOR) => r.p = raw /\ r.scale = pl.scale
  <2> HIDE DEF m, u
  <2> QED
    BY ExerciseProduct DEF m, u
<1>3. /\ raw < P_FLOOR => j = k * sc
      /\ ~(raw < P_FLOOR) => j = k
  BY DEF FellTo
<1> HIDE DEF r, raw, m, u, o, j, sc
<1>4. j \in Nat /\ j > 0
  <2>1. k * sc \in Nat /\ k * sc > 0
    BY <1>1, MulPos, MulNat
  <2> QED
    BY <1>3, <2>1
<1>5. w * m <= (n * u) * o
  <2>1. w <= n * o /\ n * o \in Nat
    BY <1>1, MulNat DEF ShareBound, o
  <2>2. w * m <= (n * o) * m
    BY <1>1, <2>1, MulMonoInt
  <2>3. m * (n * o) <= u * (n * o)
    BY <1>1, <2>1, MulMono
  <2>4. (n * o) * m = m * (n * o) /\ u * (n * o) = (n * u) * o
    BY <1>1
  <2>5. w * m \in Int /\ m * (n * o) \in Int /\ u * (n * o) \in Int
    BY <1>1, <2>1
  <2> QED
    BY <2>2, <2>3, <2>4, <2>5
<1>6. ASSUME v.epoch # r.epoch PROVE w * m <= 0
  <2>1. w <= 0
    BY <1>2, <1>6 DEF ShareBound
  <2>2. w * m <= 0 * m
    BY <1>1, <2>1, MulMonoInt
  <2> QED
    BY <1>1, <2>2
<1>7. ASSUME v.epoch = r.epoch
      PROVE  Fallen(Behind(r, v)) <= j /\ (w * m) * (v.p * j) <= ((n * u) * o) * r.p
  <2>1. Fallen(Behind(pl, v)) <= k /\ w * (v.p * k) <= (n * o) * pl.p
    BY <1>2, <1>7 DEF ShareBound, o
  <2>2. Behind(pl, v) \in Nat
    BY <1>1 DEF Behind
  <2>3. (w * m) * (v.p * k) <= ((n * u) * o) * raw
    <3>1. (w * (v.p * k)) * m <= ((n * o) * pl.p) * m
      <4>1. w * (v.p * k) \in Int /\ (n * o) * pl.p \in Int
        BY <1>1
      <4> QED
        BY <1>1, <2>1, <4>1, MulMonoInt
    <3>2. (pl.p * m) * (n * o) <= (raw * u) * (n * o)
      BY <1>1, <1>2, MulMono, MulNat
    <3>3. ASSUME NEW a \in Int, NEW b \in Int, NEW c \in Int
          PROVE  (a * b) * c = (a * c) * b
      OBVIOUS
    <3>4. ASSUME NEW a \in Int, NEW b \in Int, NEW c \in Int, NEW e \in Int
          PROVE  /\ ((a * b) * c) * e = (c * e) * (a * b)
                 /\ (a * b) * (c * e) = ((c * b) * e) * a
      OBVIOUS
    <3>5. (w * (v.p * k)) * m = (w * m) * (v.p * k)
      <4>1. v.p * k \in Int
        BY <1>1
      <4> QED
        BY <1>1, <3>3, <4>1
    <3>6. ((n * o) * pl.p) * m = (pl.p * m) * (n * o)
      BY <1>1, <3>4
    <3>7. (raw * u) * (n * o) = ((n * u) * o) * raw
      BY <1>1, <1>2, <3>4
    <3>8. /\ (w * m) * (v.p * k) \in Int
          /\ (pl.p * m) * (n * o) \in Int /\ ((n * u) * o) * raw \in Int
      BY <1>1, <1>2
    <3> QED
      BY <3>1, <3>2, <3>5, <3>6, <3>7, <3>8
  <2>4. CASE ~(raw < P_FLOOR)
    <3>1. Behind(r, v) = Behind(pl, v)
      BY <1>2, <2>4 DEF Behind
    <3> QED
      BY <1>2, <1>3, <2>1, <2>3, <2>4, <3>1
  <2>5. CASE raw < P_FLOOR
    <3>1. Behind(r, v) = 0 \/ Behind(r, v) = Behind(pl, v) + 1
      BY <1>1, <1>2, <2>5, BehindStep DEF Behind
    <3>2. Fallen(Behind(r, v)) <= Fallen(Behind(pl, v)) * sc
      BY <2>2, <3>1, FallenFacts DEF sc
    <3>3. Fallen(Behind(pl, v)) * sc <= k * sc /\ k * sc \in Nat
      BY <1>1, <2>1, <2>2, FallenFacts, MulMono, MulNat
    <3>4. Fallen(Behind(r, v)) <= j
      <4>1. Behind(r, v) \in Nat
        BY <2>2, <3>1
      <4>2. /\ Fallen(Behind(r, v)) \in Nat /\ Fallen(Behind(pl, v)) \in Nat
            /\ Fallen(Behind(pl, v)) * sc \in Nat
        BY <1>1, <2>2, <4>1, FallenFacts, MulNat
      <4> QED
        BY <1>3, <2>5, <3>2, <3>3, <4>2
    <3>5. ((w * m) * (v.p * k)) * sc <= (((n * u) * o) * raw) * sc
      <4>1. (w * m) * (v.p * k) \in Int /\ ((n * u) * o) * raw \in Int
        BY <1>1, <1>2
      <4> QED
        BY <1>1, <2>3, <4>1, MulMonoInt
    <3>6. ASSUME NEW a \in Int, NEW b \in Int, NEW c \in Int, NEW e \in Int
          PROVE  /\ (a * (b * c)) * e = a * (b * (c * e))
                 /\ (a * b) * c = a * (b * c)
      OBVIOUS
    <3>7. ((w * m) * (v.p * k)) * sc = (w * m) * (v.p * (k * sc))
      <4>1. w * m \in Int
        BY <1>1
      <4> QED
        BY <1>1, <3>6, <4>1
    <3>8. (((n * u) * o) * raw) * sc = ((n * u) * o) * (raw * sc)
      <4>1. (n * u) * o \in Int
        BY <1>1
      <4> QED
        BY <1>1, <1>2, <3>6, <4>1
    <3> QED
      BY <1>2, <1>3, <2>5, <3>4, <3>5, <3>7, <3>8
  <2> QED
    BY <2>4, <2>5
<1>8. ShareBound(r, v, n * u, w * m, j)
  BY <1>5, <1>6, <1>7 DEF ShareBound, o
<1> QED
  BY <1>4, <1>8 DEF r, u, m, j

\* A pool just consumed leaves nothing of any slot's lots.
LEMMA ConsumedBounds ==
  ASSUME NEW r \in PoolType, NEW v \in SlotType, v.p \in P_FLOOR .. P_ONE
  PROVE  /\ P_SCALE * RescaleFactor(4) \in Nat /\ P_SCALE * RescaleFactor(4) > 0
         /\ ShareBound(r, v, 1, 0, P_SCALE * RescaleFactor(4))
<1> USE ProductConstants
<1> DEFINE k == P_SCALE * RescaleFactor(4)
<1>1. RescaleFactor(4) \in Nat /\ RescaleFactor(4) > 0
  BY RescaleFactorPositive
<1>2. k \in Nat /\ k > 0
  BY <1>1, MulPos, MulNat
<1>3. Fallen(Behind(r, v)) <= k
  <2>1. Behind(r, v) \in Nat
    BY DEF Behind, PoolType, SlotType
  <2> QED
    BY <2>1, FallenFacts
<1>4. v.open \in Nat /\ r.p \in Nat /\ v.p \in Nat
  BY DEF PoolType, SlotType
<1> HIDE DEF k
<1>5. 0 * (v.p * k) <= (1 * v.open) * r.p
  BY <1>2, <1>4, MulNat
<1>6. ShareBound(r, v, 1, 0, k)
  BY <1>3, <1>4, <1>5 DEF ShareBound
<1> QED
  BY <1>2, <1>6 DEF k

\* The lots of the slots of a series, added up.
AssignedOf(sl) == [s \in Slots |-> sl[s].assigned]
SoldOf(sl) == [s \in Slots |-> sl[s].sold]
OpenOf(sl) == [s \in Slots |-> sl[s].open]
LeftOf(pl, sl) == [s \in Slots |-> FoldedOpen(pl, sl[s])]
ChargedOf(pl, sl) ==
  [s \in Slots |-> sl[s].assigned + sl[s].open - FoldedOpen(pl, sl[s])]

\* w / n bounds every slot, and what the bounds together fall short of the
\* pool's unassigned lots is a P_SCALE^4-th part, at most, of the lots that
\* folds have assigned.
SharesBound(pl, sl, n, w, k) ==
  /\ \A s \in Slots : ShareBound(pl, sl[s], n, w[s], k[s])
  /\ (n * pl.u - SumFunctionOnSet(w, Slots)) * RescaleFactor(4)
       <= n * SumFunctionOnSet(AssignedOf(sl), Slots)

HaveShares(pl, sl) ==
  \E n \in Nat \ {0}, w \in [Slots -> Int], k \in [Slots -> Nat \ {0}] :
    SharesBound(pl, sl, n, w, k)

\* The sums over the slots are of integers, and finite.
LEMMA SlotTerms ==
  ASSUME NEW pl \in PoolType, NEW sl \in [Slots -> SlotType]
  PROVE  /\ IsFiniteSet(Slots)
         /\ NatTerms(AssignedOf(sl), Slots) /\ IntTerms(AssignedOf(sl), Slots)
         /\ NatTerms(SoldOf(sl), Slots) /\ IntTerms(SoldOf(sl), Slots)
         /\ NatTerms(OpenOf(sl), Slots) /\ IntTerms(OpenOf(sl), Slots)
         /\ NatTerms(LeftOf(pl, sl), Slots) /\ IntTerms(LeftOf(pl, sl), Slots)
         /\ IntTerms(ChargedOf(pl, sl), Slots)
<1>1. ASSUME NEW s \in Slots
      PROVE  /\ sl[s].assigned \in Nat /\ sl[s].open \in Nat /\ sl[s].sold \in Nat
             /\ FoldedOpen(pl, sl[s]) \in Nat
             /\ sl[s].assigned + sl[s].open - FoldedOpen(pl, sl[s]) \in Int
  <2>1. sl[s] \in SlotType
    OBVIOUS
  <2>2. /\ sl[s].assigned \in Nat /\ sl[s].open \in Nat /\ sl[s].sold \in Nat
        /\ sl[s].p \in Nat /\ sl[s].scale \in Nat
    BY <2>1 DEF SlotType
  <2>3. FoldedOpen(pl, sl[s]) \in 0 .. sl[s].open
    BY <2>2, FoldedOpenBounds
  <2> QED
    BY <2>2, <2>3
<1> QED
  BY <1>1, LotsBelowScale
     DEF NatTerms, IntTerms, AssignedOf, SoldOf, OpenOf, LeftOf, ChargedOf

\* Folding any of the slots, while lots come to them or go, keeps the bounds.
LEMMA FoldsKeepShares ==
  ASSUME NEW pl \in PoolType, pl.p \in P_FLOOR .. P_ONE, NEW pm \in PoolType,
         pm.p = pl.p, pm.scale = pl.scale, pm.epoch = pl.epoch,
         NEW sl \in [Slots -> SlotType], NEW sm \in [Slots -> SlotType],
         NEW d \in [Slots -> Int], pm.u = pl.u + SumFunctionOnSet(d, Slots),
         \A s \in Slots : \/ FoldedWith(pl, sl[s], sm[s], d[s])
                          \/ sm[s] = sl[s] /\ d[s] = 0,
         HaveShares(pl, sl)
  PROVE  HaveShares(pm, sm)
<1>1. PICK n \in Nat \ {0}, w \in [Slots -> Int], k \in [Slots -> Nat \ {0}] :
        SharesBound(pl, sl, n, w, k)
  BY DEF HaveShares
<1> DEFINE Stays(s) == sm[s] = sl[s] /\ d[s] = 0
           x == [s \in Slots |-> IF Stays(s) THEN w[s]
                                 ELSE FoldedShare(pl, sl[s], n, w[s], d[s])]
           j == [s \in Slots |-> IF Stays(s) THEN k[s] ELSE 1]
           big == RescaleFactor(4)
           a == AssignedOf(sl)
           b == AssignedOf(sm)
<1>2. big \in Nat
  BY RescaleFactorPositive
<1>3. ASSUME NEW s \in Slots
      PROVE  /\ x[s] \in Int /\ j[s] \in Nat \ {0}
             /\ ShareBound(pm, sm[s], n, x[s], j[s])
             /\ (w[s] + n * d[s] - x[s]) * big <= n * (b[s] - a[s])
  <2>1. /\ ShareBound(pl, sl[s], n, w[s], k[s])
        /\ w[s] \in Int /\ d[s] \in Int /\ k[s] \in Nat /\ k[s] > 0
        /\ n \in Nat /\ n > 0 /\ sl[s] \in SlotType /\ sm[s] \in SlotType
    BY <1>1 DEF SharesBound
  <2>2. ASSUME NEW i, NEW e PROVE ShareBound(pm, sm[s], n, i, e) <=> ShareBound(pl, sm[s], n, i, e)
    BY DEF ShareBound, Behind
  <2>3. a[s] = sl[s].assigned /\ b[s] = sm[s].assigned
    BY DEF AssignedOf
  <2>4. CASE Stays(s)
    <3>1. x[s] = w[s] /\ j[s] = k[s]
      BY <2>4
    <3>2. (w[s] + n * d[s] - x[s]) * big = 0 /\ n * (b[s] - a[s]) = 0
      <4>1. n * d[s] = 0
        BY <2>1, <2>4
      <4>2. w[s] + n * d[s] - x[s] = 0
        BY <2>1, <3>1, <4>1
      <4>3. b[s] - a[s] = 0
        BY <2>1, <2>3, <2>4 DEF SlotType
      <4> HIDE DEF x, a, b, big
      <4> QED
        BY <1>2, <2>1, <4>2, <4>3
    <3> HIDE DEF x, j, a, b
    <3> QED
      BY <2>1, <2>2, <2>4, <3>1, <3>2
  <2>5. CASE ~Stays(s)
    <3>1. x[s] = FoldedShare(pl, sl[s], n, w[s], d[s]) /\ j[s] = 1
      BY <2>5
    <3>2. FoldedWith(pl, sl[s], sm[s], d[s])
      BY <2>5
    <3>3. /\ FoldedShare(pl, sl[s], n, w[s], d[s]) \in Int
          /\ ShareBound(pl, sm[s], n, FoldedShare(pl, sl[s], n, w[s], d[s]), 1)
          /\ (w[s] + n * d[s] - FoldedShare(pl, sl[s], n, w[s], d[s])) * big
               <= n * (sm[s].assigned - sl[s].assigned)
      BY <2>1, <3>2, FoldBounds
    <3> HIDE DEF x, j, a, b, big
    <3> QED
      BY <2>2, <2>3, <3>1, <3>3
  <2> QED
    BY <2>4, <2>5
<1> DEFINE gone == [s \in Slots |-> w[s] * 1 + d[s] * n]
           lost == [s \in Slots |-> gone[s] * 1 + x[s] * (0 - 1)]
           more == [s \in Slots |-> b[s] * 1 + a[s] * (0 - 1)]
           left == [s \in Slots |-> lost[s] * big + lost[s] * 0]
           right == [s \in Slots |-> more[s] * n + more[s] * 0]
           Sum(f) == SumFunctionOnSet(f, Slots)
<1>4. /\ IsFiniteSet(Slots) /\ IntTerms(a, Slots) /\ IntTerms(b, Slots)
      /\ IntTerms(w, Slots) /\ IntTerms(d, Slots) /\ IntTerms(x, Slots)
      /\ n \in Int /\ n \in Nat /\ n > 0 /\ big \in Int
  <2>1. x \in [Slots -> Int]
    BY <1>3
  <2> QED
    BY <1>2, <2>1, SlotTerms DEF IntTerms
<1> HIDE DEF x, j, a, b, big
<1>5. IntTerms(gone, Slots) /\ Sum(gone) = Sum(w) * 1 + Sum(d) * n
  <2>1. Combines(gone, w, d, 1, n, Slots)
    BY DEF Combines
  <2>2. /\ 1 \in Int /\ n \in Int /\ IsFiniteSet(Slots)
        /\ IntTerms(w, Slots) /\ IntTerms(d, Slots)
    BY <1>4
  <2> HIDE DEF gone, lost, more, left, right
  <2>3. IntTerms(gone, Slots) /\ SumsCombine(gone, w, d, 1, n, Slots)
    BY <2>1, <2>2, SumCombines, Zenon
  <2> QED
    BY <2>3, Zenon DEF SumsCombine
<1>6. IntTerms(lost, Slots) /\ Sum(lost) = Sum(gone) * 1 + Sum(x) * (0 - 1)
  <2>1. Combines(lost, gone, x, 1, (0 - 1), Slots)
    BY DEF Combines
  <2>2. /\ 1 \in Int /\ (0 - 1) \in Int /\ IsFiniteSet(Slots)
        /\ IntTerms(gone, Slots) /\ IntTerms(x, Slots)
    BY <1>4, <1>5
  <2> HIDE DEF gone, lost, more, left, right
  <2>3. IntTerms(lost, Slots) /\ SumsCombine(lost, gone, x, 1, (0 - 1), Slots)
    BY <2>1, <2>2, SumCombines, Zenon
  <2> QED
    BY <2>3, Zenon DEF SumsCombine
<1>7. IntTerms(more, Slots) /\ Sum(more) = Sum(b) * 1 + Sum(a) * (0 - 1)
  <2>1. Combines(more, b, a, 1, (0 - 1), Slots)
    BY DEF Combines
  <2>2. /\ 1 \in Int /\ (0 - 1) \in Int /\ IsFiniteSet(Slots)
        /\ IntTerms(b, Slots) /\ IntTerms(a, Slots)
    BY <1>4
  <2> HIDE DEF gone, lost, more, left, right
  <2>3. IntTerms(more, Slots) /\ SumsCombine(more, b, a, 1, (0 - 1), Slots)
    BY <2>1, <2>2, SumCombines, Zenon
  <2> QED
    BY <2>3, Zenon DEF SumsCombine
<1>8. IntTerms(left, Slots) /\ Sum(left) = Sum(lost) * big + Sum(lost) * 0
  <2>1. Combines(left, lost, lost, big, 0, Slots)
    BY DEF Combines
  <2>2. /\ big \in Int /\ 0 \in Int /\ IsFiniteSet(Slots)
        /\ IntTerms(lost, Slots) /\ IntTerms(lost, Slots)
    BY <1>4, <1>6
  <2> HIDE DEF gone, lost, more, left, right
  <2>3. IntTerms(left, Slots) /\ SumsCombine(left, lost, lost, big, 0, Slots)
    BY <2>1, <2>2, SumCombines, Zenon
  <2> QED
    BY <2>3, Zenon DEF SumsCombine
<1>9. IntTerms(right, Slots) /\ Sum(right) = Sum(more) * n + Sum(more) * 0
  <2>1. Combines(right, more, more, n, 0, Slots)
    BY DEF Combines
  <2>2. /\ n \in Int /\ 0 \in Int /\ IsFiniteSet(Slots)
        /\ IntTerms(more, Slots) /\ IntTerms(more, Slots)
    BY <1>4, <1>7
  <2> HIDE DEF gone, lost, more, left, right
  <2>3. IntTerms(right, Slots) /\ SumsCombine(right, more, more, n, 0, Slots)
    BY <2>1, <2>2, SumCombines, Zenon
  <2> QED
    BY <2>3, Zenon DEF SumsCombine
<1>10. ASSUME NEW s \in Slots PROVE left[s] <= right[s]
  <2>1. /\ w[s] \in Int /\ d[s] \in Int /\ x[s] \in Int /\ a[s] \in Int /\ b[s] \in Int
    BY <1>4 DEF IntTerms
  <2>2. lost[s] = w[s] + n * d[s] - x[s]
    BY <1>4, <2>1
  <2>3. more[s] = b[s] - a[s]
    BY <2>1
  <2>4. lost[s] \in Int /\ more[s] \in Int
    BY <1>6, <1>7 DEF IntTerms
  <2>5. left[s] = lost[s] * big + lost[s] * 0 /\ right[s] = more[s] * n + more[s] * 0
    OBVIOUS
  <2>6. (w[s] + n * d[s] - x[s]) * big <= n * (b[s] - a[s])
    BY <1>3
  <2> HIDE DEF lost, more, left, right
  <2>7. left[s] = lost[s] * big /\ right[s] = n * more[s]
    BY <1>4, <2>4, <2>5
  <2> QED
    BY <2>2, <2>3, <2>6, <2>7
<1>11. Sum(left) <= Sum(right)
  <2> HIDE DEF left, right
  <2> QED
    BY <1>4, <1>8, <1>9, <1>10, SumMonotone
<1>12. /\ Sum(w) \in Int /\ Sum(d) \in Int /\ Sum(x) \in Int
       /\ Sum(a) \in Int /\ Sum(b) \in Int
  BY <1>4, SumInt
<1>13. (n * pl.u - Sum(w)) * big <= n * Sum(a)
  BY <1>1 DEF SharesBound, a, big
<1> HIDE DEF gone, lost, more, left, right, Sum
<1>14. (n * pm.u - Sum(x)) * big <= n * Sum(b)
  <2>1. ASSUME NEW W \in Int, NEW P \in Int, NEW X \in Int, NEW A \in Int, NEW B \in Int,
               NEW c \in Int, NEW m \in Int, NEW u \in Int,
               ((W * 1 + P * m) * 1 + X * (0 - 1)) * c
                 <= (B * 1 + A * (0 - 1)) * m,
               (m * u - W) * c <= m * A
        PROVE  (m * (u + P) - X) * c <= m * B
    <3>1. (W * 1 + P * m) * 1 + X * (0 - 1) = W + m * P - X
      OBVIOUS
    <3>2. (B * 1 + A * (0 - 1)) * m = m * B - m * A
      OBVIOUS
    <3>3. m * (u + P) - X = (m * u - W) + (W + m * P - X)
      OBVIOUS
    <3>4. ASSUME NEW e \in Int, NEW f \in Int PROVE (e + f) * c = e * c + f * c
      OBVIOUS
    <3>5. (m * (u + P) - X) * c = (m * u - W) * c + (W + m * P - X) * c
      BY <3>3, <3>4
    <3>6. (m * u - W) * c \in Int /\ (W + m * P - X) * c \in Int /\ m * A \in Int /\ m * B \in Int
      OBVIOUS
    <3>7. (W + m * P - X) * c <= m * B - m * A
      BY <2>1, <3>1, <3>2
    <3> QED
      BY <2>1, <3>5, <3>6, <3>7
  <2>2. Sum(lost) * big <= Sum(more) * n
    <3>1. Sum(lost) \in Int /\ Sum(more) \in Int
      BY <1>4, <1>6, <1>7, SumInt DEF Sum
    <3> QED
      BY <1>4, <1>8, <1>9, <1>11, <3>1
  <2>3. ((Sum(w) * 1 + Sum(d) * n) * 1 + Sum(x) * (0 - 1)) * big
          <= (Sum(b) * 1 + Sum(a) * (0 - 1)) * n
    BY <1>5, <1>6, <1>7, <2>2
  <2>4. pm.u = pl.u + Sum(d) /\ pl.u \in Int
    BY DEF PoolType, Sum
  <2> QED
    BY <1>4, <1>12, <1>13, <2>1, <2>3, <2>4
<1>15. x \in [Slots -> Int] /\ j \in [Slots -> Nat \ {0}]
  BY <1>3 DEF x, j
<1>16. SharesBound(pm, sm, n, x, j)
  BY <1>3, <1>14 DEF SharesBound, Sum, b, big
<1> QED
  BY <1>15, <1>16 DEF HaveShares

\* Once the slots are bounded, what is charged to them now is at most what was
\* exercised: the lots left on them are at least the pool's.
LEMMA SharesForbidOver ==
  ASSUME NEW pl \in PoolType, pl.p \in P_FLOOR .. P_ONE,
         NEW sl \in [Slots -> SlotType], HaveShares(pl, sl),
         \A s \in Slots : sl[s].sold = sl[s].assigned + sl[s].open,
         NEW ex \in Nat, SumFunctionOnSet(SoldOf(sl), Slots) = ex + pl.u,
         ex + pl.u <= MaxSold
  PROVE  SumFunctionOnSet(ChargedOf(pl, sl), Slots) <= ex
<1>1. PICK n \in Nat \ {0}, w \in [Slots -> Int], k \in [Slots -> Nat \ {0}] :
        SharesBound(pl, sl, n, w, k)
  BY DEF HaveShares
<1> DEFINE big == RescaleFactor(4)
           a == AssignedOf(sl)
           o == OpenOf(sl)
           l == LeftOf(pl, sl)
           c == ChargedOf(pl, sl)
           t == SoldOf(sl)
           short == [s \in Slots |-> w[s] * 1 + l[s] * (0 - n)]
           folds == [s \in Slots |-> o[s] * 1 + l[s] * (0 - 1)]
           left == [s \in Slots |-> short[s] * big + short[s] * 0]
           right == [s \in Slots |-> folds[s] * n + folds[s] * 0]
           Sum(f) == SumFunctionOnSet(f, Slots)
<1>2. big \in Nat /\ big > 0 /\ MaxSold < big /\ MaxSold \in Nat
  BY RescaleFactorPositive, LotsBelowScale, PoolBounds
<1>3. /\ IsFiniteSet(Slots) /\ IntTerms(a, Slots) /\ IntTerms(o, Slots)
      /\ IntTerms(l, Slots) /\ NatTerms(l, Slots) /\ IntTerms(c, Slots)
      /\ IntTerms(t, Slots) /\ IntTerms(w, Slots)
      /\ n \in Int /\ n \in Nat /\ n > 0 /\ 0 - n \in Int /\ big \in Int
  BY <1>2, SlotTerms DEF IntTerms
<1>4. ASSUME NEW s \in Slots
      PROVE  /\ c[s] = a[s] * 1 + folds[s] * 1
             /\ t[s] = c[s] * 1 + l[s] * 1
             /\ (w[s] - n * l[s]) * big <= n * (o[s] - l[s])
  <2>1. /\ a[s] = sl[s].assigned /\ o[s] = sl[s].open /\ t[s] = sl[s].sold
        /\ l[s] = FoldedOpen(pl, sl[s])
        /\ c[s] = sl[s].assigned + sl[s].open - FoldedOpen(pl, sl[s])
    BY DEF AssignedOf, OpenOf, SoldOf, LeftOf, ChargedOf
  <2>2. a[s] \in Int /\ o[s] \in Int /\ t[s] \in Int /\ l[s] \in Int /\ c[s] \in Int
    BY <1>3 DEF IntTerms
  <2>3. /\ ShareBound(pl, sl[s], n, w[s], k[s]) /\ sl[s] \in SlotType
        /\ w[s] \in Int /\ k[s] \in Nat /\ k[s] > 0
    BY <1>1 DEF SharesBound
  <2>4. (w[s] - n * FoldedOpen(pl, sl[s])) * big
          <= n * (sl[s].open - FoldedOpen(pl, sl[s]))
    BY <1>3, <2>3, FoldForgets
  <2>5. folds[s] = o[s] * 1 + l[s] * (0 - 1)
    OBVIOUS
  <2>6. sl[s].sold = sl[s].assigned + sl[s].open
    OBVIOUS
  <2> HIDE DEF a, o, t, l, c, folds, big
  <2> QED
    BY <2>1, <2>2, <2>4, <2>5, <2>6
<1> HIDE DEF a, o, l, c, t, big
<1>5. IntTerms(short, Slots) /\ Sum(short) = Sum(w) * 1 + Sum(l) * (0 - n)
  <2>1. Combines(short, w, l, 1, (0 - n), Slots)
    BY DEF Combines
  <2>2. /\ 1 \in Int /\ (0 - n) \in Int /\ IsFiniteSet(Slots)
        /\ IntTerms(w, Slots) /\ IntTerms(l, Slots)
    BY <1>3
  <2> HIDE DEF short, folds, left, right
  <2>3. IntTerms(short, Slots) /\ SumsCombine(short, w, l, 1, (0 - n), Slots)
    BY <2>1, <2>2, SumCombines, Zenon
  <2> QED
    BY <2>3, Zenon DEF SumsCombine
<1>6. IntTerms(folds, Slots) /\ Sum(folds) = Sum(o) * 1 + Sum(l) * (0 - 1)
  <2>1. Combines(folds, o, l, 1, (0 - 1), Slots)
    BY DEF Combines
  <2>2. /\ 1 \in Int /\ (0 - 1) \in Int /\ IsFiniteSet(Slots)
        /\ IntTerms(o, Slots) /\ IntTerms(l, Slots)
    BY <1>3
  <2> HIDE DEF short, folds, left, right
  <2>3. IntTerms(folds, Slots) /\ SumsCombine(folds, o, l, 1, (0 - 1), Slots)
    BY <2>1, <2>2, SumCombines, Zenon
  <2> QED
    BY <2>3, Zenon DEF SumsCombine
<1>7. IntTerms(left, Slots) /\ Sum(left) = Sum(short) * big + Sum(short) * 0
  <2>1. Combines(left, short, short, big, 0, Slots)
    BY DEF Combines
  <2>2. /\ big \in Int /\ 0 \in Int /\ IsFiniteSet(Slots)
        /\ IntTerms(short, Slots) /\ IntTerms(short, Slots)
    BY <1>3, <1>5
  <2> HIDE DEF short, folds, left, right
  <2>3. IntTerms(left, Slots) /\ SumsCombine(left, short, short, big, 0, Slots)
    BY <2>1, <2>2, SumCombines, Zenon
  <2> QED
    BY <2>3, Zenon DEF SumsCombine
<1>8. IntTerms(right, Slots) /\ Sum(right) = Sum(folds) * n + Sum(folds) * 0
  <2>1. Combines(right, folds, folds, n, 0, Slots)
    BY DEF Combines
  <2>2. /\ n \in Int /\ 0 \in Int /\ IsFiniteSet(Slots)
        /\ IntTerms(folds, Slots) /\ IntTerms(folds, Slots)
    BY <1>3, <1>6
  <2> HIDE DEF short, folds, left, right
  <2>3. IntTerms(right, Slots) /\ SumsCombine(right, folds, folds, n, 0, Slots)
    BY <2>1, <2>2, SumCombines, Zenon
  <2> QED
    BY <2>3, Zenon DEF SumsCombine
<1>9. IntTerms(c, Slots) /\ Sum(c) = Sum(a) * 1 + Sum(folds) * 1
  <2>1. Combines(c, a, folds, 1, 1, Slots)
    BY <1>4 DEF Combines
  <2>2. /\ 1 \in Int /\ 1 \in Int /\ IsFiniteSet(Slots)
        /\ IntTerms(a, Slots) /\ IntTerms(folds, Slots)
    BY <1>3, <1>6
  <2> HIDE DEF folds
  <2>3. IntTerms(c, Slots) /\ SumsCombine(c, a, folds, 1, 1, Slots)
    BY <2>1, <2>2, SumCombines, Zenon
  <2> QED
    BY <2>3, Zenon DEF SumsCombine
<1>10. IntTerms(t, Slots) /\ Sum(t) = Sum(c) * 1 + Sum(l) * 1
  <2>1. Combines(t, c, l, 1, 1, Slots)
    BY <1>4 DEF Combines
  <2>2. /\ 1 \in Int /\ 1 \in Int /\ IsFiniteSet(Slots)
        /\ IntTerms(c, Slots) /\ IntTerms(l, Slots)
    BY <1>3
  <2> HIDE DEF short, folds, left, right
  <2>3. IntTerms(t, Slots) /\ SumsCombine(t, c, l, 1, 1, Slots)
    BY <2>1, <2>2, SumCombines, Zenon
  <2> QED
    BY <2>3, Zenon DEF SumsCombine
<1>11. ASSUME NEW s \in Slots PROVE left[s] <= right[s]
  <2>1. w[s] \in Int /\ o[s] \in Int /\ l[s] \in Int
    BY <1>3 DEF IntTerms
  <2>2. short[s] = w[s] - n * l[s] /\ short[s] \in Int
    BY <1>3, <2>1
  <2>3. folds[s] = o[s] - l[s] /\ folds[s] \in Int
    BY <2>1
  <2>4. left[s] = short[s] * big + short[s] * 0 /\ right[s] = folds[s] * n + folds[s] * 0
    OBVIOUS
  <2>5. (w[s] - n * l[s]) * big <= n * (o[s] - l[s])
    BY <1>4
  <2> HIDE DEF short, folds, left, right
  <2>6. left[s] = short[s] * big /\ right[s] = n * folds[s]
    BY <1>3, <2>2, <2>3, <2>4
  <2> QED
    BY <2>2, <2>3, <2>5, <2>6
<1>12. Sum(left) <= Sum(right)
  <2> HIDE DEF left, right
  <2> QED
    BY <1>3, <1>7, <1>8, <1>11, SumMonotone
<1>13. /\ Sum(w) \in Int /\ Sum(a) \in Int /\ Sum(o) \in Int /\ Sum(c) \in Int
       /\ Sum(l) \in Nat /\ Sum(short) \in Int /\ Sum(folds) \in Int
  <2> HIDE DEF short, folds
  <2> QED
    BY <1>3, <1>5, <1>6, SumInt, SumNat
<1>14. (n * pl.u - Sum(w)) * big <= n * Sum(a)
  BY <1>1 DEF SharesBound, a, big
<1>15. pl.u \in Nat /\ Sum(t) = ex + pl.u
  BY DEF PoolType, t
<1> HIDE DEF short, folds, left, right, Sum
<1>16. Sum(short) * big <= n * Sum(folds)
  BY <1>3, <1>7, <1>8, <1>12, <1>13
<1>17. (n * pl.u - n * Sum(l)) * big <= n * Sum(c)
  <2>1. ASSUME NEW W \in Int, NEW L \in Int, NEW A \in Int, NEW G \in Int,
               NEW b \in Int, NEW u \in Int, NEW m \in Int,
               (W * 1 + L * (0 - m)) * b <= m * G, (m * u - W) * b <= m * A
        PROVE  (m * u - m * L) * b <= m * (A * 1 + G * 1)
    <3>1. W * 1 + L * (0 - m) = W - m * L /\ m * (A * 1 + G * 1) = m * A + m * G
      OBVIOUS
    <3>2. m * u - m * L = (m * u - W) + (W - m * L)
      OBVIOUS
    <3>3. ASSUME NEW e \in Int, NEW f \in Int PROVE (e + f) * b = e * b + f * b
      OBVIOUS
    <3>4. m * u - W \in Int /\ W - m * L \in Int
      OBVIOUS
    <3>5. (m * u - m * L) * b = (m * u - W) * b + (W - m * L) * b
      BY <3>2, <3>3, <3>4
    <3>6. (m * u - W) * b \in Int /\ (W - m * L) * b \in Int /\ m * A \in Int /\ m * G \in Int
      BY <3>4
    <3>7. (W - m * L) * b <= m * G
      BY <2>1, <3>1
    <3> QED
      BY <2>1, <3>1, <3>5, <3>6, <3>7
  <2>2. (Sum(w) * 1 + Sum(l) * (0 - n)) * big <= n * Sum(folds)
    BY <1>5, <1>16
  <2>3. pl.u \in Int /\ Sum(l) \in Int
    BY <1>13, <1>15
  <2> QED
    BY <1>3, <1>9, <1>13, <1>14, <2>1, <2>2, <2>3
<1>18. Sum(c) + Sum(l) = ex + pl.u /\ Sum(c) < big
  BY <1>2, <1>10, <1>13, <1>15
<1>19. pl.u <= Sum(l)
  <2> SUFFICES ASSUME Sum(l) + 1 <= pl.u PROVE FALSE
    BY <1>13, <1>15
  <2>1. pl.u - Sum(l) \in Nat /\ pl.u - Sum(l) >= 1
    BY <1>13, <1>15
  <2>2. n * pl.u - n * Sum(l) = n * (pl.u - Sum(l))
    BY <1>3, <1>13, <1>15
  <2>3. n * (pl.u - Sum(l)) >= n /\ n * (pl.u - Sum(l)) \in Nat
    BY <1>3, <2>1, MulPos, MulNat
  <2>4. n * big <= (n * (pl.u - Sum(l))) * big
    BY <1>2, <1>3, <2>3, MulMono
  <2>5. n * Sum(c) < n * big
    <3>1. ASSUME NEW e \in Int, NEW f \in Int, NEW m \in Nat, m > 0, e < f
          PROVE  m * e < m * f
      <4>1. SUFFICES ASSUME f * m <= e * m PROVE FALSE
        OBVIOUS
      <4>2. f <= e
        BY <3>1, <4>1, MulCancelInt
      <4> QED
        BY <3>1, <4>2
    <3> QED
      BY <1>3, <1>13, <1>18, <3>1
  <2>6. /\ n * big \in Int /\ (n * (pl.u - Sum(l))) * big \in Int /\ n * Sum(c) \in Int
    BY <1>3, <1>13, <2>3
  <2>7. (n * (pl.u - Sum(l))) * big <= n * Sum(c)
    BY <1>17, <2>2
  <2> QED
    BY <2>4, <2>5, <2>6, <2>7
<1> QED
  <2>1. Sum(c) <= ex
    BY <1>13, <1>15, <1>18, <1>19
  <2> QED
    BY <2>1 DEF Sum, c

\* A fold with nothing sold or burned.
LEMMA FoldIsFolded ==
  ASSUME NEW pl \in PoolType, NEW w \in SlotType
  PROVE  Fold(pl, w) \in SlotType /\ FoldedWith(pl, w, Fold(pl, w), 0)
<1>1. FoldedOpen(pl, w) \in 0 .. w.open /\ w.open \in Nat /\ w.assigned \in Nat
  BY FoldedOpenBounds DEF SlotType
<1>2. CASE SnapshotCurrent(pl, w)
  <2>1. Fold(pl, w) = w /\ FoldedOpen(pl, w) = w.open
    BY <1>2 DEF Fold, FoldedOpen
  <2> QED
    BY <1>1, <1>2, <2>1 DEF FoldedWith, SnapshotCurrent
<1>3. CASE ~SnapshotCurrent(pl, w)
  <2> DEFINE c == w.assigned + (w.open - FoldedOpen(pl, w))
  <2>1. Fold(pl, w) =
          [p |-> pl.p, scale |-> pl.scale, epoch |-> pl.epoch,
           open |-> FoldedOpen(pl, w), assigned |-> c,
           sold |-> w.sold, settled |-> w.settled]
    BY <1>3 DEF Fold, SlotType
  <2>2. FoldedOpen(pl, w) = FoldedOpen(pl, w) + 0
    BY <1>1
  <2> QED
    BY <2>1, <2>2, FoldFacts DEF FoldedWith
<1> QED
  BY <1>2, <1>3

\* A slot with nothing sold has nothing open or assigned, so a new writer's
\* slot is that slot, folded.
LEMMA ClaimFolds ==
  ASSUME NEW pl \in PoolType, NEW w \in SlotType,
         w.sold = 0, w.sold = w.assigned + w.open
  PROVE  /\ FoldedWith(pl, w, FreshSlot(pl), 0)
         /\ FreshSlot(pl) \in SlotType /\ FreshSlot(pl).sold = 0
         /\ ~FreshSlot(pl).settled
<1>1. w.open = 0 /\ w.assigned = 0
  BY DEF SlotType
<1>2. FoldedOpen(pl, w) = 0
  BY <1>1 DEF FoldedOpen
<1> QED
  BY <1>1, <1>2 DEF FoldedWith, FreshSlot, PoolType, SlotType

\* A sale folds the slot and adds to it; a slot current already is as folded.
LEMMA AddFolds ==
  ASSUME NEW pl \in PoolType, NEW w \in SlotType, NEW n \in Nat
  PROVE  FoldedWith(pl, w, AddOpen(pl, w, n), n)
<1> DEFINE f == Fold(pl, w)
<1>1. f \in SlotType /\ FoldedWith(pl, w, f, 0)
  BY FoldIsFolded
<1>2. AddOpen(pl, w, n) = [f EXCEPT !.open = f.open + n, !.sold = f.sold + n]
  BY Zenon DEF AddOpen
<1> HIDE DEF f
<1>3. AddOpen(pl, w, n) =
        [p |-> f.p, scale |-> f.scale, epoch |-> f.epoch, open |-> f.open + n,
         assigned |-> f.assigned, sold |-> f.sold + n, settled |-> f.settled]
  BY <1>1, <1>2, OpenSoldUpdate
<1>4. FoldedOpen(pl, w) \in Int
  BY <1>1, FoldedOpenBounds DEF SlotType
<1> QED
  BY <1>1, <1>3, <1>4 DEF FoldedWith, SlotType

\* And a buy-back folds it and takes from it.
LEMMA BurnFolds ==
  ASSUME NEW pl \in PoolType, NEW w \in SlotType, NEW n \in Nat,
         w.sold = w.assigned + w.open, n <= FoldedOpen(pl, w)
  PROVE  /\ FoldedWith(pl, w, BurnOpen(pl, w, n), 0 - n)
         /\ BurnOpen(pl, w, n).sold = w.sold - n
<1> DEFINE f == Fold(pl, w)
<1>1. f \in SlotType /\ FoldedWith(pl, w, f, 0)
  BY FoldIsFolded
<1>2. /\ f.sold = w.sold /\ f.open = FoldedOpen(pl, w)
      /\ f.assigned + f.open = w.assigned + w.open
  BY FoldFacts
<1>3. BurnOpen(pl, w, n) = [f EXCEPT !.open = f.open - n, !.sold = SatSub(f.sold, n)]
  BY DEF BurnOpen
<1> HIDE DEF f
<1>4. BurnOpen(pl, w, n) =
        [p |-> f.p, scale |-> f.scale, epoch |-> f.epoch, open |-> f.open - n,
         assigned |-> f.assigned, sold |-> SatSub(f.sold, n), settled |-> f.settled]
  BY <1>1, <1>3, OpenSoldUpdate
<1>5. SatSub(f.sold, n) = w.sold - n
  BY <1>1, <1>2 DEF SatSub, SlotType
<1>6. FoldedOpen(pl, w) \in Int
  BY <1>1, FoldedOpenBounds DEF SlotType
<1> QED
  BY <1>1, <1>2, <1>4, <1>5, <1>6 DEF FoldedWith, SlotType

-----------------------------------------------------------------------------
(* The invariant behind NoOverAssignment.                                  *)

\* Up to settlement the slots are bounded, and their sold lots are the
\* series', which are no more than its u64 holds.
SharesOK ==
  ~settling =>
    /\ HaveShares(pool, slots)
    /\ SumFunctionOnSet(SoldOf(slots), Slots) = totalSold
    /\ totalSold <= MaxSold

\* The sum the property takes is the one the lemmas are about.
LEMMA ChargedIsAssignedNow ==
  NoOverAssignment <=>
    SumFunctionOnSet(ChargedOf(pool, slots), Slots) <= totalExercised
<1>1. [s \in Slots |-> AssignedNow(s)] = ChargedOf(pool, slots)
  BY DEF AssignedNow, ChargedOf
<1>2. DOMAIN ChargedOf(pool, slots) = Slots
  BY DEF ChargedOf
<1>3. SumFunction(ChargedOf(pool, slots)) = SumFunctionOnSet(ChargedOf(pool, slots), Slots)
  BY <1>2, Zenon DEF SumFunction
<1> QED
  BY <1>1, <1>3, Zenon DEF NoOverAssignment

\* Before settlement the property follows from the bounds.
LEMMA NotOverBefore ==
  IInv /\ SharesOK /\ ~settling => NoOverAssignment
<1> SUFFICES ASSUME IInv, SharesOK, ~settling PROVE NoOverAssignment
  OBVIOUS
<1>1. /\ pool \in PoolType /\ pool.p \in P_FLOOR .. P_ONE
      /\ slots \in [Slots -> SlotType]
      /\ totalExercised \in Nat /\ totalSold = totalExercised + pool.u
  BY DEF IInv, TypeOK, ProductInRange, LotsConserved
<1>2. \A s \in Slots : slots[s].sold = slots[s].assigned + slots[s].open
  BY DEF IInv, SlotLotsConserved, settling
<1>3. /\ HaveShares(pool, slots)
      /\ SumFunctionOnSet(SoldOf(slots), Slots) = totalExercised + pool.u
      /\ totalExercised + pool.u <= MaxSold
  BY <1>1 DEF SharesOK
<1>4. SumFunctionOnSet(ChargedOf(pool, slots), Slots) <= totalExercised
  BY <1>1, <1>2, <1>3, SharesForbidOver
<1> QED
  BY <1>4, ChargedIsAssignedNow

\* A new series has no lots, and nothing to bound.
LEMMA InitShares == Init => SharesOK
<1> SUFFICES ASSUME Init PROVE SharesOK
  OBVIOUS
<1> DEFINE one == P_SCALE * RescaleFactor(4)
           w == [s \in Slots |-> 0]
           k == [s \in Slots |-> one]
<1>1. /\ pool \in PoolType /\ slots \in [Slots -> SlotType] /\ pool.u = 0
      /\ \A s \in Slots : slots[s].p \in P_FLOOR .. P_ONE
      /\ \A s \in Slots : slots[s].assigned = 0 /\ slots[s].sold = 0
      /\ totalSold = 0
  <2>1. IInv
    BY InitIInv
  <2>2. pool = FreshPool /\ slots = [s \in Slots |-> FreshSlot(FreshPool)] /\ totalSold = 0
    BY DEF Init
  <2>3. FreshPool.p \in P_FLOOR .. P_ONE /\ FreshPool.u = 0
    BY <2>1, <2>2 DEF IInv, ProductInRange, FreshPool
  <2> QED
    BY <2>1, <2>2, <2>3 DEF IInv, TypeOK, FreshSlot
<1>2. ASSUME NEW s \in Slots
      PROVE  ShareBound(pool, slots[s], 1, w[s], k[s]) /\ one \in Nat \ {0}
  <2>1. slots[s] \in SlotType
    BY <1>1
  <2>2. ShareBound(pool, slots[s], 1, 0, one) /\ one \in Nat \ {0}
    BY <1>1, <2>1, ConsumedBounds
  <2> HIDE DEF one
  <2> QED
    BY <2>2
<1>3. /\ SumFunctionOnSet(w, Slots) = 0
      /\ SumFunctionOnSet(AssignedOf(slots), Slots) = 0
      /\ SumFunctionOnSet(SoldOf(slots), Slots) = 0
  BY <1>1, LotsBelowScale, SumOfZeros DEF AssignedOf, SoldOf
<1>4. RescaleFactor(4) \in Nat /\ MaxSold \in Nat
  BY RescaleFactorPositive, PoolBounds
<1> HIDE DEF one
<1>5. w \in [Slots -> Int] /\ k \in [Slots -> Nat \ {0}]
  BY <1>2
<1>6. (1 * pool.u - 0) * RescaleFactor(4) <= 1 * 0
  BY <1>1, <1>4
<1> HIDE DEF w, k
<1>7. SharesBound(pool, slots, 1, w, k)
  BY <1>2, <1>3, <1>6 DEF SharesBound
<1>8. HaveShares(pool, slots)
  BY <1>5, <1>7 DEF HaveShares
<1> QED
  BY <1>1, <1>3, <1>4, <1>8 DEF SharesOK

\* What the steps before settlement start from.
LEMMA BeforeSettlement ==
  ASSUME IInv, SharesOK, ~settling
  PROVE  /\ pool \in PoolType /\ pool.p \in P_FLOOR .. P_ONE
         /\ slots \in [Slots -> SlotType]
         /\ \A s \in Slots : /\ slots[s] \in SlotType /\ ~slots[s].settled
                             /\ slots[s].sold = slots[s].assigned + slots[s].open
         /\ HaveShares(pool, slots)
         /\ SumFunctionOnSet(SoldOf(slots), Slots) = totalSold
         /\ totalSold <= MaxSold /\ totalSold \in Nat /\ MaxSold \in Nat
         /\ totalSold = totalExercised + pool.u /\ totalExercised \in Nat
  BY PoolBounds
     DEF IInv, TypeOK, ProductInRange, LotsConserved, SlotLotsConserved, SharesOK, settling

\* A claimed slot has nothing to lose.
LEMMA ClaimShares ==
  ASSUME IInv, SharesOK, NEW i \in Slots, Claim(i)
  PROVE  SharesOK' /\ ~settling'
<1> DEFINE d == [s \in Slots |-> 0]
           f == FreshSlot(pool)
<1>1. ~settling
  BY DEF Claim
<1>2. slots' = [slots EXCEPT ![i] = f] /\ pool' = pool /\ totalSold' = totalSold
  BY DEF Claim
<1>3. slots[i].sold = 0
  BY DEF Claim
<1>4. /\ FoldedWith(pool, slots[i], f, 0)
      /\ f \in SlotType /\ f.sold = 0 /\ ~f.settled
  BY <1>1, <1>3, BeforeSettlement, ClaimFolds
<1>5. d \in [Slots -> Int] /\ SumFunctionOnSet(d, Slots) = 0
  BY LotsBelowScale, SumOfZeros
<1> HIDE DEF f
<1>6. slots' \in [Slots -> SlotType]
  BY <1>1, <1>2, <1>4, BeforeSettlement
<1>7. \A s \in Slots : \/ FoldedWith(pool, slots[s], slots'[s], d[s])
                       \/ slots'[s] = slots[s] /\ d[s] = 0
  BY <1>1, <1>2, <1>4, BeforeSettlement
<1>8. HaveShares(pool, slots')
  <2>1. pool.u = pool.u + SumFunctionOnSet(d, Slots)
    BY <1>1, <1>5, BeforeSettlement DEF PoolType
  <2> HIDE DEF d
  <2> QED
    BY <1>1, <1>5, <1>6, <1>7, <2>1, BeforeSettlement, FoldsKeepShares
<1>9. SumFunctionOnSet(SoldOf(slots'), Slots) = SumFunctionOnSet(SoldOf(slots), Slots)
  <2>1. \A s \in Slots : SoldOf(slots')[s] = SoldOf(slots)[s]
    BY <1>1, <1>2, <1>3, <1>4, BeforeSettlement DEF SoldOf
  <2> QED
    BY <2>1, LotsBelowScale, SumAgree
<1>10. ~settling'
  BY <1>1, <1>2, <1>4, BeforeSettlement DEF settling
<1> QED
  BY <1>1, <1>2, <1>8, <1>9, <1>10, BeforeSettlement DEF SharesOK

\* A purchase brings the slots the lots it brings the pool.
LEMMA SellShares ==
  ASSUME IInv, SharesOK, NEW fill \in [Slots -> 0 .. MaxFill],
         NEW filled \in 1 .. MaxSold, Sell(fill, filled)
  PROVE  SharesOK' /\ ~settling'
<1>1. ~settling
  BY DEF Sell
<1>2. /\ pool \in PoolType /\ pool.p \in P_FLOOR .. P_ONE
      /\ slots \in [Slots -> SlotType]
      /\ \A s \in Slots : slots[s] \in SlotType /\ ~slots[s].settled
      /\ HaveShares(pool, slots)
      /\ SumFunctionOnSet(SoldOf(slots), Slots) = totalSold /\ totalSold \in Nat
  BY <1>1, BeforeSettlement
<1>3. /\ filled = SumFunctionOnSet(fill, Slots) /\ filled \in Nat
      /\ \A s \in Slots : fill[s] \in Nat
      /\ fill \in [Slots -> Int] /\ IntTerms(fill, Slots)
  <2>1. DOMAIN fill = Slots
    OBVIOUS
  <2>2. filled = SumFunction(fill)
    BY DEF Sell
  <2>3. filled = SumFunctionOnSet(fill, Slots)
    BY <2>1, <2>2, Zenon DEF SumFunction
  <2> QED
    BY <2>3, PoolBounds DEF IntTerms
<1>4. /\ pool' = [pool EXCEPT !.u = pool.u + filled]
      /\ totalSold' = totalSold + filled /\ totalSold + filled <= MaxSold
  BY DEF Sell
<1>5. /\ pool' \in PoolType /\ pool'.p = pool.p /\ pool'.scale = pool.scale
      /\ pool'.epoch = pool.epoch /\ pool'.u = pool.u + filled
  BY <1>2, <1>3, <1>4 DEF PoolType
<1>6. ASSUME NEW s \in Slots
      PROVE  /\ slots'[s] \in SlotType /\ ~slots'[s].settled
             /\ slots'[s].sold = slots[s].sold + fill[s]
             /\ \/ FoldedWith(pool, slots[s], slots'[s], fill[s])
                \/ slots'[s] = slots[s] /\ fill[s] = 0
  <2>1. slots'[s] = IF fill[s] > 0 THEN AddOpen(pool, slots[s], fill[s]) ELSE slots[s]
    BY DEF Sell
  <2>2. slots[s] \in SlotType /\ fill[s] \in Nat /\ ~slots[s].settled
    BY <1>2, <1>3
  <2>3. CASE fill[s] > 0
    <3> DEFINE b == AddOpen(pool, slots[s], fill[s])
    <3>1. slots'[s] = b
      BY <2>1, <2>3
    <3>2. b \in SlotType /\ b.sold = slots[s].sold + fill[s] /\ b.settled = slots[s].settled
      BY <1>2, <2>2, AddOpenFacts
    <3>3. FoldedWith(pool, slots[s], b, fill[s])
      BY <1>2, <2>2, AddFolds
    <3> HIDE DEF b
    <3> QED
      BY <2>2, <3>1, <3>2, <3>3
  <2>4. CASE ~(fill[s] > 0)
    <3>1. slots'[s] = slots[s] /\ fill[s] = 0
      BY <2>1, <2>2, <2>4
    <3>2. slots[s].sold = slots[s].sold + fill[s]
      BY <2>2, <3>1 DEF SlotType
    <3> QED
      BY <2>2, <3>1, <3>2
  <2> QED
    BY <2>3, <2>4
<1>7. slots' \in [Slots -> SlotType]
  <2>1. slots' = [s \in Slots |-> slots'[s]]
    BY DEF Sell
  <2> QED
    BY <1>6, <2>1
<1>8. HaveShares(pool', slots')
  BY <1>2, <1>3, <1>5, <1>6, <1>7, FoldsKeepShares
<1>9. SumFunctionOnSet(SoldOf(slots'), Slots) = totalSold + filled
  <2>1. \A s \in Slots : SoldOf(slots')[s] = SoldOf(slots)[s] + fill[s]
    BY <1>6 DEF SoldOf
  <2>2. IntTerms(SoldOf(slots), Slots) /\ IsFiniteSet(Slots)
    BY <1>2, SlotTerms
  <2> QED
    BY <1>2, <1>3, <2>1, <2>2, SumPlus
<1>10. ~settling'
  BY <1>6 DEF settling
<1> QED
  BY <1>4, <1>8, <1>9, <1>10 DEF SharesOK

\* A buy-back takes from the slot what it takes from the pool.
LEMMA BuyBackShares ==
  ASSUME IInv, SharesOK, NEW i \in Slots, NEW n \in 1 .. MaxSold, BuyBack(i, n)
  PROVE  SharesOK' /\ ~settling'
<1> DEFINE d == [s \in Slots |-> IF s = i THEN 0 - n ELSE 0]
           z == [s \in Slots |-> 0]
           b == BurnOpen(pool, slots[i], n)
<1>1. ~settling
  BY DEF BuyBack
<1>2. /\ pool \in PoolType /\ pool.p \in P_FLOOR .. P_ONE
      /\ slots \in [Slots -> SlotType]
      /\ \A s \in Slots : slots[s] \in SlotType /\ ~slots[s].settled
      /\ slots[i].sold = slots[i].assigned + slots[i].open
      /\ HaveShares(pool, slots)
      /\ SumFunctionOnSet(SoldOf(slots), Slots) = totalSold /\ totalSold \in Nat
      /\ totalSold <= MaxSold /\ MaxSold \in Nat
      /\ totalSold = totalExercised + pool.u /\ totalExercised \in Nat
  BY <1>1, BeforeSettlement
<1>3. n \in Nat /\ n <= pool.u /\ n <= FoldedOpen(pool, slots[i]) /\ pool.u \in Nat
  BY <1>2 DEF BuyBack, PoolType
<1>4. /\ slots' = [slots EXCEPT ![i] = b]
      /\ pool' = [pool EXCEPT !.u = SatSub(pool.u, n)]
      /\ totalSold' = SatSub(totalSold, n)
  BY DEF BuyBack
<1>5. SatSub(pool.u, n) = pool.u - n /\ totalSold' = totalSold - n
  BY <1>2, <1>3, <1>4 DEF SatSub
<1>6. /\ pool' \in PoolType /\ pool'.p = pool.p /\ pool'.scale = pool.scale
      /\ pool'.epoch = pool.epoch /\ pool'.u = pool.u - n
  BY <1>2, <1>3, <1>4, <1>5 DEF PoolType
<1>7. b \in SlotType /\ b.settled = slots[i].settled
  BY <1>2, <1>3, BurnOpenFacts
<1>8. FoldedWith(pool, slots[i], b, 0 - n) /\ b.sold = slots[i].sold - n
  BY <1>2, <1>3, BurnFolds
<1> HIDE DEF b
<1>9. /\ d \in [Slots -> Int] /\ IntTerms(d, Slots) /\ IntTerms(z, Slots)
      /\ IsFiniteSet(Slots)
  BY <1>3, LotsBelowScale DEF IntTerms
<1>10. SumFunctionOnSet(d, Slots) = 0 - n
  <2>1. SumFunctionOnSet(z, Slots) = 0
    BY <1>9, SumOfZeros
  <2>2. \A s \in Slots \ {i} : d[s] = z[s]
    OBVIOUS
  <2>3. d[i] = 0 - n /\ z[i] = 0
    OBVIOUS
  <2> HIDE DEF d, z
  <2>4. SumFunctionOnSet(d, Slots) = SumFunctionOnSet(z, Slots) - z[i] + d[i]
    BY <1>9, <2>2, SumUpdate
  <2> QED
    BY <1>3, <2>1, <2>3, <2>4
<1>11. slots' \in [Slots -> SlotType] /\ slots'[i] = b
       /\ \A s \in Slots : s # i => slots'[s] = slots[s]
  BY <1>2, <1>4, <1>7
<1>12. \A s \in Slots : \/ FoldedWith(pool, slots[s], slots'[s], d[s])
                        \/ slots'[s] = slots[s] /\ d[s] = 0
  BY <1>8, <1>11
<1>13. HaveShares(pool', slots')
  <2>1. pool'.u = pool.u + SumFunctionOnSet(d, Slots)
    BY <1>3, <1>6, <1>10
  <2> HIDE DEF d
  <2> QED
    BY <1>2, <1>6, <1>9, <1>11, <1>12, <2>1, FoldsKeepShares
<1>14. SumFunctionOnSet(SoldOf(slots'), Slots) = totalSold - n
  <2>1. \A s \in Slots \ {i} : SoldOf(slots')[s] = SoldOf(slots)[s]
    BY <1>11 DEF SoldOf
  <2>2. SoldOf(slots')[i] = SoldOf(slots)[i] - n /\ SoldOf(slots)[i] \in Int
    BY <1>2, <1>8, <1>11 DEF SoldOf, SlotType
  <2>3. IntTerms(SoldOf(slots), Slots) /\ IntTerms(SoldOf(slots'), Slots)
    BY <1>2, <1>11, SlotTerms
  <2>4. SumFunctionOnSet(SoldOf(slots'), Slots)
          = SumFunctionOnSet(SoldOf(slots), Slots) - SoldOf(slots)[i] + SoldOf(slots')[i]
    BY <1>9, <2>1, <2>3, SumUpdate
  <2> QED
    BY <1>2, <1>3, <2>2, <2>4
<1>15. ~settling'
  BY <1>2, <1>7, <1>11 DEF settling
<1>16. totalSold' <= MaxSold
  BY <1>2, <1>3, <1>5
<1> QED
  BY <1>5, <1>13, <1>14, <1>15, <1>16 DEF SharesOK

\* An exercise leaves every bound its exact part.
LEMMA ExerciseKeepsShares ==
  ASSUME NEW pl \in PoolType, pl.p \in P_FLOOR .. P_ONE,
         NEW sl \in [Slots -> SlotType], HaveShares(pl, sl),
         NEW q \in Nat, q > 0, q <= pl.u
  PROVE  HaveShares(ApplyExercise(pl, q), sl)
<1> USE ProductConstants
<1>1. PICK n \in Nat \ {0}, w \in [Slots -> Int], k \in [Slots -> Nat \ {0}] :
        SharesBound(pl, sl, n, w, k)
  BY DEF HaveShares
<1> DEFINE r == ApplyExercise(pl, q)
           big == RescaleFactor(4)
           A == SumFunctionOnSet(AssignedOf(sl), Slots)
           W == SumFunctionOnSet(w, Slots)
           u == pl.u
           m == pl.u - q
<1>2. r \in PoolType /\ r.u = m /\ u \in Nat /\ m \in Nat /\ m <= u /\ u > 0
  BY ApplyExerciseFacts DEF PoolType
<1>3. big \in Nat /\ A \in Nat /\ IntTerms(w, Slots) /\ IsFiniteSet(Slots) /\ W \in Int
  <2>1. big \in Nat /\ IntTerms(w, Slots)
    BY RescaleFactorPositive DEF IntTerms
  <2>2. NatTerms(AssignedOf(sl), Slots) /\ IsFiniteSet(Slots)
    BY SlotTerms
  <2> QED
    BY <2>1, <2>2, SumNat, SumInt
<1>4. \A s \in Slots : /\ ShareBound(pl, sl[s], n, w[s], k[s])
                       /\ sl[s] \in SlotType /\ w[s] \in Int
                       /\ k[s] \in Nat /\ k[s] > 0
  BY <1>1 DEF SharesBound
<1>5. (n * u - W) * big <= n * A /\ n \in Nat /\ n > 0
  BY <1>1 DEF SharesBound
<1>6. CASE q = pl.u
  <2> DEFINE one == P_SCALE * RescaleFactor(4)
             x == [s \in Slots |-> 0]
             j == [s \in Slots |-> one]
  <2>1. ASSUME NEW s \in Slots
        PROVE  ShareBound(r, sl[s], 1, x[s], j[s]) /\ one \in Nat \ {0}
    <3>1. sl[s].p \in P_FLOOR .. P_ONE
      BY <1>4 DEF ShareBound
    <3>2. ShareBound(r, sl[s], 1, 0, one) /\ one \in Nat \ {0}
      BY <1>2, <1>4, <3>1, ConsumedBounds
    <3> HIDE DEF one, r
    <3> QED
      BY <3>2
  <2> HIDE DEF one, r
  <2>2. x \in [Slots -> Int] /\ j \in [Slots -> Nat \ {0}]
    BY <2>1
  <2>3. SumFunctionOnSet(x, Slots) = 0
    BY <1>3, SumOfZeros
  <2>4. (1 * r.u - 0) * big <= 1 * A
    BY <1>2, <1>3, <1>6
  <2> HIDE DEF x, j
  <2>5. SharesBound(r, sl, 1, x, j)
    BY <2>1, <2>3, <2>4 DEF SharesBound
  <2> QED
    BY <2>2, <2>5 DEF HaveShares, r
<1>7. CASE q < pl.u
  <2> DEFINE x == [s \in Slots |-> w[s] * m + w[s] * 0]
             j == [s \in Slots |-> FellTo(pl, q, k[s])]
             N == n * u
  <2>1. ASSUME NEW s \in Slots
        PROVE  ShareBound(r, sl[s], N, x[s], j[s]) /\ j[s] \in Nat \ {0} /\ x[s] \in Int
    <3>1. /\ FellTo(pl, q, k[s]) \in Nat /\ FellTo(pl, q, k[s]) > 0
          /\ ShareBound(r, sl[s], n * u, w[s] * m, FellTo(pl, q, k[s]))
      BY <1>4, <1>5, <1>7, ExerciseBounds
    <3>2. x[s] = w[s] * m /\ x[s] \in Int
      BY <1>2, <1>4
    <3>3. j[s] = FellTo(pl, q, k[s])
      OBVIOUS
    <3> HIDE DEF x, j, r, m, u
    <3> QED
      BY <3>1, <3>2, <3>3
  <2>2. x \in [Slots -> Int] /\ j \in [Slots -> Nat \ {0}]
    BY <2>1
  <2>3. SumFunctionOnSet(x, Slots) = W * m
    <3>1. Combines(x, w, w, m, 0, Slots)
      BY DEF Combines
    <3>2. m \in Int /\ 0 \in Int
      BY <1>2
    <3> HIDE DEF x, m
    <3>3. SumsCombine(x, w, w, m, 0, Slots)
      BY <1>3, <3>1, <3>2, SumCombines, Zenon
    <3> QED
      BY <1>3, <3>2, <3>3 DEF SumsCombine
  <2> HIDE DEF x, j, r, A, W, u, m, big
  <2>4. N \in Nat \ {0}
    BY <1>2, <1>5, MulPos, MulNat
  <2>5. (N * m - W * m) * big <= N * A
    <3>1. ASSUME NEW a \in Int, NEW b \in Int, NEW c \in Int, NEW e \in Int
          PROVE  ((a * b) * c - e * c) * big = ((a * b - e) * big) * c
      <4>1. (a * b) * c - e * c = (a * b - e) * c
        OBVIOUS
      <4>2. ASSUME NEW f \in Int PROVE (f * c) * big = (f * big) * c
        BY <1>3
      <4> QED
        BY <4>1, <4>2
    <3>2. (N * m - W * m) * big = ((n * u - W) * big) * m
      BY <1>2, <1>3, <1>5, <3>1
    <3>3. ((n * u - W) * big) * m <= (n * A) * m
      <4>1. (n * u - W) * big \in Int /\ n * A \in Int
        BY <1>2, <1>3, <1>5
      <4> QED
        BY <1>2, <1>5, <4>1, MulMonoInt
    <3>4. m * (n * A) <= u * (n * A)
      BY <1>2, <1>3, <1>5, MulNat, MulMono
    <3>5. (n * A) * m = m * (n * A) /\ u * (n * A) = N * A
      BY <1>2, <1>3, <1>5
    <3>6. /\ ((n * u - W) * big) * m \in Int /\ (n * A) * m \in Int /\ N * A \in Int
      BY <1>2, <1>3, <1>5
    <3> HIDE DEF N
    <3> QED
      BY <3>2, <3>3, <3>4, <3>5, <3>6
  <2> HIDE DEF N
  <2>6. SharesBound(r, sl, N, x, j)
    BY <1>2, <2>1, <2>3, <2>5 DEF SharesBound, A, big
  <2> QED
    BY <2>2, <2>4, <2>6 DEF HaveShares, r
<1> QED
  BY <1>6, <1>7, <1>2

\* An exercise touches no slot, and the sold lots stay what they were.
LEMMA ExerciseShares ==
  ASSUME IInv, SharesOK, NEW q \in 1 .. MaxSold, Exercise(q)
  PROVE  SharesOK' /\ ~settling'
<1>1. /\ ~settling /\ q \in Nat /\ q > 0 /\ q <= pool.u
      /\ pool' = ApplyExercise(pool, q)
      /\ slots' = slots /\ totalSold' = totalSold
  BY PoolBounds DEF Exercise
<1>2. HaveShares(pool', slots)
  BY <1>1, BeforeSettlement, ExerciseKeepsShares
<1>3. ~settling'
  BY <1>1 DEF settling
<1> QED
  BY <1>1, <1>2, <1>3, BeforeSettlement DEF SharesOK

\* Settlement folds the last time: what is charged to a slot was charged to it
\* already.
LEMMA SettledIsCharged ==
  ASSUME NEW pl \in PoolType, NEW v \in SlotType
  PROVE  Charged(pl, SettledSlot(pl, v)) = Charged(pl, v)
<1> DEFINE f == Fold(pl, v)
           g == [f EXCEPT !.open = 0]
           b == SettledSlot(pl, v)
<1>1. /\ f \in SlotType /\ f.open = FoldedOpen(pl, v)
      /\ f.assigned + f.open = v.assigned + v.open
  BY FoldFacts
<1>2. b.open = 0 /\ b.assigned = f.assigned
  <2>1. b = [g EXCEPT !.settled = TRUE]
    BY DEF SettledSlot
  <2> HIDE DEF f
  <2>2. g \in SlotType /\ g.open = 0 /\ g.assigned = f.assigned
    BY <1>1 DEF SlotType
  <2> HIDE DEF g, b
  <2> QED
    BY <2>1, <2>2 DEF SlotType
<1> HIDE DEF f, b
<1>3. FoldedOpen(pl, b) = 0
  BY <1>2 DEF FoldedOpen
<1>4. v.assigned \in Nat /\ v.open \in Nat /\ f.assigned \in Nat /\ f.open \in Nat
  BY <1>1 DEF SlotType
<1>5. b.assigned + b.open - FoldedOpen(pl, b) = v.assigned + v.open - FoldedOpen(pl, v)
  BY <1>1, <1>2, <1>3, <1>4
<1> QED
  BY <1>5 DEF b, Charged

\* So no slot is charged more by a settlement.
LEMMA SettleShares ==
  ASSUME IInv, NoOverAssignment, NEW i \in Slots, Settle(i)
  PROVE  SharesOK' /\ NoOverAssignment'
<1> DEFINE b == SettledSlot(pool, slots[i])
<1>1. /\ pool \in PoolType /\ slots \in [Slots -> SlotType]
      /\ slots' = [slots EXCEPT ![i] = b]
      /\ pool' = pool /\ totalExercised' = totalExercised
  BY DEF IInv, TypeOK, Settle
<1>2. b \in SlotType /\ b.settled
  BY <1>1, SettledSlotFacts
<1>5. settling'
  BY <1>1, <1>2 DEF settling
<1>7. b.assigned + b.open - FoldedOpen(pool, b)
        = slots[i].assigned + slots[i].open - FoldedOpen(pool, slots[i])
  BY <1>1, SettledIsCharged DEF Charged
<1> HIDE DEF b
<1>8. slots'[i] = b /\ \A s \in Slots : s # i => slots'[s] = slots[s]
  BY <1>1
<1>9. ASSUME NEW s \in Slots
      PROVE  slots'[s].assigned + slots'[s].open - FoldedOpen(pool, slots'[s])
               = slots[s].assigned + slots[s].open - FoldedOpen(pool, slots[s])
  <2>1. CASE s = i
    BY <1>7, <1>8, <2>1, Zenon
  <2>2. CASE s # i
    BY <1>8, <2>2, Zenon
  <2> QED
    BY <2>1, <2>2
<1>10. ChargedOf(pool', slots') = ChargedOf(pool, slots)
  BY <1>1, <1>9, Zenon DEF ChargedOf
<1>11. NoOverAssignment'
  <2>1. NoOverAssignment' <=>
          (SumFunctionOnSet(ChargedOf(pool, slots), Slots) <= totalExercised)'
    BY ChargedIsAssignedNow, PTL
  <2>2. (SumFunctionOnSet(ChargedOf(pool, slots), Slots) <= totalExercised)'
    BY <1>1, <1>10, ChargedIsAssignedNow
  <2> QED
    BY <2>1, <2>2
<1> QED
  BY <1>5, <1>11 DEF SharesOK

\* What a slot is charged depends on the product only, not on the pool's lots;
\* a fold, with or without lots that come or go, charges it nothing new.
LEMMA ChargedKept ==
  ASSUME NEW pl \in PoolType, NEW pm \in PoolType,
         pm.p = pl.p, pm.scale = pl.scale, pm.epoch = pl.epoch,
         NEW v \in SlotType, NEW b \in SlotType, NEW d \in Int,
         FoldedWith(pl, v, b, d) \/ b = v
  PROVE  Charged(pm, b) = Charged(pl, v)
<1>1. v.open \in Nat /\ v.assigned \in Nat /\ FoldedOpen(pl, v) \in Nat
  <2>1. v.open \in Nat /\ v.assigned \in Nat /\ v.p \in Nat /\ v.scale \in Nat
    BY DEF SlotType
  <2> QED
    BY <2>1, FoldedOpenBounds
<1>2. CASE b = v
  <2>1. FoldedOpen(pm, v) = FoldedOpen(pl, v)
    BY DEF FoldedOpen, SnapshotCurrent, Unassigned
  <2> QED
    BY <1>2, <2>1 DEF Charged
<1>3. CASE FoldedWith(pl, v, b, d)
  <2>1. FoldedOpen(pm, b) = b.open
    BY <1>3 DEF FoldedWith, FoldedOpen, SnapshotCurrent
  <2>2. /\ b.open = FoldedOpen(pl, v) + d
        /\ b.assigned = v.assigned + (v.open - FoldedOpen(pl, v))
    BY <1>3 DEF FoldedWith
  <2>3. b.assigned + b.open - FoldedOpen(pm, b) = v.assigned + v.open - FoldedOpen(pl, v)
    BY <1>1, <2>1, <2>2
  <2> QED
    BY <2>3 DEF Charged
<1> QED
  BY <1>2, <1>3

\* Every step keeps the bounds, and with them the property.
LEMMA NextShares ==
  /\ IInv /\ SharesOK /\ NoOverAssignment
  /\ [Next]_vars
  => SharesOK' /\ NoOverAssignment'
<1> SUFFICES ASSUME IInv, SharesOK, NoOverAssignment, [Next]_vars
             PROVE  SharesOK' /\ NoOverAssignment'
  OBVIOUS
<1>1. IInv'
  BY NextIInv
<1>2. SharesOK' /\ ~settling' => NoOverAssignment'
  BY <1>1, NotOverBefore, PTL
<1>3. ASSUME NEW s \in Slots, Claim(s) PROVE SharesOK' /\ NoOverAssignment'
  BY <1>2, <1>3, ClaimShares
<1>4. ASSUME NEW fill \in [Slots -> 0 .. MaxFill], NEW filled \in 1 .. MaxSold,
             Sell(fill, filled)
      PROVE  SharesOK' /\ NoOverAssignment'
  BY <1>2, <1>4, SellShares
<1>5. ASSUME NEW q \in 1 .. MaxSold, Exercise(q) PROVE SharesOK' /\ NoOverAssignment'
  BY <1>2, <1>5, ExerciseShares
<1>6. ASSUME NEW s \in Slots, NEW n \in 1 .. MaxSold, BuyBack(s, n)
      PROVE  SharesOK' /\ NoOverAssignment'
  BY <1>2, <1>6, BuyBackShares
<1>7. ASSUME NEW s \in Slots, Settle(s) PROVE SharesOK' /\ NoOverAssignment'
  BY <1>7, SettleShares
<1>8. CASE UNCHANGED vars
  BY <1>8 DEF vars, SharesOK, NoOverAssignment, AssignedNow, settling
<1> QED
  BY <1>3, <1>4, <1>5, <1>6, <1>7, <1>8 DEF Next

\* The bounds hold in every reachable state.
LEMMA SharesAlways == Spec => [](IInv /\ SharesOK /\ NoOverAssignment)
<1>1. Init => SharesOK /\ NoOverAssignment
  <2>1. Init => ~settling
    BY DEF Init, settling, FreshSlot
  <2> QED
    BY <2>1, InitIInv, InitShares, NotOverBefore
<1> QED
  BY <1>1, IInvHolds, NextShares, PTL DEF Spec

\* The writers together are never assigned more lots than holders exercised:
\* however purchases, exercises, buy-backs and folds follow each other, and
\* however often the scale wraps, settlement pays the writers no more
\* consideration than exercise paid in.
THEOREM NeverOverAssigned == Spec => []NoOverAssignment
BY SharesAlways, PTL

-----------------------------------------------------------------------------
(* What one exercise may take.                                             *)

\* What is still unassigned of a slot is at most one lot unit above its exact
\* part, for a snapshot less than five rescales old; it is nothing otherwise.
LEMMA LeftAtMost ==
  ASSUME NEW pl \in PoolType, pl.p \in P_FLOOR .. P_ONE,
         NEW v \in SlotType, v.p \in P_FLOOR .. P_ONE, FoldedOpen(pl, v) > 0
  PROVE  /\ v.epoch = pl.epoch /\ Behind(pl, v) < 5
         /\ (FoldedOpen(pl, v) - 1) * (v.p * RescaleFactor(Behind(pl, v))) <= v.open * pl.p
<1> USE ProductConstants
<1> DEFINE o == v.open
           F == FoldedOpen(pl, v)
           d == Behind(pl, v)
           rf == RescaleFactor(d)
           step == CeilDiv(o * pl.p, v.p)
           c == CeilDiv(step, rf)
<1>1. /\ o \in Nat /\ v.p \in Nat /\ v.p > 0 /\ pl.p \in Nat /\ pl.p > 0
      /\ v.scale \in 0 .. ScaleMod - 1 /\ pl.scale \in 0 .. ScaleMod - 1
  BY DEF SlotType, PoolType
<1>2. F \in 0 .. o /\ F > 0
  BY <1>1, FoldedOpenBounds
<1>3. d \in Nat /\ rf \in Nat /\ rf > 0
  BY <1>1, RescaleFactorPositive DEF Behind
<1>4. CASE SnapshotCurrent(pl, v)
  <2>1. v.epoch = pl.epoch /\ d = 0 /\ v.p = pl.p /\ F = o
    BY <1>1, <1>4 DEF SnapshotCurrent, Behind, FoldedOpen
  <2>2. rf = 1
    BY <2>1 DEF RescaleFactor
  <2>3. (o - 1) * (pl.p * 1) <= o * pl.p
    <3>1. ASSUME NEW a \in Nat, NEW b \in Nat PROVE (a - 1) * (b * 1) = a * b - b
      OBVIOUS
    <3>2. o * pl.p \in Nat
      BY <1>1, MulNat
    <3> HIDE DEF o
    <3> QED
      BY <1>1, <3>1, <3>2
  <2> HIDE DEF F, d, rf, o
  <2> QED
    BY <2>1, <2>2, <2>3 DEF F, d, rf, o
<1>5. CASE ~SnapshotCurrent(pl, v)
  <2>1. F = Unassigned(pl, v)
    BY <1>1, <1>2, <1>5 DEF FoldedOpen
  <2>2. v.epoch = pl.epoch /\ d < 5
    BY <1>2, <1>3, <2>1 DEF Unassigned, Behind
  <2>3. F = LesserOf(o, c)
    BY <1>1, <2>1, <2>2 DEF Unassigned, Behind
  <2>4. o * pl.p \in Nat /\ step \in Nat /\ step * v.p < o * pl.p + v.p
    BY <1>1, MulNat, CeilDivBounds
  <2>5. c \in Nat /\ c * rf < step + rf
    BY <1>3, <2>4, CeilDivBounds
  <2> HIDE DEF c, step, rf, d, F
  <2>6. F <= c /\ F \in Nat
    BY <1>1, <1>2, <2>3, <2>5 DEF LesserOf
  <2>7. (F - 1) * rf <= step - 1
    <3>1. (F - 1) * rf <= (c - 1) * rf
      BY <1>2, <1>3, <2>5, <2>6, MulMonoInt
    <3>2. ASSUME NEW a \in Nat PROVE (a - 1) * rf = a * rf - rf
      BY <1>3
    <3>3. c * rf \in Nat /\ (F - 1) * rf \in Int
      BY <1>3, <2>5, <2>6, MulNat
    <3> QED
      BY <1>3, <2>4, <2>5, <2>6, <3>1, <3>2, <3>3
  <2>8. ((F - 1) * rf) * v.p <= (step - 1) * v.p
    BY <1>1, <1>3, <2>4, <2>6, <2>7, MulMonoInt
  <2>9. (step - 1) * v.p = step * v.p - v.p /\ step * v.p \in Nat
    BY <1>1, <2>4, MulNat
  <2>10. ((F - 1) * rf) * v.p = (F - 1) * (v.p * rf)
    BY <1>1, <1>3, <2>6
  <2>11. (F - 1) * (v.p * rf) \in Int
    BY <1>1, <1>3, <2>6, MulNat
  <2>12. (F - 1) * (v.p * rf) <= o * pl.p
    <3> HIDE DEF o
    <3> QED
      BY <1>1, <2>4, <2>8, <2>9, <2>10, <2>11
  <2> QED
    BY <2>2, <2>12 DEF F, rf, d, o
<1> QED
  BY <1>4, <1>5

\* It is at least the exact part, for a snapshot less than five rescales old.
LEMMA LeftAtLeast ==
  ASSUME NEW pl \in PoolType, pl.p \in P_FLOOR .. P_ONE,
         NEW v \in SlotType, v.p \in P_FLOOR .. P_ONE,
         v.epoch = pl.epoch, Behind(pl, v) < 5, FoldedOpen(pl, v) # v.open
  PROVE  v.open * pl.p <= FoldedOpen(pl, v) * (v.p * RescaleFactor(Behind(pl, v)))
<1> USE ProductConstants
<1> DEFINE o == v.open
           F == FoldedOpen(pl, v)
           d == Behind(pl, v)
           rf == RescaleFactor(d)
           step == CeilDiv(o * pl.p, v.p)
           c == CeilDiv(step, rf)
<1>1. /\ o \in Nat /\ v.p \in Nat /\ v.p > 0 /\ pl.p \in Nat
      /\ v.scale \in 0 .. ScaleMod - 1 /\ pl.scale \in 0 .. ScaleMod - 1
  BY DEF SlotType, PoolType
<1>2. d \in Nat /\ rf \in Nat /\ rf > 0
  BY <1>1, RescaleFactorPositive DEF Behind
<1>3. F = Unassigned(pl, v)
  BY DEF FoldedOpen
<1>4. F = LesserOf(o, c)
  BY <1>1, <1>3 DEF Unassigned, Behind
<1>5. F = c
  BY <1>4 DEF LesserOf
<1>6. o * pl.p \in Nat /\ step \in Nat /\ o * pl.p <= step * v.p
  BY <1>1, MulNat, CeilDivBounds
<1>7. c \in Nat /\ step <= c * rf
  BY <1>2, <1>6, CeilDivBounds
<1> HIDE DEF o, F, rf, step, c, d
<1>8. step * v.p <= (c * rf) * v.p
  BY <1>1, <1>2, <1>6, <1>7, MulMono, MulNat
<1>9. (c * rf) * v.p = c * (v.p * rf)
  BY <1>1, <1>2, <1>7
<1>10. step * v.p \in Nat /\ c * (v.p * rf) \in Nat
  BY <1>1, <1>2, <1>6, <1>7, MulNat
<1>11. o * pl.p <= c * (v.p * rf)
  BY <1>6, <1>8, <1>9, <1>10
<1> QED
  BY <1>5, <1>11 DEF o, F, rf, d

\* A slot's part of the pool before an exercise against what is left after it.
LEMMA PartsCompare ==
  ASSUME NEW b \in Nat, NEW o \in Nat, NEW p \in Nat, NEW raw \in Nat, NEW u \in Nat,
         NEW rest \in Nat, NEW n \in Nat, b * n <= o * p, p * rest <= raw * u
  PROVE  (b * rest) * n <= (o * raw) * u
<1>1. (b * n) * rest <= (o * p) * rest
  BY MulMono, MulNat
<1>2. (p * rest) * o <= (raw * u) * o
  BY MulMono, MulNat
<1>3. ASSUME NEW i \in Nat, NEW j \in Nat, NEW k \in Nat
      PROVE  (i * j) * k = (i * k) * j /\ (i * j) * k = (k * i) * j
  OBVIOUS
<1>4. /\ (b * n) * rest = (b * rest) * n /\ (o * p) * rest = (p * rest) * o
      /\ (raw * u) * o = (o * raw) * u
  BY <1>3
<1>5. /\ (b * rest) * n \in Nat /\ (p * rest) * o \in Nat /\ (o * raw) * u \in Nat
  BY MulNat
<1> QED
  BY <1>1, <1>2, <1>4, <1>5

\* An exercise leaves a slot no less than its part of the pool, but for one lot
\* unit.
LEMMA ExerciseLeavesPart ==
  ASSUME NEW pl \in PoolType, pl.p \in P_FLOOR .. P_ONE,
         NEW q \in Nat, q > 0, q <= pl.u,
         NEW v \in SlotType, v.p \in P_FLOOR .. P_ONE,
         v.open * pl.u < RescaleFactor(4)
  PROVE  (FoldedOpen(pl, v) - 1) * (pl.u - q)
           <= FoldedOpen(ApplyExercise(pl, q), v) * pl.u
<1> USE ProductConstants
<1> DEFINE o == v.open
           u == pl.u
           rest == pl.u - q
           r == ApplyExercise(pl, q)
           raw == NextProduct(pl, q)
           B == FoldedOpen(pl, v)
           A == FoldedOpen(r, v)
           d == Behind(pl, v)
           e == Behind(r, v)
           n == v.p * RescaleFactor(d)
<1>0. SUFFICES (B - 1) * rest <= A * u
  OBVIOUS
<1>1. /\ o \in Nat /\ v.p \in Nat /\ v.p > 0 /\ pl.p \in Nat
      /\ u \in Nat /\ u > 0 /\ rest \in Nat /\ rest <= u
      /\ v.scale \in 0 .. ScaleMod - 1 /\ pl.scale \in 0 .. ScaleMod - 1
  BY DEF SlotType, PoolType
<1>2. r \in PoolType /\ r.p \in P_FLOOR .. P_ONE /\ r.p \in Nat
  BY ApplyExerciseFacts
<1>3. B \in Nat /\ B <= o /\ A \in Nat /\ A * u \in Nat
  BY <1>1, <1>2, FoldedOpenBounds, MulNat
<1>4. d \in Nat /\ RescaleFactor(d) \in Nat /\ RescaleFactor(d) > 0 /\ n \in Nat /\ n > 0
  <2>1. d \in Nat
    BY <1>1 DEF Behind
  <2>2. RescaleFactor(d) \in Nat /\ RescaleFactor(d) > 0
    BY <2>1, RescaleFactorPositive
  <2> HIDE DEF d
  <2> QED
    BY <1>1, <2>1, <2>2, MulNat, MulPos
<1>5. CASE B <= 1 \/ rest = 0
  <2>1. (B - 1) * rest <= 0
    <3>1. CASE B <= 1
      BY <1>1, <1>3, <3>1
    <3>2. CASE rest = 0
      BY <1>3, <3>2
    <3> QED
      BY <1>5, <3>1, <3>2
  <2>2. (B - 1) * rest \in Int
    BY <1>1, <1>3
  <2> HIDE DEF A, B, u, rest
  <2> QED
    BY <1>3, <2>1, <2>2
<1>6. CASE B > 1 /\ rest > 0
  <2> DEFINE b == B - 1
  <2>1. b \in Nat /\ b < o /\ q < u
    BY <1>1, <1>3, <1>6
  <2>2. v.epoch = pl.epoch /\ d < 5 /\ b * n <= o * pl.p
    <3>1. FoldedOpen(pl, v) > 0
      BY <1>3, <1>6
    <3>2. /\ v.epoch = pl.epoch /\ Behind(pl, v) < 5
          /\ (FoldedOpen(pl, v) - 1) * (v.p * RescaleFactor(Behind(pl, v))) <= v.open * pl.p
      BY <3>1, LeftAtMost, Zenon
    <3> QED
      BY <3>2
  <2>3. /\ r.epoch = pl.epoch
        /\ raw \in Nat /\ pl.p * rest <= raw * u
        /\ raw < P_FLOOR => /\ r.p = raw * P_SCALE
                            /\ r.scale = (pl.scale + 1) % ScaleMod
        /\ ~(raw < P_FLOOR) => r.p = raw /\ r.scale = pl.scale
    BY <2>1, ExerciseProduct
  <2>4. (b * rest) * n <= (o * raw) * u
    <3> HIDE DEF b, n, o, raw, u, rest
    <3> QED
      BY <1>1, <1>4, <2>1, <2>2, <2>3, PartsCompare
  <2>5. b * rest \in Nat /\ (b * rest) * n \in Nat /\ o * raw \in Nat /\ (o * raw) * u \in Nat
    <3> HIDE DEF b, n, o, raw, u, rest
    <3> QED
      BY <1>1, <1>4, <2>1, <2>3, MulNat
  <2>6. CASE A = o
    <3>1. b * rest <= o * rest /\ rest * o <= u * o
      BY <1>1, <2>1, MulMono
    <3>2. o * rest = rest * o /\ o * u = u * o /\ o * rest \in Nat /\ o * u \in Nat
      BY <1>1
    <3> HIDE DEF b, rest, o, u
    <3> QED
      BY <2>5, <2>6, <3>1, <3>2 DEF b
  <2>7. ASSUME o * raw <= A * n PROVE b * rest <= A * u
    <3>1. (o * raw) * u <= (A * n) * u
      BY <1>1, <1>3, <1>4, <2>5, <2>7, MulMono, MulNat
    <3>2. (A * n) * u = (A * u) * n
      BY <1>1, <1>3, <1>4
    <3>3. (b * rest) * n <= (A * u) * n /\ (A * u) * n \in Nat
      <4> HIDE DEF b, rest, o, u, A, n, raw
      <4> QED
        BY <1>3, <1>4, <2>4, <2>5, <3>1, <3>2, MulNat
    <3> HIDE DEF b, rest, o, u, A, n, raw
    <3> QED
      BY <1>3, <1>4, <2>5, <3>3, MulCancelInt
  <2>8. CASE A # o /\ ~(raw < P_FLOOR)
    <3>1. e = d /\ r.epoch = v.epoch /\ r.p = raw
      BY <2>2, <2>3, <2>8 DEF Behind
    <3>2. o * r.p <= A * (v.p * RescaleFactor(e))
      BY <1>2, <2>2, <2>8, <3>1, LeftAtLeast
    <3> HIDE DEF A, o, raw, d, e, u, B, rest
    <3> QED
      BY <2>7, <3>1, <3>2
  <2>9. CASE A # o /\ raw < P_FLOOR
    <3>1. e = d + 1
      <4>1. \/ e = 0 /\ d = ScaleMod - 1
            \/ e = d + 1
        BY <1>1, <2>3, <2>9, BehindStep DEF Behind
      <4>2. d < ScaleMod - 1
        BY <1>1, <1>4, <2>2
      <4> QED
        BY <4>1, <4>2
    <3>2. r.epoch = v.epoch /\ r.p = raw * P_SCALE
      BY <2>2, <2>3, <2>9
    <3>3. CASE e < 5
      <4>1. o * r.p <= A * (v.p * RescaleFactor(e))
        BY <1>2, <2>9, <3>2, <3>3, LeftAtLeast
      <4>2. RescaleFactor(e) = RescaleFactor(d) * P_SCALE
        <5>1. d \in 0 .. 3
          BY <1>4, <3>1, <3>3
        <5>2. ASSUME NEW s \in Nat PROVE /\ 1 * s = s /\ (s * s) * s = (s * s) * s
                                         /\ (s * s) * (s * s) = ((s * s) * s) * s
          OBVIOUS
        <5> HIDE DEF d, e
        <5>3. d = 0 \/ d = 1 \/ d = 2 \/ d = 3
          BY <5>1
        <5> QED
          BY <3>1, <5>2, <5>3 DEF RescaleFactor
      <4> DEFINE f == RescaleFactor(d)
                 sc == P_SCALE
      <4>3. f \in Nat /\ sc \in Nat /\ sc > 0
        BY <1>4
      <4>4. (o * raw) * sc <= (A * n) * sc
        <5>1. ASSUME NEW i \in Nat, NEW j \in Nat, NEW k \in Nat, NEW l \in Nat
              PROVE  i * (j * (k * l)) = (i * (j * k)) * l /\ i * (j * k) = (i * j) * k
          OBVIOUS
        <5>2. A * (v.p * (f * sc)) = (A * (v.p * f)) * sc /\ o * (raw * sc) = (o * raw) * sc
          BY <1>1, <1>3, <2>3, <4>3, <5>1
        <5> HIDE DEF A, o, raw, d, e
        <5> QED
          BY <3>2, <4>1, <4>2, <5>2
      <4>5. A * n \in Int /\ o * raw \in Int
        BY <1>3, <1>4, <2>5, MulNat
      <4>6. o * raw <= A * n
        <5> HIDE DEF A, o, raw, n, sc
        <5> QED
          BY <4>3, <4>4, <4>5, MulCancelInt
      <4> HIDE DEF A, o, raw, n, B, u, rest
      <4> QED
        BY <2>7, <4>6
    <3>4. CASE ~(e < 5)
      <4> DEFINE big == RescaleFactor(4)
                 t == b * rest
      <4>1. d = 4
        BY <1>4, <2>2, <3>1, <3>4
      <4>2. big \in Nat /\ big > 0 /\ n = v.p * big /\ o * u < big
        BY <1>4, <4>1
      <4>3. raw <= v.p
        BY <1>1, <2>3, <2>9
      <4>4. (o * raw) * u <= (o * v.p) * u
        <5>1. raw * o <= v.p * o
          BY <1>1, <2>3, <4>3, MulMono
        <5>2. raw * o = o * raw /\ v.p * o = o * v.p /\ o * v.p \in Nat
          BY <1>1, <2>3
        <5>3. o * raw <= o * v.p
          BY <5>1, <5>2
        <5> HIDE DEF o, raw, u
        <5> QED
          BY <1>1, <2>5, <5>2, <5>3, MulMono
      <4>5. (t * big) * v.p <= (o * u) * v.p
        <5>1. ASSUME NEW i \in Nat, NEW j \in Nat, NEW k \in Nat
              PROVE  i * (j * k) = (i * k) * j /\ (i * j) * k = (i * k) * j
          OBVIOUS
        <5>2. t \in Nat
          BY <2>5
        <5> HIDE DEF t, big, o, u
        <5>3. t * (v.p * big) = (t * big) * v.p /\ (o * v.p) * u = (o * u) * v.p
          BY <1>1, <4>2, <5>1, <5>2
        <5>4. t * n = t * (v.p * big)
          BY <4>2
        <5>5. t * n <= (o * raw) * u
          BY <2>4 DEF t
        <5>6. t * n \in Nat /\ (o * v.p) * u \in Nat /\ (o * raw) * u \in Nat
          BY <1>1, <1>4, <2>5, <5>2, MulNat
        <5> HIDE DEF n, raw
        <5> QED
          BY <4>4, <5>3, <5>4, <5>5, <5>6
      <4>6. t * big <= o * u
        <5>1. t * big \in Int /\ o * u \in Int
          BY <1>1, <2>5, <4>2, MulNat
        <5> HIDE DEF t, big, o, u
        <5> QED
          BY <1>1, <4>5, <5>1, MulCancelInt
      <4>7. t < 1
        <5>1. t * big < 1 * big /\ t \in Nat
          <6>1. t * big \in Nat /\ o * u \in Nat /\ t \in Nat
            BY <1>1, <2>5, <4>2, MulNat
          <6> HIDE DEF t, big, o, u
          <6> QED
            BY <4>2, <4>6, <6>1
        <5> HIDE DEF t, big
        <5> QED
          BY <4>2, <5>1, MulCancel
      <4> HIDE DEF A, u, B, o
      <4> QED
        BY <1>3, <2>5, <4>7
    <3> QED
      BY <3>3, <3>4
  <2> QED
    BY <2>6, <2>8, <2>9
<1> QED
  BY <1>1, <1>3, <1>5, <1>6

\* A slot sold no more lots than the whole series.
LEMMA OpenTimesPool ==
  ASSUME IInv, SharesOK, ~settling, NEW s \in Slots, MaxSold < RescaleFactor(2)
  PROVE  slots[s].open * pool.u < RescaleFactor(4)
<1> USE ProductConstants
<1> DEFINE m == RescaleFactor(2)
           o == slots[s].open
<1>1. /\ slots[s] \in SlotType /\ slots[s].sold = slots[s].assigned + slots[s].open
      /\ slots \in [Slots -> SlotType] /\ pool \in PoolType
      /\ SumFunctionOnSet(SoldOf(slots), Slots) = totalSold
      /\ totalSold <= MaxSold /\ totalSold \in Nat /\ MaxSold \in Nat
      /\ totalSold = totalExercised + pool.u /\ totalExercised \in Nat
  BY BeforeSettlement
<1>2. SoldOf(slots)[s] <= totalSold
  BY <1>1, SlotTerms, SumNat
<1>3. /\ o \in Nat /\ slots[s].assigned \in Nat /\ pool.u \in Nat
      /\ SoldOf(slots)[s] = slots[s].sold
  BY <1>1 DEF SlotType, PoolType, SoldOf
<1>4. o <= MaxSold /\ pool.u <= MaxSold
  BY <1>1, <1>2, <1>3
<1>5. m \in Nat /\ RescaleFactor(4) = m * m
  BY RescaleFactorPositive DEF RescaleFactor
<1> HIDE DEF m, o
<1>6. o * pool.u <= MaxSold * MaxSold
  <2>1. o * pool.u <= MaxSold * pool.u /\ pool.u * MaxSold <= MaxSold * MaxSold
    BY <1>1, <1>3, <1>4, MulMono
  <2>2. MaxSold * pool.u = pool.u * MaxSold /\ o * pool.u \in Nat /\ MaxSold * pool.u \in Nat
        /\ MaxSold * MaxSold \in Nat
    BY <1>1, <1>3
  <2> QED
    BY <2>1, <2>2
<1>7. MaxSold * MaxSold < m * m
  <2>1. MaxSold < m
    BY DEF m
  <2>2. MaxSold * MaxSold <= m * MaxSold /\ MaxSold * m < m * m
    BY <1>1, <1>5, <2>1, MulMono, MulStrict
  <2>3. m * MaxSold = MaxSold * m /\ MaxSold * MaxSold \in Nat /\ m * m \in Nat
        /\ MaxSold * m \in Nat
    BY <1>1, <1>5
  <2> QED
    BY <2>2, <2>3
<1>8. o * pool.u \in Nat /\ MaxSold * MaxSold \in Nat /\ m * m \in Nat
  BY <1>1, <1>3, <1>5
<1> QED
  BY <1>5, <1>6, <1>7, <1>8 DEF o

\* No exercise takes more of a slot than its part of the pool, but for one lot
\* unit, however many folds the slot skipped and whatever was rescaled between.
\* 64 slots of at most MAX_WRITER_LOTS6 = 1e13 lots are fewer than P_SCALE^2.
THEOREM NobodyIsOvercharged ==
  ASSUME MaxSold < RescaleFactor(2)
  PROVE  Spec => NobodyOvercharged
<1>1. IInv /\ SharesOK /\ [Next]_vars => [\A s \in Slots : LeavesItsPart(s)]_vars
  <2> SUFFICES ASSUME IInv, SharesOK, Next, NEW s \in Slots,
                      totalExercised' - totalExercised > 0
               PROVE  LeavesItsPart(s)
    BY DEF LeavesItsPart, vars
  <2>1. PICK q \in 1 .. MaxSold : Exercise(q)
    BY DEF Next, Claim, Sell, BuyBack, Settle, IInv, TypeOK
  <2>2. /\ ~settling /\ q \in Nat /\ q > 0 /\ q <= pool.u
        /\ pool' = ApplyExercise(pool, q) /\ slots' = slots
        /\ totalExercised' = totalExercised + q
    BY <2>1, PoolBounds DEF Exercise
  <2>3. /\ pool \in PoolType /\ pool.p \in P_FLOOR .. P_ONE
        /\ slots[s] \in SlotType /\ totalExercised \in Nat /\ HaveShares(pool, slots)
    BY <2>2, BeforeSettlement
  <2>4. slots[s].p \in P_FLOOR .. P_ONE
    BY <2>3 DEF HaveShares, SharesBound, ShareBound
  <2>5. slots[s].open * pool.u < RescaleFactor(4)
    BY <2>2, OpenTimesPool
  <2>6. (FoldedOpen(pool, slots[s]) - 1) * (pool.u - q)
          <= FoldedOpen(ApplyExercise(pool, q), slots[s]) * pool.u
    BY <2>2, <2>3, <2>4, <2>5, ExerciseLeavesPart
  <2>7. totalExercised' - totalExercised = q
    BY <2>2, <2>3
  <2> QED
    BY <2>2, <2>6, <2>7 DEF LeavesItsPart
<1> QED
  BY <1>1, SharesAlways, PTL DEF Spec, NobodyOvercharged

\* A step that exercises nothing assigns nothing to a slot and takes nothing
\* back from it.
LEMMA ChargedStays ==
  ASSUME IInv, SharesOK, Next, NEW s \in Slots, totalExercised' = totalExercised
  PROVE  Charged(pool', slots'[s]) = Charged(pool, slots[s])
<1>1. /\ pool \in PoolType /\ pool' \in PoolType
      /\ slots \in [Slots -> SlotType] /\ slots' \in [Slots -> SlotType]
      /\ slots[s] \in SlotType /\ slots'[s] \in SlotType /\ totalExercised \in Nat
  <2>1. IInv'
    BY NextIInv
  <2> QED
    BY <2>1 DEF IInv, TypeOK
<1>2. ASSUME NEW i \in Slots, Claim(i)
      PROVE  Charged(pool', slots'[s]) = Charged(pool, slots[s])
  <2>1. pool' = pool /\ ~settling /\ slots[i].sold = 0
    BY <1>2 DEF Claim
  <2>2. slots'[s] = slots[s] \/ (s = i /\ slots'[s] = FreshSlot(pool))
    BY <1>1, <1>2 DEF Claim
  <2>3. FoldedWith(pool, slots[i], FreshSlot(pool), 0)
    BY <2>1, BeforeSettlement, ClaimFolds
  <2> QED
    BY <1>1, <2>1, <2>2, <2>3, ChargedKept
<1>3. ASSUME NEW fill \in [Slots -> 0 .. MaxFill], NEW filled \in 1 .. MaxSold,
             Sell(fill, filled)
      PROVE  Charged(pool', slots'[s]) = Charged(pool, slots[s])
  <2>1. pool'.p = pool.p /\ pool'.scale = pool.scale /\ pool'.epoch = pool.epoch
    BY <1>1, <1>3 DEF Sell, PoolType
  <2>2. slots'[s] = AddOpen(pool, slots[s], fill[s]) \/ slots'[s] = slots[s]
    BY <1>3 DEF Sell
  <2>3. fill[s] \in Nat
    BY PoolBounds
  <2>4. FoldedWith(pool, slots[s], slots'[s], fill[s]) \/ slots'[s] = slots[s]
    BY <1>1, <2>2, <2>3, AddFolds
  <2> QED
    BY <1>1, <2>1, <2>3, <2>4, ChargedKept
<1>4. ASSUME NEW q \in 1 .. MaxSold, Exercise(q) PROVE FALSE
  BY <1>1, <1>4 DEF Exercise
<1>5. ASSUME NEW i \in Slots, NEW n \in 1 .. MaxSold, BuyBack(i, n)
      PROVE  Charged(pool', slots'[s]) = Charged(pool, slots[s])
  <2>1. pool'.p = pool.p /\ pool'.scale = pool.scale /\ pool'.epoch = pool.epoch
    BY <1>1, <1>5 DEF BuyBack, PoolType
  <2>2. CASE s # i
    <3>1. slots'[s] = slots[s] /\ 0 \in Int
      BY <1>1, <1>5, <2>2 DEF BuyBack
    <3> QED
      BY <1>1, <2>1, <3>1, ChargedKept
  <2>3. CASE s = i
    <3>1. ~settling /\ n <= FoldedOpen(pool, slots[s]) /\ n \in Nat
      BY <1>5, <2>3, PoolBounds DEF BuyBack
    <3>2. slots[s].sold = slots[s].assigned + slots[s].open
      BY <3>1, BeforeSettlement
    <3>3. slots'[s] = BurnOpen(pool, slots[s], n)
      BY <1>1, <1>5, <2>3 DEF BuyBack
    <3>4. FoldedWith(pool, slots[s], slots'[s], 0 - n) /\ 0 - n \in Int
      BY <1>1, <3>1, <3>2, <3>3, BurnFolds
    <3> QED
      BY <1>1, <2>1, <3>4, ChargedKept
  <2> QED
    BY <2>2, <2>3
<1>6. ASSUME NEW i \in Slots, Settle(i)
      PROVE  Charged(pool', slots'[s]) = Charged(pool, slots[s])
  <2>1. pool' = pool
    BY <1>6 DEF Settle
  <2>2. slots'[s] = SettledSlot(pool, slots[s]) \/ slots'[s] = slots[s]
    BY <1>1, <1>6 DEF Settle
  <2> QED
    BY <1>1, <2>1, <2>2, SettledIsCharged, Zenon
<1> QED
  BY <1>2, <1>3, <1>4, <1>5, <1>6 DEF Next

\* Purchases, buy-backs, folds and settlements assign nothing to a writer and
\* take nothing back from it, whenever its slot was last folded.
THEOREM OnlyExercisesEverAssign == Spec => OnlyExercisesAssign
<1>1. IInv /\ SharesOK /\ [Next]_vars => [\A s \in Slots : KeepsAssigned(s)]_vars
  <2> SUFFICES ASSUME IInv, SharesOK, Next, NEW s \in Slots,
                      totalExercised' = totalExercised
               PROVE  Charged(pool', slots'[s]) = Charged(pool, slots[s])
    BY DEF KeepsAssigned, AssignedNow, Charged, vars
  <2> QED
    BY ChargedStays
<1> QED
  BY <1>1, SharesAlways, PTL DEF Spec, OnlyExercisesAssign

-----------------------------------------------------------------------------
(* While the scale does not wrap.                                          *)

\* A slot's snapshot is the present product or an earlier one: an earlier
\* epoch, fewer rescales, or a product not fallen as far.
SnapshotBehind(pl, v) ==
  /\ v.epoch <= pl.epoch
  /\ v.epoch = pl.epoch => /\ v.scale <= pl.scale
                           /\ v.scale = pl.scale => pl.p <= v.p

SnapshotsBehind == \A s \in Slots : SnapshotBehind(pool, slots[s])

\* What is still unassigned of a slot is at most any lots that cover its exact
\* part.
LEMMA LeftNoMore ==
  ASSUME NEW pl \in PoolType, pl.p \in P_FLOOR .. P_ONE,
         NEW v \in SlotType, v.p \in P_FLOOR .. P_ONE,
         NEW m \in Nat,
         v.open * pl.p <= m * (v.p * RescaleFactor(Behind(pl, v)))
  PROVE  FoldedOpen(pl, v) <= m
<1> USE ProductConstants
<1> DEFINE o == v.open
           F == FoldedOpen(pl, v)
           d == Behind(pl, v)
           rf == RescaleFactor(d)
           step == CeilDiv(o * pl.p, v.p)
           c == CeilDiv(step, rf)
<1>1. /\ o \in Nat /\ v.p \in Nat /\ v.p > 0 /\ pl.p \in Nat /\ pl.p > 0
      /\ v.scale \in 0 .. ScaleMod - 1 /\ pl.scale \in 0 .. ScaleMod - 1
  BY DEF SlotType, PoolType
<1>2. d \in Nat /\ rf \in Nat /\ rf > 0
  BY <1>1, RescaleFactorPositive DEF Behind
<1>3. CASE SnapshotCurrent(pl, v)
  <2>1. v.epoch = pl.epoch /\ d = 0 /\ v.p = pl.p /\ F = o
    BY <1>1, <1>3 DEF SnapshotCurrent, Behind, FoldedOpen
  <2>2. rf = 1
    BY <2>1 DEF RescaleFactor
  <2>3. o * pl.p <= m * pl.p
    BY <1>1, <2>1, <2>2
  <2> HIDE DEF F, o
  <2>4. o <= m
    BY <1>1, <2>3, MulCancel
  <2> QED
    BY <2>1, <2>4 DEF F
<1>4. CASE v.open = 0
  BY <1>4 DEF FoldedOpen
<1>5. CASE ~SnapshotCurrent(pl, v) /\ v.open # 0
  <2>1. F = Unassigned(pl, v)
    BY <1>5 DEF FoldedOpen
  <2>2. CASE v.epoch # pl.epoch \/ d >= 5
    BY <2>1, <2>2 DEF Unassigned, Behind
  <2>3. CASE v.epoch = pl.epoch /\ d < 5
    <3>1. F = LesserOf(o, c)
      BY <1>1, <2>1, <2>3 DEF Unassigned, Behind
    <3>2. o * pl.p \in Nat /\ step \in Nat /\ step * v.p < o * pl.p + v.p
      BY <1>1, MulNat, CeilDivBounds
    <3>3. c \in Nat /\ c * rf < step + rf
      BY <1>2, <3>2, CeilDivBounds
    <3> HIDE DEF c, step, rf, d, F, o
    <3>4. step <= m * rf
      <4>1. m * (v.p * rf) = (m * rf) * v.p /\ m * rf \in Nat
        BY <1>1, <1>2
      <4>2. o * pl.p <= (m * rf) * v.p
        BY <4>1 DEF o, rf, d
      <4>3. (m * rf) * v.p + v.p = (m * rf + 1) * v.p /\ (m * rf) * v.p \in Nat
        BY <1>1, <4>1
      <4>4. step * v.p < (m * rf + 1) * v.p
        BY <1>1, <3>2, <4>2, <4>3
      <4>5. step < m * rf + 1
        BY <1>1, <3>2, <4>1, <4>4, MulCancel
      <4> QED
        BY <3>2, <4>1, <4>5
    <3>5. c < m + 1
      <4>1. c * rf < (m + 1) * rf
        <5>1. (m + 1) * rf = m * rf + rf /\ m * rf \in Nat /\ c * rf \in Nat
          BY <1>2, <3>3
        <5> QED
          BY <1>2, <3>2, <3>3, <3>4, <5>1
      <4> QED
        BY <1>2, <3>3, <4>1, MulCancel
    <3> QED
      BY <1>1, <3>1, <3>3, <3>5 DEF LesserOf, F
  <2> QED
    BY <1>2, <2>2, <2>3
<1> QED
  BY <1>3, <1>4, <1>5

\* Before the scale wraps, the u8 difference of the scales is their difference.
LEMMA BehindIsDifference ==
  ASSUME NEW pl \in PoolType, NEW v \in SlotType, v.scale <= pl.scale
  PROVE  Behind(pl, v) = pl.scale - v.scale
<1>1. pl.scale - v.scale \in 0 .. ScaleMod - 1 /\ ScaleMod \in Nat /\ ScaleMod > 0
  BY ProductConstants DEF PoolType, SlotType
<1>2. ASSUME NEW i \in 0 .. ScaleMod - 1 PROVE i % ScaleMod = i
  BY <1>1, <1>2
<1> QED
  BY <1>1, <1>2 DEF Behind

\* One rescale more is one factor more, up to the fourth.
LEMMA NextRescaleFactor ==
  ASSUME NEW d \in 0 .. 3
  PROVE  RescaleFactor(d + 1) = RescaleFactor(d) * P_SCALE
<1>1. P_SCALE \in Nat
  BY ProductConstants
<1>2. ASSUME NEW s \in Nat PROVE /\ 1 * s = s /\ (s * s) * s = (s * s) * s
                                 /\ (s * s) * (s * s) = ((s * s) * s) * s
  OBVIOUS
<1>3. d = 0 \/ d = 1 \/ d = 2 \/ d = 3
  OBVIOUS
<1> QED
  BY <1>1, <1>2, <1>3 DEF RescaleFactor

\* After an exercise of a part of the pool, a slot of this epoch has no more
\* than any lots that cover its exact part of the new product.
LEMMA LeftAfterExercise ==
  ASSUME NEW pl \in PoolType, pl.p \in P_FLOOR .. P_ONE,
         NEW q \in Nat, q > 0, q < pl.u,
         pl.scale <= ApplyExercise(pl, q).scale,
         NEW v \in SlotType, v.p \in P_FLOOR .. P_ONE, SnapshotBehind(pl, v),
         v.epoch = pl.epoch,
         NEW m \in Nat,
         v.open * NextProduct(pl, q) <= m * (v.p * RescaleFactor(Behind(pl, v)))
  PROVE  FoldedOpen(ApplyExercise(pl, q), v) <= m
<1> USE ProductConstants
<1> DEFINE o == v.open
           r == ApplyExercise(pl, q)
           raw == NextProduct(pl, q)
           d == Behind(pl, v)
           e == Behind(r, v)
           A == FoldedOpen(r, v)
           f == RescaleFactor(d)
           n == v.p * f
<1>1. /\ o \in Nat /\ v.p \in Nat /\ v.p > 0
      /\ v.scale \in 0 .. ScaleMod - 1 /\ pl.scale \in 0 .. ScaleMod - 1
      /\ v.scale <= pl.scale
  BY DEF SlotType, PoolType, SnapshotBehind
<1>2. r \in PoolType /\ r.p \in P_FLOOR .. P_ONE /\ r.scale \in 0 .. ScaleMod - 1
      /\ pl.scale <= r.scale
  BY ApplyExerciseFacts DEF PoolType
<1>3. /\ r.epoch = pl.epoch
      /\ raw \in Nat
      /\ raw < P_FLOOR => /\ r.p = raw * P_SCALE
                          /\ r.scale = (pl.scale + 1) % ScaleMod
      /\ ~(raw < P_FLOOR) => r.p = raw /\ r.scale = pl.scale
  BY ExerciseProduct
<1>4. d = pl.scale - v.scale /\ e = r.scale - v.scale /\ d \in Nat /\ e \in Nat
  <2>1. v.scale <= r.scale
    BY <1>1, <1>2
  <2>2. Behind(pl, v) = pl.scale - v.scale
    BY <1>1, BehindIsDifference
  <2>3. Behind(r, v) = r.scale - v.scale
    BY <1>2, <2>1, BehindIsDifference, Zenon
  <2> QED
    BY <1>1, <1>2, <2>2, <2>3
<1>5. f \in Nat /\ f > 0
  BY <1>4, RescaleFactorPositive
<1>6. A \in Nat
  BY <1>1, <1>2, FoldedOpenBounds
<1>7. CASE ~(raw < P_FLOOR)
  <2>1. d = e /\ r.p = raw
    BY <1>3, <1>4, <1>7
  <2>2. v.open * r.p <= m * (v.p * RescaleFactor(Behind(r, v)))
    BY <2>1
  <2> QED
    BY <1>2, <2>2, LeftNoMore
<1>8. CASE raw < P_FLOOR
  <2>1. e = d + 1
    <3>1. r.scale = (pl.scale + 1) % ScaleMod
      BY <1>3, <1>8
    <3>2. pl.scale + 1 < ScaleMod \/ pl.scale + 1 = ScaleMod
      BY <1>1
    <3>3. ASSUME NEW i \in 0 .. ScaleMod - 1 PROVE i % ScaleMod = i
      BY <3>3
    <3>4. ScaleMod % ScaleMod = 0
      OBVIOUS
    <3>5. r.scale = pl.scale + 1
      <4> HIDE DEF r
      <4>1. CASE pl.scale + 1 < ScaleMod
        BY <1>1, <3>1, <3>3, <4>1
      <4>2. CASE pl.scale + 1 = ScaleMod
        <5>1. r.scale = 0
          BY <3>1, <3>4, <4>2
        <5> QED
          BY <1>1, <1>2, <4>2, <5>1
      <4> QED
        BY <3>2, <4>1, <4>2
    <3> HIDE DEF r, d, e
    <3> QED
      BY <1>1, <1>4, <3>5
  <2>2. r.p = raw * P_SCALE
    BY <1>3, <1>8
  <2>3. CASE A = 0
    BY <2>3
  <2>4. CASE A > 0
    <3>1. e < 5
      BY <1>2, <2>4, LeftAtMost
    <3>2. RescaleFactor(e) = f * P_SCALE
      <4>1. d \in 0 .. 3
        BY <1>4, <2>1, <3>1
      <4> HIDE DEF d, e
      <4> QED
        BY <2>1, <4>1, NextRescaleFactor DEF f
    <3> DEFINE sc == P_SCALE
    <3>3. sc \in Nat
      OBVIOUS
    <3>4. o * r.p <= m * (v.p * RescaleFactor(e))
      <4>1. (o * raw) * sc <= (m * n) * sc
        <5>1. o * raw \in Nat /\ m * n \in Nat
          BY <1>1, <1>3, <1>5, MulNat
        <5>2. o * raw <= m * n
          OBVIOUS
        <5> HIDE DEF o, raw, n, sc
        <5> QED
          BY <3>3, <5>1, <5>2, MulMono
      <4>2. ASSUME NEW i \in Nat, NEW j \in Nat, NEW k \in Nat, NEW l \in Nat
            PROVE  i * (j * (k * l)) = (i * (j * k)) * l /\ i * (j * k) = (i * j) * k
        OBVIOUS
      <4>3. m * (v.p * (f * sc)) = (m * (v.p * f)) * sc /\ o * (raw * sc) = (o * raw) * sc
        BY <1>1, <1>3, <1>5, <3>3, <4>2
      <4> HIDE DEF o, raw, d, e, f, r
      <4> QED
        BY <2>2, <3>2, <4>1, <4>3
    <3> QED
      BY <1>2, <3>4, LeftNoMore
  <2> QED
    BY <1>6, <2>3, <2>4
<1> QED
  BY <1>7, <1>8

\* A slot's part of the pool after an exercise, with both roundings: lots c
\* that cover its part of the lots left, and lots k that cover a P_FLOOR-th
\* part of what it had, cover its exact part of the rounded product.
LEMMA PartsCover ==
  ASSUME NEW o \in Nat, NEW p \in Nat, NEW raw \in Nat, NEW u \in Nat, u > 0,
         NEW rest \in Nat, NEW n \in Nat, NEW b \in Nat, NEW c \in Nat, NEW k \in Nat,
         NEW floor \in Nat, floor > 0, floor <= p,
         o * p <= b * n, raw * u < p * rest + u,
         b * rest <= c * u, b <= k * floor
  PROVE  o * raw <= (c + k) * n
<1>1. (o * raw) * u <= (o * p) * rest + o * u
  <2>1. o * (raw * u) <= o * (p * rest + u)
    <3>1. raw * u \in Nat /\ p * rest + u \in Nat /\ raw * u <= p * rest + u
      BY MulNat
    <3>2. (raw * u) * o <= (p * rest + u) * o
      BY <3>1, MulMono
    <3>3. (raw * u) * o = o * (raw * u) /\ (p * rest + u) * o = o * (p * rest + u)
      BY <3>1
    <3> QED
      BY <3>2, <3>3
  <2>2. o * (raw * u) = (o * raw) * u /\ o * (p * rest + u) = (o * p) * rest + o * u
    OBVIOUS
  <2> QED
    BY <2>1, <2>2
<1>2. (o * p) * rest <= (c * n) * u
  <2>1. (o * p) * rest <= (b * n) * rest
    BY MulMono, MulNat
  <2>2. (b * rest) * n <= (c * u) * n
    BY MulMono, MulNat
  <2>3. (b * n) * rest = (b * rest) * n /\ (c * u) * n = (c * n) * u
    OBVIOUS
  <2>4. (o * p) * rest \in Nat /\ (b * n) * rest \in Nat /\ (c * n) * u \in Nat
    BY MulNat
  <2> QED
    BY <2>1, <2>2, <2>3, <2>4
<1>3. o <= k * n
  <2>1. floor * o <= p * o /\ floor * o = o * floor /\ p * o = o * p
    BY MulMono
  <2>2. b * n <= (k * floor) * n /\ (k * floor) * n = (k * n) * floor
    BY MulMono, MulNat
  <2>3. /\ o * floor \in Nat /\ o * p \in Nat /\ b * n \in Nat /\ (k * n) * floor \in Nat
        /\ k * n \in Nat
    BY MulNat
  <2>4. o * floor <= (k * n) * floor
    BY <2>1, <2>2, <2>3
  <2> QED
    BY <2>3, <2>4, MulCancelInt
<1>4. o * u <= (k * n) * u
  BY <1>3, MulMono, MulNat
<1>5. (o * raw) * u <= ((c + k) * n) * u
  <2>1. ((c + k) * n) * u = (c * n) * u + (k * n) * u
    OBVIOUS
  <2>2. /\ (o * raw) * u \in Nat /\ (o * p) * rest \in Nat /\ o * u \in Nat
        /\ (c * n) * u \in Nat /\ (k * n) * u \in Nat
    BY MulNat
  <2> QED
    BY <1>1, <1>2, <1>4, <2>1, <2>2
<1>6. o * raw \in Nat /\ (c + k) * n \in Nat
  BY MulNat
<1> QED
  BY <1>5, <1>6, MulCancelInt

\* What a slot has unassigned covers its exact part of the present product,
\* folded or not, when its snapshot is of this epoch and not too old.
LEMMA LeftCovers ==
  ASSUME NEW pl \in PoolType, pl.p \in P_FLOOR .. P_ONE,
         NEW v \in SlotType, v.p \in P_FLOOR .. P_ONE, SnapshotBehind(pl, v),
         v.epoch = pl.epoch, Behind(pl, v) < 5
  PROVE  v.open * pl.p <= FoldedOpen(pl, v) * (v.p * RescaleFactor(Behind(pl, v)))
<1> USE ProductConstants
<1> DEFINE o == v.open
           d == Behind(pl, v)
           rf == RescaleFactor(d)
<1>1. /\ o \in Nat /\ v.p \in Nat /\ v.p > 0 /\ pl.p \in Nat
      /\ v.scale \in 0 .. ScaleMod - 1 /\ pl.scale \in 0 .. ScaleMod - 1
      /\ v.scale <= pl.scale
  BY DEF SlotType, PoolType, SnapshotBehind
<1>2. d = pl.scale - v.scale
  BY <1>1, BehindIsDifference
<1>3. d \in 0 .. 4 /\ rf \in Nat /\ rf > 0
  <2>1. d \in 0 .. 4
    BY <1>1, <1>2
  <2>2. rf \in Nat /\ rf > 0
    BY <2>1, RescaleFactorPositive
  <2> QED
    BY <2>1, <2>2
<1>4. CASE FoldedOpen(pl, v) # v.open
  BY <1>4, LeftAtLeast
<1>5. CASE FoldedOpen(pl, v) = v.open
  <2>1. pl.p <= v.p * rf
    <3>1. CASE d = 0
      <4>1. pl.p <= v.p
        BY <1>1, <1>2, <3>1 DEF SnapshotBehind
      <4>2. rf = 1
        BY <3>1 DEF RescaleFactor
      <4> HIDE DEF rf
      <4> QED
        BY <1>1, <4>1, <4>2
    <3>2. CASE d > 0
      <4>1. rf >= P_SCALE
        <5>1. d - 1 \in 0 .. 3
          BY <1>3, <3>2
        <5>2. RescaleFactor((d - 1) + 1) = RescaleFactor(d - 1) * P_SCALE
          BY <5>1, NextRescaleFactor
        <5>3. RescaleFactor(d - 1) \in Nat /\ RescaleFactor(d - 1) > 0
          BY <5>1, RescaleFactorPositive
        <5>4. (d - 1) + 1 = d
          BY <1>3
        <5>5. P_SCALE \in Nat /\ P_SCALE > 0
          OBVIOUS
        <5>6. RescaleFactor(d - 1) * P_SCALE >= P_SCALE
          BY <5>3, <5>5, MulPos
        <5> HIDE DEF d
        <5> QED
          BY <5>2, <5>4, <5>6
      <4>2. P_FLOOR * P_SCALE <= v.p * P_SCALE /\ P_SCALE * v.p <= rf * v.p
        <5> HIDE DEF rf
        <5> QED
          BY <1>1, <1>3, <4>1, MulMono
      <4>3. /\ v.p * P_SCALE = P_SCALE * v.p /\ rf * v.p = v.p * rf
            /\ P_SCALE * v.p \in Nat /\ v.p * rf \in Nat /\ P_FLOOR * P_SCALE = P_ONE
            /\ P_ONE \in Nat
        <5> HIDE DEF rf
        <5> QED
          BY <1>1, <1>3
      <4> HIDE DEF rf, o, d
      <4> QED
        BY <1>1, <4>2, <4>3
    <3> QED
      BY <1>3, <3>1, <3>2
  <2>2. pl.p * o <= (v.p * rf) * o
    <3> HIDE DEF rf, o
    <3> QED
      BY <1>1, <1>3, <2>1, MulMono, MulNat
  <2>3. pl.p * o = o * pl.p /\ (v.p * rf) * o = o * (v.p * rf)
    <3> HIDE DEF rf, o
    <3> QED
      BY <1>1, <1>3
  <2> QED
    BY <1>5, <2>2, <2>3
<1> QED
  BY <1>4, <1>5

\* An exercise leaves a slot no more than its part of the pool, with one lot
\* unit and a P_FLOOR-th part more at most, and no more than it had.
LEMMA ExerciseLeavesNoMore ==
  ASSUME NEW pl \in PoolType, pl.p \in P_FLOOR .. P_ONE,
         NEW q \in Nat, q > 0, q <= pl.u,
         q < pl.u => pl.scale <= ApplyExercise(pl, q).scale,
         NEW v \in SlotType, v.p \in P_FLOOR .. P_ONE, SnapshotBehind(pl, v)
  PROVE  /\ FoldedOpen(ApplyExercise(pl, q), v)
              <= CeilDiv(FoldedOpen(pl, v) * (pl.u - q), pl.u)
                   + CeilDiv(FoldedOpen(pl, v), P_FLOOR)
         /\ FoldedOpen(ApplyExercise(pl, q), v) <= FoldedOpen(pl, v)
<1> USE ProductConstants
<1> DEFINE o == v.open
           u == pl.u
           rest == pl.u - q
           r == ApplyExercise(pl, q)
           raw == NextProduct(pl, q)
           B == FoldedOpen(pl, v)
           A == FoldedOpen(r, v)
           d == Behind(pl, v)
           n == v.p * RescaleFactor(d)
           C == CeilDiv(B * rest, u)
           K == CeilDiv(B, P_FLOOR)
<1>1. /\ o \in Nat /\ v.p \in Nat /\ v.p > 0 /\ pl.p \in Nat
      /\ u \in Nat /\ u > 0 /\ rest \in Nat /\ rest <= u /\ v.epoch \in Nat
      /\ pl.epoch \in Nat
      /\ v.scale \in 0 .. ScaleMod - 1 /\ pl.scale \in 0 .. ScaleMod - 1
  BY DEF SlotType, PoolType
<1>2. r \in PoolType /\ r.p \in P_FLOOR .. P_ONE /\ r.p \in Nat
  BY ApplyExerciseFacts
<1>3. B \in Nat /\ B <= o /\ A \in Nat
  BY <1>1, <1>2, FoldedOpenBounds
<1>4. /\ B * rest \in Nat /\ C \in Nat /\ B * rest <= C * u
      /\ K \in Nat /\ B <= K * P_FLOOR
  <2>1. B * rest \in Nat
    BY <1>1, <1>3, MulNat
  <2>2. C \in Nat /\ B * rest <= C * u
    BY <1>1, <2>1, CeilDivBounds
  <2>3. K \in Nat /\ B <= K * P_FLOOR
    <3>1. P_FLOOR \in Nat /\ P_FLOOR > 0
      OBVIOUS
    <3> HIDE DEF B
    <3> QED
      BY <1>3, <3>1, CeilDivBounds
  <2> QED
    BY <2>1, <2>2, <2>3
<1>5. CASE v.open = 0
  <2>1. A = 0
    BY <1>5 DEF FoldedOpen
  <2> QED
    BY <1>3, <1>4, <2>1
<1>6. CASE v.epoch # r.epoch
  <2>1. CASE v.open = 0
    BY <1>5, <2>1
  <2>2. CASE v.open # 0
    <3>1. A = 0
      BY <1>6, <2>2 DEF FoldedOpen, SnapshotCurrent, Unassigned
    <3> QED
      BY <1>3, <1>4, <3>1
  <2> QED
    BY <2>1, <2>2
<1>7. CASE v.open # 0 /\ v.epoch = r.epoch
  <2>1. q < u
    <3> SUFFICES ASSUME q = u PROVE FALSE
      BY <1>1
    <3>1. r.epoch = pl.epoch + 1
      BY DEF ApplyExercise, ConsumePool
    <3> HIDE DEF r
    <3> QED
      BY <1>1, <1>7, <3>1 DEF SnapshotBehind
  <2>2. v.epoch = pl.epoch /\ raw \in Nat
    BY <1>7, <2>1, ExerciseProduct
  <2>3. CASE d < 5
    <3>1. o * pl.p <= B * n
      BY <2>2, <2>3, LeftCovers
    <3>2. raw * u < pl.p * rest + u /\ raw <= pl.p
      <4>1. pl.p * rest \in Nat
        BY <1>1, MulNat
      <4>2. raw * u < pl.p * rest + u
        BY <1>1, <4>1, CeilDivBounds DEF NextProduct
      <4>3. raw <= pl.p
        BY <1>1, <2>1, NextProductBounds
      <4> QED
        BY <4>2, <4>3
    <3>3. n \in Nat
      <4>1. d \in Nat
        BY <1>1 DEF Behind
      <4>2. RescaleFactor(d) \in Nat
        BY <4>1, RescaleFactorPositive
      <4> HIDE DEF d
      <4> QED
        BY <1>1, <4>2, MulNat
    <3>4. o * raw <= (C + K) * n
      <4> HIDE DEF o, raw, C, K, n, B, u, rest
      <4> QED
        BY <1>1, <1>3, <1>4, <2>2, <3>1, <3>2, <3>3, PartsCover
    <3>5. o * raw <= B * n
      <4>1. raw * o <= pl.p * o
        BY <1>1, <2>2, <3>2, MulMono
      <4>2. raw * o = o * raw /\ pl.p * o = o * pl.p
        BY <1>1, <2>2
      <4>3. o * raw \in Nat /\ o * pl.p \in Nat /\ B * n \in Nat
        BY <1>1, <1>3, <2>2, <3>3, MulNat
      <4> HIDE DEF o, raw, B, n
      <4> QED
        BY <3>1, <4>1, <4>2, <4>3
    <3>6. C + K \in Nat
      BY <1>4
    <3>7. ASSUME NEW m \in Nat, o * raw <= m * n PROVE A <= m
      <4> SUFFICES FoldedOpen(ApplyExercise(pl, q), v) <= m
        OBVIOUS
      <4>1. v.open * NextProduct(pl, q) <= m * (v.p * RescaleFactor(Behind(pl, v)))
        BY <3>7
      <4>2. pl.scale <= ApplyExercise(pl, q).scale /\ q < pl.u
        BY <2>1
      <4> HIDE DEF r, A, B, C, K, n, d, raw, o
      <4> QED
        BY <2>2, <4>1, <4>2, LeftAfterExercise
    <3> HIDE DEF A, B, C, K, n, raw, o
    <3>8. A <= C + K /\ A <= B
      BY <1>3, <3>4, <3>5, <3>6, <3>7
    <3> QED
      BY <3>8 DEF A, B, C, K
  <2>4. CASE d >= 5
    <3>1. Behind(r, v) >= d
      <4>1. pl.scale <= r.scale
        BY <2>1
      <4>2. v.scale <= pl.scale
        BY <2>2 DEF SnapshotBehind
      <4>3. r.scale \in 0 .. ScaleMod - 1
        BY <1>2 DEF PoolType
      <4> HIDE DEF r
      <4>4. v.scale <= r.scale
        BY <1>1, <4>1, <4>2, <4>3
      <4>5. Behind(r, v) = r.scale - v.scale
        BY <1>2, <4>4, BehindIsDifference
      <4>6. d = pl.scale - v.scale
        BY <4>2, BehindIsDifference
      <4> QED
        BY <1>1, <4>1, <4>3, <4>5, <4>6
    <3>2. A = 0
      <4> SUFFICES ASSUME A > 0 PROVE FALSE
        BY <1>3
      <4>1. Behind(r, v) < 5
        BY <1>2, LeftAtMost
      <4>2. d \in Int /\ Behind(r, v) \in Int
        BY <1>1, <1>2 DEF Behind, PoolType
      <4> HIDE DEF d, r
      <4> QED
        BY <2>4, <3>1, <4>1, <4>2
    <3> QED
      BY <1>3, <1>4, <3>2
  <2>5. d \in Int
    BY <1>1 DEF Behind
  <2> QED
    BY <2>3, <2>4, <2>5
<1> QED
  BY <1>5, <1>6, <1>7

\* Folding a slot brings its snapshot to the present.
LEMMA FoldedBehind ==
  ASSUME NEW pl \in PoolType, NEW a, NEW b, NEW d, FoldedWith(pl, a, b, d)
  PROVE  SnapshotBehind(pl, b)
BY DEF FoldedWith, SnapshotBehind, PoolType

\* Snapshots stay behind while the scale does not wrap.
LEMMA UnwrappedBehind ==
  ASSUME IInv, SharesOK, SnapshotsBehind, UnwrappedNext
  PROVE  SnapshotsBehind'
<1> SUFFICES ASSUME NEW s \in Slots PROVE SnapshotBehind(pool', slots'[s])
  BY DEF SnapshotsBehind
<1>1. /\ pool \in PoolType /\ pool' \in PoolType
      /\ slots \in [Slots -> SlotType] /\ slots' \in [Slots -> SlotType]
      /\ slots[s] \in SlotType /\ slots'[s] \in SlotType
      /\ SnapshotBehind(pool, slots[s])
  <2>1. IInv'
    BY NextIInv DEF UnwrappedNext
  <2> QED
    BY <2>1 DEF IInv, TypeOK, SnapshotsBehind
<1>2. ASSUME pool'.p = pool.p, pool'.scale = pool.scale, pool'.epoch = pool.epoch,
             NEW v, SnapshotBehind(pool, v)
      PROVE  SnapshotBehind(pool', v)
  BY <1>2 DEF SnapshotBehind
<1>3. ASSUME NEW i \in Slots, Claim(i) PROVE SnapshotBehind(pool', slots'[s])
  <2>1. pool' = pool
    BY <1>3 DEF Claim
  <2>2. slots'[s] = FreshSlot(pool) \/ slots'[s] = slots[s]
    BY <1>1, <1>3 DEF Claim
  <2>3. SnapshotBehind(pool, FreshSlot(pool))
    BY <1>1 DEF FreshSlot, SnapshotBehind, PoolType
  <2> QED
    BY <1>1, <2>1, <2>2, <2>3
<1>4. ASSUME NEW fill \in [Slots -> 0 .. MaxFill], NEW filled \in 1 .. MaxSold,
             Sell(fill, filled)
      PROVE  SnapshotBehind(pool', slots'[s])
  <2>1. pool'.p = pool.p /\ pool'.scale = pool.scale /\ pool'.epoch = pool.epoch
    BY <1>1, <1>4 DEF Sell, PoolType
  <2>2. slots'[s] = AddOpen(pool, slots[s], fill[s]) \/ slots'[s] = slots[s]
    BY <1>4 DEF Sell
  <2>3. fill[s] \in Nat
    BY PoolBounds
  <2>4. SnapshotBehind(pool, AddOpen(pool, slots[s], fill[s]))
    BY <1>1, <2>3, AddFolds, FoldedBehind
  <2>5. SnapshotBehind(pool, slots'[s])
    BY <1>1, <2>2, <2>4
  <2> QED
    BY <1>2, <2>1, <2>5
<1>5. ASSUME NEW q \in 1 .. MaxSold, Exercise(q)
      PROVE  SnapshotBehind(pool', slots'[s])
  <2>1. /\ q \in Nat /\ q > 0 /\ q <= pool.u /\ ~settling
        /\ pool' = ApplyExercise(pool, q) /\ slots' = slots
    BY <1>5, PoolBounds DEF Exercise
  <2>2. /\ pool.p \in P_FLOOR .. P_ONE /\ P_FLOOR \in Nat /\ P_ONE \in Nat /\ pool.u \in Nat
        /\ slots[s].epoch \in Nat /\ slots[s].scale \in Nat /\ slots[s].p \in Nat
        /\ pool.epoch \in Nat /\ pool.scale \in Nat /\ pool'.scale \in Nat
    BY <1>1, <2>1, BeforeSettlement, ProductConstants DEF PoolType, SlotType
  <2>3. CASE q = pool.u
    <3>1. pool'.epoch = pool.epoch + 1
      BY <2>1, <2>3 DEF ApplyExercise, ConsumePool
    <3> QED
      BY <1>1, <2>1, <2>2, <3>1 DEF SnapshotBehind
  <2>4. CASE q < pool.u
    <3> DEFINE raw == NextProduct(pool, q)
    <3>1. /\ pool'.epoch = pool.epoch
          /\ raw < P_FLOOR => pool'.scale = (pool.scale + 1) % ScaleMod
          /\ ~(raw < P_FLOOR) => pool'.p = raw /\ pool'.scale = pool.scale
      BY <1>1, <2>1, <2>2, <2>4, ExerciseProduct
    <3>2. pool'.scale >= pool.scale
      BY <3>1 DEF UnwrappedNext
    <3>3. raw \in 1 .. pool.p
      <4>1. pool.p > 0
        BY <2>2, ProductConstants
      <4> QED
        BY <1>1, <2>1, <2>4, <4>1, NextProductBounds
    <3>4. CASE raw < P_FLOOR
      <4>1. pool'.scale # pool.scale
        <5>1. ASSUME NEW M \in Nat, M > 5, NEW x \in 0 .. M - 1 PROVE (x + 1) % M # x
          <6>1. CASE x + 1 < M
            <7>1. ASSUME NEW i \in 0 .. M - 1 PROVE i % M = i
              BY <5>1, <7>1
            <7> QED
              BY <5>1, <6>1, <7>1
          <6>2. CASE x + 1 = M
            BY <5>1, <6>2
          <6> QED
            BY <5>1, <6>1, <6>2
        <5>2. ScaleMod \in Nat /\ ScaleMod > 5 /\ pool.scale \in 0 .. ScaleMod - 1
          BY <1>1, ProductConstants DEF PoolType
        <5> QED
          BY <3>1, <3>4, <5>1, <5>2
      <4>2. pool'.scale > pool.scale
        BY <2>2, <3>2, <4>1
      <4> QED
        BY <1>1, <2>1, <2>2, <3>1, <4>2 DEF SnapshotBehind
    <3>5. CASE ~(raw < P_FLOOR)
      <4> HIDE DEF raw
      <4>1. pool'.p <= pool.p /\ pool'.p \in Nat /\ pool.p \in Nat
        BY <2>2, <3>1, <3>3, <3>5
      <4> QED
        BY <1>1, <2>1, <2>2, <3>1, <3>5, <4>1 DEF SnapshotBehind
    <3> QED
      BY <3>4, <3>5
  <2> QED
    BY <2>1, <2>2, <2>3, <2>4
<1>6. ASSUME NEW i \in Slots, NEW n \in 1 .. MaxSold, BuyBack(i, n)
      PROVE  SnapshotBehind(pool', slots'[s])
  <2>1. pool'.p = pool.p /\ pool'.scale = pool.scale /\ pool'.epoch = pool.epoch
    BY <1>1, <1>6 DEF BuyBack, PoolType
  <2>2. SnapshotBehind(pool, slots'[s])
    <3>1. CASE s # i
      BY <1>1, <1>6, <3>1 DEF BuyBack
    <3>2. CASE s = i
      <4>1. ~settling /\ n <= FoldedOpen(pool, slots[s]) /\ n \in Nat
        BY <1>6, <3>2, PoolBounds DEF BuyBack
      <4>2. slots[s].sold = slots[s].assigned + slots[s].open
        BY <4>1, BeforeSettlement
      <4>3. slots'[s] = BurnOpen(pool, slots[s], n)
        BY <1>1, <1>6, <3>2 DEF BuyBack
      <4>4. FoldedWith(pool, slots[s], slots'[s], 0 - n)
        BY <1>1, <4>1, <4>2, <4>3, BurnFolds
      <4> QED
        BY <1>1, <4>4, FoldedBehind
    <3> QED
      BY <3>1, <3>2
  <2> QED
    BY <1>2, <2>1, <2>2
<1>7. ASSUME NEW i \in Slots, Settle(i) PROVE SnapshotBehind(pool', slots'[s])
  <2>1. pool' = pool
    BY <1>7 DEF Settle
  <2>2. slots'[s] = SettledSlot(pool, slots[s]) \/ slots'[s] = slots[s]
    BY <1>1, <1>7 DEF Settle
  <2>3. SnapshotBehind(pool, SettledSlot(pool, slots[s]))
    <3> DEFINE f == Fold(pool, slots[s])
    <3>1. f \in SlotType /\ SnapshotBehind(pool, f)
      BY <1>1, FoldIsFolded, FoldedBehind
    <3>2. /\ SettledSlot(pool, slots[s]) = [f EXCEPT !.open = 0, !.settled = TRUE]
      BY DEF SettledSlot
    <3> HIDE DEF f
    <3> QED
      BY <3>1, <3>2 DEF SnapshotBehind, SlotType
  <2> QED
    BY <1>1, <2>1, <2>2, <2>3
<1> QED
  BY <1>3, <1>4, <1>5, <1>6, <1>7 DEF UnwrappedNext, Next

\* The snapshots are behind in every history in which the scale does not wrap.
LEMMA BehindAlways == UnwrappedSpec => [](IInv /\ SharesOK /\ SnapshotsBehind)
<1>1. UnwrappedSpec => Spec
  <2>1. UnwrappedNext => Next
    BY DEF UnwrappedNext
  <2> QED
    BY <2>1, PTL DEF UnwrappedSpec, Spec
<1>2. Init => SnapshotsBehind
  <2>1. FreshPool \in PoolType
    BY ProductConstants DEF FreshPool, PoolType
  <2> QED
    BY <2>1 DEF Init, SnapshotsBehind, SnapshotBehind, FreshSlot, PoolType
<1>3. IInv /\ SharesOK /\ SnapshotsBehind /\ [UnwrappedNext]_vars => SnapshotsBehind'
  <2>1. SnapshotsBehind /\ UNCHANGED vars => SnapshotsBehind'
    BY DEF SnapshotsBehind, vars
  <2> QED
    BY <2>1, UnwrappedBehind
<1> QED
  BY <1>1, <1>2, <1>3, SharesAlways, PTL DEF UnwrappedSpec

\* What an exercise does to a slot, in a history in which the scale does not wrap.
LEMMA ExerciseOfSlot ==
  ASSUME IInv, SharesOK, SnapshotsBehind, UnwrappedNext, NEW s \in Slots,
         totalExercised' # totalExercised
  PROVE  /\ LeavesNoMore(s)
         /\ totalExercised' - totalExercised > 0
         /\ slots' = slots
         /\ FoldedOpen(pool, slots[s])' <= FoldedOpen(pool, slots[s])
<1>1. PICK q \in 1 .. MaxSold : Exercise(q)
  BY DEF UnwrappedNext, Next, Claim, Sell, BuyBack, Settle
<1>2. /\ ~settling /\ q \in Nat /\ q > 0 /\ q <= pool.u
      /\ pool' = ApplyExercise(pool, q) /\ slots' = slots
      /\ totalExercised' = totalExercised + q
  BY <1>1, PoolBounds DEF Exercise
<1>3. /\ pool \in PoolType /\ pool.p \in P_FLOOR .. P_ONE
      /\ slots[s] \in SlotType /\ totalExercised \in Nat /\ HaveShares(pool, slots)
  BY <1>2, BeforeSettlement
<1>4. slots[s].p \in P_FLOOR .. P_ONE /\ SnapshotBehind(pool, slots[s])
  BY <1>3 DEF HaveShares, SharesBound, ShareBound, SnapshotsBehind
<1>5. q < pool.u => pool.scale <= ApplyExercise(pool, q).scale
  <2>1. ASSUME q < pool.u PROVE ApplyExercise(pool, q).epoch = pool.epoch
    BY <1>2, <1>3, <2>1, ExerciseProduct
  <2>2. pool'.scale \in Int /\ pool.scale \in Int
    <3>1. IInv'
      BY NextIInv DEF UnwrappedNext
    <3> QED
      BY <1>3, <3>1 DEF IInv, TypeOK, PoolType
  <2> QED
    BY <1>2, <2>1, <2>2 DEF UnwrappedNext
<1>6. /\ FoldedOpen(ApplyExercise(pool, q), slots[s])
            <= CeilDiv(FoldedOpen(pool, slots[s]) * (pool.u - q), pool.u)
                 + CeilDiv(FoldedOpen(pool, slots[s]), P_FLOOR)
      /\ FoldedOpen(ApplyExercise(pool, q), slots[s]) <= FoldedOpen(pool, slots[s])
  BY <1>2, <1>3, <1>4, <1>5, ExerciseLeavesNoMore
<1>7. totalExercised' - totalExercised = q
  BY <1>2, <1>3
<1> QED
  BY <1>2, <1>6, <1>7 DEF LeavesNoMore

\* Every exercise leaves every writer its part of the unassigned lots to within
\* a lot unit and a P_FLOOR-th part, above and below, whatever it skipped to
\* fold before.  The u8 scale must not wrap: after 256 rescales between two
\* exercises that consume the pool, a slot that was never folded counts as new.
\* 64 slots of at most MAX_WRITER_LOTS6 = 1e13 lots are fewer than P_SCALE^2.
THEOREM AssignmentIsFair ==
  ASSUME MaxSold < RescaleFactor(2)
  PROVE  UnwrappedSpec => FairAssignment
<1>1. UnwrappedSpec => Spec
  <2>1. UnwrappedNext => Next
    BY DEF UnwrappedNext
  <2> QED
    BY <2>1, PTL DEF UnwrappedSpec, Spec
<1>2. Spec => NobodyOvercharged
  BY NobodyIsOvercharged
<1> DEFINE Fair == \A s \in Slots : LeavesItsPart(s) /\ LeavesNoMore(s)
           Part == \A s \in Slots : LeavesItsPart(s)
<1>3. IInv /\ SharesOK /\ SnapshotsBehind /\ [UnwrappedNext]_vars /\ [Part]_vars
        => [Fair]_vars
  <2> SUFFICES ASSUME IInv, SharesOK, SnapshotsBehind, UnwrappedNext, Part,
                      NEW s \in Slots
               PROVE  LeavesNoMore(s)
    BY DEF vars
  <2>1. totalExercised \in Nat
    BY DEF IInv, TypeOK
  <2>2. CASE totalExercised' = totalExercised
    BY <2>1, <2>2 DEF LeavesNoMore
  <2>3. CASE totalExercised' # totalExercised
    BY <2>3, ExerciseOfSlot
  <2> QED
    BY <2>2, <2>3
<1>4. Spec => [][Part]_vars
  BY <1>2 DEF NobodyOvercharged
<1> HIDE DEF Fair, Part
<1>5. UnwrappedSpec => [][Fair]_vars
  BY <1>1, <1>3, <1>4, BehindAlways, PTL DEF UnwrappedSpec
<1> QED
  BY <1>5 DEF Fair, FairAssignment

\* Assigned lots are never taken back from a writer: not by a purchase, a
\* buy-back, a fold or a settlement, which change nothing, and not by an
\* exercise, which only adds.  Needs the u8 scale not to wrap, as above.
THEOREM AssignmentIsFinal == UnwrappedSpec => AssignmentFinal
<1>1. UnwrappedSpec => Spec
  <2>1. UnwrappedNext => Next
    BY DEF UnwrappedNext
  <2> QED
    BY <2>1, PTL DEF UnwrappedSpec, Spec
<1> DEFINE Keeps == \A s \in Slots : KeepsAssigned(s)
           Final == \A s \in Slots :
                      /\ slots[s].sold > 0 => AssignedNow(s)' >= AssignedNow(s)
                      /\ KeepsAssigned(s)
<1>2. Spec => [][Keeps]_vars
  BY OnlyExercisesEverAssign DEF OnlyExercisesAssign
<1>3. IInv /\ SharesOK /\ SnapshotsBehind /\ [UnwrappedNext]_vars /\ [Keeps]_vars
        => [Final]_vars
  <2> SUFFICES ASSUME IInv, SharesOK, SnapshotsBehind, UnwrappedNext, Keeps,
                      NEW s \in Slots, slots[s].sold > 0
               PROVE  AssignedNow(s)' >= AssignedNow(s)
    BY DEF vars
  <2>1. /\ pool \in PoolType /\ pool' \in PoolType
        /\ slots[s] \in SlotType /\ slots'[s] \in SlotType
    <3>1. IInv'
      BY NextIInv DEF UnwrappedNext
    <3> QED
      BY <3>1 DEF IInv, TypeOK
  <2> DEFINE B == FoldedOpen(pool, slots[s])
             A == FoldedOpen(pool', slots'[s])
  <2>2. B \in Nat /\ A \in Nat /\ slots[s].assigned \in Nat /\ slots[s].open \in Nat
    <3>1. /\ slots[s].open \in Nat /\ slots[s].assigned \in Nat
          /\ slots[s].p \in Nat /\ slots[s].scale \in Nat
          /\ slots'[s].open \in Nat /\ slots'[s].p \in Nat /\ slots'[s].scale \in Nat
      BY <2>1, ProductConstants DEF SlotType
    <3>2. B \in 0 .. slots[s].open /\ A \in 0 .. slots'[s].open
      BY <2>1, <3>1, FoldedOpenBounds
    <3> QED
      BY <3>1, <3>2
  <2>3. /\ AssignedNow(s) = slots[s].assigned + slots[s].open - B
        /\ AssignedNow(s)' = slots'[s].assigned + slots'[s].open - A
    BY DEF AssignedNow
  <2>4. CASE totalExercised' = totalExercised
    <3>1. AssignedNow(s)' = AssignedNow(s)
      BY <2>4 DEF KeepsAssigned
    <3> HIDE DEF A, B
    <3> QED
      BY <2>2, <2>3, <3>1
  <2>5. CASE totalExercised' # totalExercised
    <3>1. slots' = slots /\ A <= B
      BY <2>5, ExerciseOfSlot
    <3> HIDE DEF A, B
    <3> QED
      BY <2>2, <2>3, <3>1
  <2> QED
    BY <2>4, <2>5
<1> HIDE DEF Keeps, Final
<1>4. UnwrappedSpec => [][Final]_vars
  BY <1>1, <1>2, <1>3, BehindAlways, PTL DEF UnwrappedSpec
<1> QED
  BY <1>4 DEF Final, AssignmentFinal

-----------------------------------------------------------------------------
(* What rounding adds up to.                                               *)

\* What is assigned to the writers together.
AssignedTogether == SumFunctionOnSet(ChargedOf(pool, slots), Slots)

\* The lots an exercise can fail to assign, of slots of at most m open lots.
Rounding(m) ==
  IF totalExercised' = totalExercised THEN 0
  ELSE Cardinality(Slots) * (1 + CeilDiv(m, P_FLOOR))

\* What a step exercises it assigns to the writers together, but for that.
AssignsWhatIsExercised ==
  \A m \in Nat :
    (\A s \in Slots : slots[s].open <= m) =>
      totalExercised' - totalExercised
        <= AssignedTogether' - AssignedTogether + Rounding(m)

\* A larger amount needs no fewer parts.
LEMMA CeilDivMonotone ==
  ASSUME NEW a \in Nat, NEW b \in Nat, a <= b, NEW d \in Nat, d > 0
  PROVE  /\ CeilDiv(a, d) \in Nat /\ CeilDiv(b, d) \in Nat
         /\ CeilDiv(a, d) <= CeilDiv(b, d)
<1> DEFINE k == CeilDiv(a, d)
           l == CeilDiv(b, d)
<1>1. k \in Nat /\ k * d < a + d /\ l \in Nat /\ b <= l * d
  BY CeilDivBounds
<1> HIDE DEF k, l
<1>2. (l + 1) * d = l * d + d /\ k * d \in Nat /\ l * d \in Nat
  BY <1>1
<1>3. k * d < (l + 1) * d
  BY <1>1, <1>2
<1>4. k < l + 1
  BY <1>1, <1>3, MulCancel
<1> QED
  BY <1>1, <1>4 DEF k, l

\* A slot that is left no more than its part, with one lot and k more, of the
\* b lots it had in a pool of u is assigned its part of the q lots, but for
\* one lot and k.
LEMMA PartAssigned ==
  ASSUME NEW b \in Nat, NEW a \in Nat, NEW u \in Nat, u > 0, NEW q \in Nat, q <= u,
         NEW c \in Nat, c * u < b * (u - q) + u, NEW k \in Nat, a <= c + k
  PROVE  b * q <= ((b - a) + (1 + k)) * u
<1>1. a * u <= c * u + k * u
  <2>1. a * u <= (c + k) * u
    BY MulMono
  <2>2. (c + k) * u = c * u + k * u
    OBVIOUS
  <2> QED
    BY <2>1, <2>2
<1>2. b * (u - q) = b * u - b * q
  OBVIOUS
<1>3. ((b - a) + (1 + k)) * u = b * u - a * u + u + k * u
  OBVIOUS
<1>4. /\ a * u \in Nat /\ c * u \in Nat /\ k * u \in Nat /\ b * u \in Nat
      /\ b * q \in Nat
  BY MulNat
<1> QED
  BY <1>1, <1>2, <1>3, <1>4

\* If every slot is assigned its part of q lots but for c, and the slots have
\* at least the u lots of the pool, they are together assigned q but for c each.
LEMMA PartsAddUp ==
  ASSUME NEW S, IsFiniteSet(S), NEW b, IntTerms(b, S), NEW g, IntTerms(g, S),
         NEW c \in Nat, NEW u \in Nat, u > 0, NEW q \in Nat,
         \A x \in S : b[x] * q <= (g[x] + c) * u,
         u <= SumFunctionOnSet(b, S)
  PROVE  q <= SumFunctionOnSet(g, S) + Cardinality(S) * c
<1> DEFINE con == [x \in S |-> c]
           h == [x \in S |-> g[x] + con[x]]
           left == [x \in S |-> b[x] * q]
           right == [x \in S |-> h[x] * u]
           N == Cardinality(S)
<1>1. IntTerms(con, S) /\ \A x \in S : con[x] = c
  BY DEF IntTerms
<1>2. N \in Nat /\ SumFunctionOnSet(con, S) = N * c
  <2> HIDE DEF con
  <2> QED
    BY <1>1, SumOfConstant
<1>3. SumFunctionOnSet(h, S) = SumFunctionOnSet(g, S) + SumFunctionOnSet(con, S)
  <2>1. \A x \in S : h[x] = g[x] + con[x]
    OBVIOUS
  <2> HIDE DEF h, con
  <2> QED
    BY <1>1, <2>1, SumPlus
<1>4. IntTerms(h, S)
  BY <1>1 DEF IntTerms
<1>5. IntTerms(left, S) /\ SumFunctionOnSet(left, S) = SumFunctionOnSet(b, S) * q
  <2>1. \A x \in S : left[x] = b[x] * q
    OBVIOUS
  <2> HIDE DEF left
  <2> QED
    BY <2>1, SumTimes
<1>6. IntTerms(right, S) /\ SumFunctionOnSet(right, S) = SumFunctionOnSet(h, S) * u
  <2>1. \A x \in S : right[x] = h[x] * u
    OBVIOUS
  <2> HIDE DEF right, h
  <2> QED
    BY <1>4, <2>1, SumTimes
<1>7. \A x \in S : left[x] <= right[x]
  <2> SUFFICES ASSUME NEW x \in S PROVE left[x] <= right[x]
    OBVIOUS
  <2>1. left[x] = b[x] * q /\ right[x] = h[x] * u /\ h[x] = g[x] + con[x] /\ con[x] = c
    OBVIOUS
  <2> HIDE DEF left, right, h, con
  <2> QED
    BY <2>1
<1> DEFINE B == SumFunctionOnSet(b, S)
           G == SumFunctionOnSet(g, S)
<1>8. B \in Int /\ G \in Int
  BY SumInt
<1> HIDE DEF con, h, left, right, N
<1>9. B * q <= (G + N * c) * u
  BY <1>2, <1>3, <1>5, <1>6, <1>7, SumMonotone
<1> HIDE DEF B, G
<1>10. q * u <= B * q
  <2>1. u * q <= B * q
    BY <1>8, MulMonoInt DEF B
  <2>2. u * q = q * u
    OBVIOUS
  <2> QED
    BY <2>1, <2>2
<1>11. G + N * c \in Int /\ q * u \in Int /\ B * q \in Int /\ (G + N * c) * u \in Int
  BY <1>2, <1>8
<1>12. q * u <= (G + N * c) * u
  BY <1>9, <1>10, <1>11
<1>13. q <= G + N * c
  BY <1>11, <1>12, MulCancelInt
<1> QED
  BY <1>13 DEF G, N

\* What an exercise assigns to one slot.
LEMMA ExerciseAssignsSlot ==
  ASSUME IInv, SharesOK, SnapshotsBehind, UnwrappedNext, NEW s \in Slots,
         totalExercised' # totalExercised,
         NEW m \in Nat, slots[s].open <= m
  PROVE  LeftOf(pool, slots)[s] * (totalExercised' - totalExercised)
           <= ((ChargedOf(pool', slots')[s] - ChargedOf(pool, slots)[s])
                 + (1 + CeilDiv(m, P_FLOOR))) * pool.u
<1> DEFINE q == totalExercised' - totalExercised
           u == pool.u
           B == FoldedOpen(pool, slots[s])
           A == FoldedOpen(pool', slots'[s])
           C == CeilDiv(B * (u - q), u)
           K == CeilDiv(m, P_FLOOR)
<1>1. /\ LeavesNoMore(s) /\ q > 0 /\ slots' = slots
  BY ExerciseOfSlot
<1>2. PICK e \in 1 .. MaxSold : Exercise(e)
  BY DEF UnwrappedNext, Next, Claim, Sell, BuyBack, Settle
<1>3. /\ ~settling /\ e \in Nat /\ e <= pool.u /\ totalExercised' = totalExercised + e
  BY <1>2, PoolBounds DEF Exercise
<1>4. /\ pool \in PoolType /\ pool' \in PoolType /\ slots[s] \in SlotType
      /\ totalExercised \in Nat /\ u \in Nat
  <2>1. IInv'
    BY NextIInv DEF UnwrappedNext
  <2> QED
    BY <2>1 DEF IInv, TypeOK, PoolType
<1>5. q \in Nat /\ q <= u /\ u > 0
  <2>1. q = e
    BY <1>3, <1>4
  <2> QED
    BY <1>1, <1>3, <1>4, <2>1
<1>6. /\ slots[s].open \in Nat /\ slots[s].assigned \in Nat
      /\ B \in Nat /\ A \in Nat /\ B <= m
  <2>1. /\ slots[s].open \in Nat /\ slots[s].assigned \in Nat
        /\ slots[s].p \in Nat /\ slots[s].scale \in Nat
    BY <1>4, ProductConstants DEF SlotType
  <2>2. B \in 0 .. slots[s].open /\ A \in 0 .. slots[s].open
    BY <1>1, <1>4, <2>1, FoldedOpenBounds
  <2> HIDE DEF A, B
  <2> QED
    BY <2>1, <2>2
<1>7. /\ LeftOf(pool, slots)[s] = B
      /\ ChargedOf(pool', slots')[s] - ChargedOf(pool, slots)[s] = B - A
  <2>1. /\ ChargedOf(pool', slots')[s] = slots[s].assigned + slots[s].open - A
        /\ ChargedOf(pool, slots)[s] = slots[s].assigned + slots[s].open - B
        /\ LeftOf(pool, slots)[s] = B
    BY <1>1 DEF ChargedOf, LeftOf
  <2> HIDE DEF A, B
  <2> QED
    BY <1>6, <2>1
<1>8. A <= C + CeilDiv(B, P_FLOOR)
  BY <1>1 DEF LeavesNoMore
<1>9. C \in Nat /\ C * u < B * (u - q) + u
  <2>1. u - q \in Nat
    BY <1>4, <1>5
  <2>2. B * (u - q) \in Nat
    BY <1>6, <2>1, MulNat
  <2> QED
    BY <1>4, <1>5, <2>2, CeilDivBounds
<1>10. K \in Nat /\ CeilDiv(B, P_FLOOR) \in Nat /\ CeilDiv(B, P_FLOOR) <= K
  <2>1. P_FLOOR \in Nat /\ P_FLOOR > 0
    BY ProductConstants
  <2> HIDE DEF B
  <2> QED
    BY <1>6, <2>1, CeilDivMonotone
<1> HIDE DEF q, u, B, A, C, K
<1>11. A <= C + K
  BY <1>6, <1>8, <1>9, <1>10
<1>12. B * q <= ((B - A) + (1 + K)) * u
  BY <1>4, <1>5, <1>6, <1>9, <1>10, <1>11, PartAssigned
<1> QED
  BY <1>7, <1>12 DEF q, u, K

\* An exercise of q lots assigns the writers together all of them, but for one
\* lot and a P_FLOOR-th part of its lots for each slot: what settle_core may
\* have to trim from the last writers of a series (settle.rs, F1).
THEOREM ExercisesAreAssigned == UnwrappedSpec => [][AssignsWhatIsExercised]_vars
<1>1. UnwrappedSpec => Spec
  <2>1. UnwrappedNext => Next
    BY DEF UnwrappedNext
  <2> QED
    BY <2>1, PTL DEF UnwrappedSpec, Spec
<1>2. IInv /\ SharesOK /\ SnapshotsBehind /\ NoOverAssignment /\ [UnwrappedNext]_vars
        => [AssignsWhatIsExercised]_vars
  <2> SUFFICES ASSUME IInv, SharesOK, SnapshotsBehind, NoOverAssignment, UnwrappedNext,
                      NEW m \in Nat, \A s \in Slots : slots[s].open <= m
               PROVE  totalExercised' - totalExercised
                        <= AssignedTogether' - AssignedTogether + Rounding(m)
    BY DEF AssignsWhatIsExercised, vars
  <2> DEFINE old == ChargedOf(pool, slots)
             new == ChargedOf(pool', slots')
             q == totalExercised' - totalExercised
             c == 1 + CeilDiv(m, P_FLOOR)
  <2>1. IInv' /\ Next
    BY NextIInv DEF UnwrappedNext
  <2>2. /\ pool \in PoolType /\ pool' \in PoolType
        /\ slots \in [Slots -> SlotType] /\ slots' \in [Slots -> SlotType]
        /\ totalExercised \in Nat /\ totalExercised' \in Nat
    BY <2>1 DEF IInv, TypeOK
  <2>3. /\ IsFiniteSet(Slots) /\ IntTerms(old, Slots) /\ IntTerms(new, Slots)
        /\ IntTerms(LeftOf(pool, slots), Slots) /\ IntTerms(SoldOf(slots), Slots)
    BY <2>2, SlotTerms
  <2>4. AssignedTogether \in Int /\ AssignedTogether' \in Int
    <3>1. SumFunctionOnSet(old, Slots) \in Int /\ SumFunctionOnSet(new, Slots) \in Int
      BY <2>3, SumInt
    <3> QED
      BY <3>1 DEF AssignedTogether
  <2>5. AssignedTogether = SumFunctionOnSet(old, Slots)
        /\ AssignedTogether' = SumFunctionOnSet(new, Slots)
    BY DEF AssignedTogether
  <2>6. CASE totalExercised' = totalExercised
    <3>1. \A s \in Slots : new[s] = old[s]
      BY <2>1, <2>6, ChargedStays DEF ChargedOf, Charged
    <3> HIDE DEF old, new
    <3>2. SumFunctionOnSet(new, Slots) = SumFunctionOnSet(old, Slots)
      BY <2>3, <3>1, SumAgree
    <3>3. Rounding(m) = 0
      BY <2>6 DEF Rounding
    <3> QED
      BY <2>2, <2>4, <2>5, <2>6, <3>2, <3>3
  <2>7. CASE totalExercised' # totalExercised
    <3> DEFINE g == [s \in Slots |-> new[s] - old[s]]
               b == LeftOf(pool, slots)
    <3>1. PICK e \in 1 .. MaxSold : Exercise(e)
      BY <2>7 DEF UnwrappedNext, Next, Claim, Sell, BuyBack, Settle
    <3>2. /\ ~settling /\ e \in Nat /\ e > 0 /\ e <= pool.u
          /\ totalExercised' = totalExercised + e
      BY <3>1, PoolBounds DEF Exercise
    <3>3. q \in Nat /\ pool.u \in Nat /\ pool.u > 0
      BY <2>2, <3>2 DEF PoolType
    <3>4. c \in Nat
      <4>1. P_FLOOR \in Nat /\ P_FLOOR > 0
        BY ProductConstants
      <4> QED
        BY <4>1, CeilDivBounds
    <3>5. pool.u <= SumFunctionOnSet(b, Slots)
      <4>1. /\ totalSold = totalExercised + pool.u
            /\ SumFunctionOnSet(SoldOf(slots), Slots) = totalSold
            /\ \A s \in Slots : slots[s].sold = slots[s].assigned + slots[s].open
        BY <3>2, BeforeSettlement
      <4>2. \A s \in Slots : SoldOf(slots)[s] = old[s] + b[s]
        <5> SUFFICES ASSUME NEW s \in Slots PROVE SoldOf(slots)[s] = old[s] + b[s]
          OBVIOUS
        <5>1. slots[s].assigned \in Nat /\ slots[s].open \in Nat
          BY <2>2 DEF SlotType
        <5>2. b[s] \in Int
          BY <2>3 DEF IntTerms
        <5>3. b[s] = FoldedOpen(pool, slots[s])
          BY DEF LeftOf
        <5>4. /\ old[s] = slots[s].assigned + slots[s].open - FoldedOpen(pool, slots[s])
              /\ SoldOf(slots)[s] = slots[s].assigned + slots[s].open
          BY <4>1 DEF ChargedOf, SoldOf
        <5> HIDE DEF b, old
        <5> QED
          BY <5>1, <5>2, <5>3, <5>4
      <4> HIDE DEF b, old
      <4>3. SumFunctionOnSet(SoldOf(slots), Slots)
              = SumFunctionOnSet(old, Slots) + SumFunctionOnSet(b, Slots)
        BY <2>3, <4>2, SumPlus DEF b
      <4>4. SumFunctionOnSet(old, Slots) <= totalExercised
        BY ChargedIsAssignedNow DEF old
      <4>5. SumFunctionOnSet(old, Slots) \in Int /\ SumFunctionOnSet(b, Slots) \in Int
        BY <2>3, SumInt DEF b
      <4> QED
        BY <2>2, <3>3, <4>1, <4>3, <4>4, <4>5
    <3>6. ASSUME NEW s \in Slots PROVE b[s] * q <= (g[s] + c) * pool.u
      <4>1. b[s] * q <= ((new[s] - old[s]) + c) * pool.u
        BY <2>7, ExerciseAssignsSlot
      <4>2. g[s] = new[s] - old[s]
        OBVIOUS
      <4> HIDE DEF g, b, new, old, c, q
      <4> QED
        BY <4>1, <4>2
    <3>7. IntTerms(g, Slots)
          /\ \A s \in Slots : new[s] = old[s] + g[s]
      <4> SUFFICES ASSUME NEW s \in Slots
                   PROVE  g[s] \in Int /\ new[s] = old[s] + g[s]
        BY DEF IntTerms
      <4>1. new[s] \in Int /\ old[s] \in Int
        BY <2>3 DEF IntTerms
      <4>2. g[s] = new[s] - old[s]
        OBVIOUS
      <4> HIDE DEF g, new, old
      <4> QED
        BY <4>1, <4>2
    <3>8. Rounding(m) = Cardinality(Slots) * c
      BY <2>7 DEF Rounding
    <3> HIDE DEF g, b, new, old, c, q
    <3>9. SumFunctionOnSet(new, Slots) = SumFunctionOnSet(old, Slots) + SumFunctionOnSet(g, Slots)
      BY <2>3, <3>7, SumPlus
    <3>10. q <= SumFunctionOnSet(g, Slots) + Cardinality(Slots) * c
      <4>1. IntTerms(b, Slots)
        BY <2>3 DEF b
      <4> QED
        BY <2>3, <3>3, <3>4, <3>5, <3>6, <3>7, <4>1, PartsAddUp
    <3>11. /\ SumFunctionOnSet(g, Slots) \in Int /\ SumFunctionOnSet(old, Slots) \in Int
           /\ Cardinality(Slots) * c \in Int
      <4>1. Cardinality(Slots) \in Nat
        BY <2>3, FS_CardinalityType
      <4> QED
        BY <2>3, <3>4, <3>7, <4>1, SumInt
    <3> QED
      BY <2>5, <3>8, <3>9, <3>10, <3>11 DEF q
  <2> QED
    BY <2>6, <2>7
<1> QED
  BY <1>1, <1>2, BehindAlways, SharesAlways, PTL DEF UnwrappedSpec
=============================================================================
