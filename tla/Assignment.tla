----------------------------- MODULE Assignment -----------------------------
(***************************************************************************)
(* The pooled assignment arithmetic of programs/roster_finance/src/math.rs *)
(* as operators.                                                           *)
(*                                                                         *)
(* Contracts are written by many writers and exercised against the pool,   *)
(* never against one writer.  A series keeps the product p of              *)
(* (u - q) / u over every exercise of q out of u unassigned lots; a writer *)
(* slot keeps the product it last saw.  The part of its open lots that is  *)
(* still unassigned is open * p / p_snap, computed lazily by Fold.         *)
(*                                                                         *)
(* A pool is [p, scale, epoch, u]: the fixed-point product, the number of  *)
(* times it was rescaled, the number of times the whole pool was consumed, *)
(* and unassigned_lots6.  A slot carries p, scale, epoch as snapshots.     *)
(***************************************************************************)
EXTENDS Integers

CONSTANTS
  P_ONE,      (* fixed-point one of the product (state.rs: 1e18)            *)
  P_FLOOR,    (* a product below this is rescaled (state.rs: 1e9)           *)
  P_SCALE,    (* the factor of one rescale (state.rs: 1e9)                  *)
  ScaleMod,   (* scale is a u8: it wraps at 256                             *)
  LOT6,       (* lot units in one lot (state.rs: 1e6)                       *)
  BPS         (* basis points in one (math.rs fee_ceil: 10_000)             *)

ASSUME ProductConstants ==
  /\ P_FLOOR \in Nat /\ P_FLOOR > 1
  /\ P_SCALE \in Nat /\ P_SCALE >= P_FLOOR
  /\ P_ONE = P_FLOOR * P_SCALE
  /\ ScaleMod \in Nat /\ ScaleMod > 5

ASSUME UnitConstants ==
  /\ LOT6 \in Nat \ {0}
  /\ BPS \in Nat \ {0}

-----------------------------------------------------------------------------
(* Rounding.                                                               *)

LesserOf(a, b) == IF a <= b THEN a ELSE b
GreaterOf(a, b) == IF a >= b THEN a ELSE b

\* Rust's saturating_sub on an unsigned integer.
SatSub(a, b) == IF a >= b THEN a - b ELSE 0

CeilDiv(a, b) == (a + b - 1) \div b

\* What the party paying USDC owes for some lots, and what one receiving it gets.
UsdcOwedCeil(lots, perLot) == CeilDiv(lots * perLot, LOT6)
UsdcPaidFloor(lots, perLot) == (lots * perLot) \div LOT6

\* The taker fee: never less than the exact share of the premium.
FeeCeil(premium, feeBps) == CeilDiv(premium * feeBps, BPS)

-----------------------------------------------------------------------------
(* The product.                                                            *)

PoolType == [p : Nat, scale : 0 .. ScaleMod - 1, epoch : Nat, u : Nat]

\* Series::default product: nothing assigned yet.
FreshPool == [p |-> P_ONE, scale |-> 0, epoch |-> 0, u |-> 0]

\* Mutant of MovesProduct: any size that is not zero is accepted.
MovesAnyProduct(pool, q) == q > 0

\* An exercise smaller than one unit of the product could not be charged to
\* any writer; the instructions refuse it unless it takes the whole pool.
MovesProduct(pool, q) == q = pool.u \/ q * pool.p >= pool.u

\* The product after q of the pool's u lots are exercised, rounded up.
NextProduct(pool, q) == CeilDiv(pool.p * (pool.u - q), pool.u)

\* Mutants of ConsumePool: the same epoch goes on, or the lots are not cleared.
ConsumePoolSameEpoch(pool) ==
  [p |-> P_ONE, scale |-> 0, epoch |-> pool.epoch, u |-> 0]
ConsumePoolKeepsLots(pool) ==
  [p |-> P_ONE, scale |-> 0, epoch |-> pool.epoch + 1, u |-> pool.u]

ConsumePool(pool) ==
  [p |-> P_ONE, scale |-> 0, epoch |-> pool.epoch + 1, u |-> 0]

\* The product of the remaining pool once a rescale keeps it above P_FLOOR.
Rescale(pool, q) ==
  LET raw == NextProduct(pool, q)
  IN  IF raw < P_FLOOR
        THEN [p |-> raw * P_SCALE, scale |-> (pool.scale + 1) % ScaleMod,
              epoch |-> pool.epoch, u |-> pool.u - q]
        ELSE [p |-> raw, scale |-> pool.scale, epoch |-> pool.epoch, u |-> pool.u - q]

ApplyExercise(pool, q) ==
  IF q = 0 THEN pool
  ELSE IF q = pool.u THEN ConsumePool(pool)
  ELSE LET r == Rescale(pool, q)
       IN  IF r.p = 0
             THEN [p |-> P_ONE, scale |-> 0, epoch |-> r.epoch + 1, u |-> r.u]
             ELSE r

-----------------------------------------------------------------------------
(* A writer's share of the pool.                                           *)

SnapshotCurrent(pool, w) ==
  w.p = pool.p /\ w.scale = pool.scale /\ w.epoch = pool.epoch

\* P_SCALE to the power of a difference of scales below five.
RescaleFactor(diff) ==
  LET square == P_SCALE * P_SCALE
  IN  IF diff = 0 THEN 1
      ELSE IF diff = 1 THEN P_SCALE
      ELSE IF diff = 2 THEN square
      ELSE IF diff = 3 THEN square * P_SCALE
      ELSE square * square

\* Mutant of Unassigned: rounded down, as the header of math.rs has it.
UnassignedFloored(pool, w) ==
  IF w.epoch # pool.epoch THEN 0
  ELSE (w.open * pool.p) \div (w.p * RescaleFactor((pool.scale - w.scale) % ScaleMod))

\* How many of a slot's open lots are still unassigned under the pool's
\* product: rounded up at each of the two divisions and never above open.
\* The u8 subtraction of the scales wraps.
Unassigned(pool, w) ==
  LET diff == (pool.scale - w.scale) % ScaleMod
      step == CeilDiv(w.open * pool.p, w.p)
  IN  IF w.epoch # pool.epoch \/ diff >= 5 \/ w.p = 0
        THEN 0
        ELSE LesserOf(w.open, CeilDiv(step, RescaleFactor(diff)))

\* The open lots a fold would leave on the slot now.
FoldedOpen(pool, w) ==
  IF SnapshotCurrent(pool, w) \/ w.open = 0 THEN w.open ELSE Unassigned(pool, w)

\* Bring a slot to the present.  Skipped when nothing moved since the snapshot.
Fold(pool, w) ==
  IF SnapshotCurrent(pool, w) THEN w
  ELSE [w EXCEPT !.assigned = @ + (w.open - FoldedOpen(pool, w)),
                 !.open = FoldedOpen(pool, w),
                 !.p = pool.p, !.scale = pool.scale, !.epoch = pool.epoch]

\* Mutant of AddOpen: the slot is not folded first.
AddOpenUnfolded(pool, w, n) == [w EXCEPT !.open = @ + n, !.sold = @ + n]

\* Freshly sold lots enter a slot at the current product.
AddOpen(pool, w, n) ==
  LET f == Fold(pool, w)
  IN  [f EXCEPT !.open = @ + n, !.sold = @ + n]

\* Mutant of BurnOpen: the burned lots still count as sold.
BurnOpenKeepsSold(pool, w, n) ==
  LET f == Fold(pool, w)
  IN  [f EXCEPT !.open = @ - n]

\* sell_to_vault: n of a slot's own unassigned lots are burned.
BurnOpen(pool, w, n) ==
  LET f == Fold(pool, w)
  IN  [f EXCEPT !.open = @ - n, !.sold = SatSub(@, n)]
=============================================================================
