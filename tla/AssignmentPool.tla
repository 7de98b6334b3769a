--------------------------- MODULE AssignmentPool ---------------------------
(***************************************************************************)
(* What pooled assignment promises the writers of one series: every        *)
(* exercise is shared pro rata by the writers whose lots were in the pool  *)
(* when it happened, whenever each slot happens to be folded.              *)
(*                                                                         *)
(* The state is the part of Series the arithmetic of math.rs reads and     *)
(* writes.  Prices, collateral and the book are in module Series, which    *)
(* implements this specification.                                          *)
(***************************************************************************)
EXTENDS Assignment, FiniteSets, Functions

CONSTANTS
  Slots,      (* writer slots of the series                                *)
  MaxFill,    (* bound: lots one slot sells in one purchase                *)
  MaxSold     (* bound: total_sold_lots6                                   *)

ASSUME PoolBounds == MaxFill \in Nat /\ MaxSold \in Nat

\* A series has 64 writer slots, and its lots are a u64: fewer than the
\* fourth power of P_SCALE, 1e36.
ASSUME LotsBelowScale == IsFiniteSet(Slots) /\ MaxSold < RescaleFactor(4)

VARIABLES
  pool,           (* p, scale, epoch and unassigned_lots6 of the series    *)
  slots,          (* slot -> snapshot, open, assigned and sold lots        *)
  totalSold,      (* total_sold_lots6, less what a vault bought back       *)
  totalExercised  (* total_exercised_lots6                                 *)

vars == <<pool, slots, totalSold, totalExercised>>

\* A slot just claimed enters at the current product.
FreshSlot(pl) ==
  [p |-> pl.p, scale |-> pl.scale, epoch |-> pl.epoch,
   open |-> 0, assigned |-> 0, sold |-> 0, settled |-> FALSE]

\* Settlement starts once the exercise window is over.
settling == \E s \in Slots : slots[s].settled

-----------------------------------------------------------------------------
Init ==
  /\ pool = FreshPool
  /\ slots = [s \in Slots |-> FreshSlot(FreshPool)]
  /\ totalSold = 0
  /\ totalExercised = 0

\* find_or_claim_slot hands a slot with nothing sold to a new writer.
Claim(s) ==
  /\ ~settling
  /\ slots[s].sold = 0
  /\ slots' = [slots EXCEPT ![s] = FreshSlot(pool)]
  /\ UNCHANGED <<pool, totalSold, totalExercised>>

\* One buy fills asks of several writers: fill[s] lots of each slot, filled in all.
Sell(fill, filled) ==
  /\ ~settling
  /\ filled = SumFunction(fill)
  /\ totalSold + filled <= MaxSold
  /\ slots' = [s \in Slots |->
                 IF fill[s] > 0 THEN AddOpen(pool, slots[s], fill[s]) ELSE slots[s]]
  /\ pool' = [pool EXCEPT !.u = @ + filled]
  /\ totalSold' = totalSold + filled
  /\ UNCHANGED totalExercised

\* A holder exercises q lots against the pool; no slot is touched.
Exercise(q) ==
  /\ ~settling
  /\ q > 0 /\ q <= pool.u
  /\ MovesProduct(pool, q)
  /\ pool' = ApplyExercise(pool, q)
  /\ totalExercised' = totalExercised + q
  /\ UNCHANGED <<slots, totalSold>>

\* sell_to_vault: a vault burns n contracts against its own open lots.
BuyBack(s, n) ==
  /\ ~settling
  /\ n > 0 /\ n <= FoldedOpen(pool, slots[s]) /\ n <= pool.u
  /\ slots' = [slots EXCEPT ![s] = BurnOpen(pool, slots[s], n)]
  /\ pool' = [pool EXCEPT !.u = SatSub(@, n)]
  /\ totalSold' = SatSub(totalSold, n)
  /\ UNCHANGED totalExercised

\* The slot settle_core leaves: folded for the last time and emptied.
SettledSlot(pl, w) ==
  LET f == Fold(pl, w)
  IN  [f EXCEPT !.open = 0, !.settled = TRUE]

\* settle_core, once per slot.
Settle(s) ==
  /\ ~slots[s].settled
  /\ slots' = [slots EXCEPT ![s] = SettledSlot(pool, slots[s])]
  /\ UNCHANGED <<pool, totalSold, totalExercised>>

Next ==
  \/ \E s \in Slots : Claim(s)
  \/ \E fill \in [Slots -> 0 .. MaxFill], filled \in 1 .. MaxSold : Sell(fill, filled)
  \/ \E q \in 1 .. MaxSold : Exercise(q)
  \/ \E s \in Slots, n \in 1 .. MaxSold : BuyBack(s, n)
  \/ \E s \in Slots : Settle(s)

Spec == Init /\ [][Next]_vars

\* The histories in which the u8 scale does not wrap: fewer than ScaleMod
\* rescales between two exercises that consume the whole pool.
UnwrappedNext == Next /\ (pool'.epoch = pool.epoch => pool'.scale >= pool.scale)
UnwrappedSpec == Init /\ [][UnwrappedNext]_vars

-----------------------------------------------------------------------------
(* Properties.                                                             *)

SlotType ==
  [p : Nat, scale : 0 .. ScaleMod - 1, epoch : Nat,
   open : Nat, assigned : Nat, sold : Nat, settled : BOOLEAN]

\* The counters of the series and of every slot stay natural numbers: no
\* subtraction in fold or in a buy-back ever borrows.
TypeOK ==
  /\ pool \in PoolType
  /\ slots \in [Slots -> SlotType]
  /\ totalSold \in Nat
  /\ totalExercised \in Nat

\* What has been assigned to a slot's lots up to now, folded or not.
AssignedNow(s) == slots[s].assigned + slots[s].open - FoldedOpen(pool, slots[s])

\* The product is always rescaled into range, so apply_exercise never loses
\* precision below P_FLOOR and its "p == 0" branch is never taken.
ProductInRange == pool.p \in P_FLOOR .. P_ONE

\* Every contract sold and not bought back is either exercised or unassigned.
LotsConserved == totalSold = totalExercised + pool.u

\* The writers together are never assigned more than was exercised, so what
\* they are paid from the settlement vault was paid into it (math.rs, F1).
NoOverAssignment == SumFunction([s \in Slots |-> AssignedNow(s)]) <= totalExercised

\* "A writer's unassigned and assigned lots are each rounded down" (math.rs
\* header): together the writers claim no more lots than are unassigned.
UnassignedRoundedDown == SumFunction([s \in Slots |-> FoldedOpen(pool, slots[s])]) <= pool.u

\* A slot's sold lots are exactly its assigned and its open ones, so a slot
\* with nothing sold carries no assignment and can be given away.
SlotLotsConserved ==
  \A s \in Slots :
    ~slots[s].settled => slots[s].sold = slots[s].assigned + slots[s].open

\* An exercise leaves a slot its pro-rata part of the lots it had unassigned,
\* with one lot unit less at most,
LeavesItsPart(s) ==
  LET q == totalExercised' - totalExercised
      before == FoldedOpen(pool, slots[s])
      after == FoldedOpen(pool, slots[s])'
  IN  q > 0 => (before - 1) * (pool.u - q) <= after * pool.u

\* and with one unit and a P_FLOOR-th part more at most.
LeavesNoMore(s) ==
  LET q == totalExercised' - totalExercised
      before == FoldedOpen(pool, slots[s])
      after == FoldedOpen(pool, slots[s])'
  IN  q > 0 => after <= CeilDiv(before * (pool.u - q), pool.u) + CeilDiv(before, P_FLOOR)

\* Every exercise does both to every writer, however many folds it skipped
\* before.
FairAssignment == [][\A s \in Slots : LeavesItsPart(s) /\ LeavesNoMore(s)]_vars

\* The half of it that protects a writer: nobody is assigned more of one
\* exercise than its part of the pool.
NobodyOvercharged == [][\A s \in Slots : LeavesItsPart(s)]_vars

\* No step but an exercise assigns lots to a writer or takes them back.
KeepsAssigned(s) ==
  totalExercised' = totalExercised /\ slots[s].sold > 0 => AssignedNow(s)' = AssignedNow(s)
OnlyExercisesAssign == [][\A s \in Slots : KeepsAssigned(s)]_vars

\* Assignment is final: nothing a buyer, another writer or the vault does
\* later takes assigned lots back from a writer or assigns them to it
\* except an exercise, and that takes none back.
AssignmentFinal ==
  [][ \A s \in Slots :
        /\ slots[s].sold > 0 => AssignedNow(s)' >= AssignedNow(s)
        /\ KeepsAssigned(s) ]_vars

\* Every accepted exercise moves the product, so no slot that was current
\* before it can skip its fold afterwards.
ExerciseCharges ==
  [][ totalExercised' > totalExercised => ~SnapshotCurrent(pool', pool) ]_vars
=============================================================================
