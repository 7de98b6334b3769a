------------------------------ MODULE MCKeeper ------------------------------
EXTENDS Keeper

CONSTANTS w1, w2, v1

\* A writer and a vault have each deposited the same lots and sold them all for
\* a premium as small as its fee: a state of the series in which its book has
\* emptied and only holders, cranks and time are left.
Lots == CHOOSE n \in MoveLots : TRUE

SoldSlot(w) ==
  AddOpen(FreshPool, [ClaimedSlot(w) EXCEPT !.deposited = Lots], Lots)

SoldInit ==
  /\ pool = [FreshPool EXCEPT !.u = 2 * Lots]
  /\ slots = [i \in SlotIds |-> IF i = 1 THEN SoldSlot(w1)
                                ELSE IF i = 2 THEN SoldSlot(v1) ELSE EmptySlot]
  /\ asks = <<>> /\ seq = MaxQuotes
  /\ totalSold = 2 * Lots /\ totalExercised = 0
  /\ halt = OpenHalt /\ live = TRUE
  /\ bal = [collateral |-> CollateralCeil(2 * Lots), settlement |-> 0,
            quote |-> 0, fee |-> 2, treasury |-> 0]
  /\ supply = 2 * Lots /\ exercises = 0
  /\ trading = TRUE /\ mintPaused = FALSE /\ now = 1
  /\ keeper = [phase |-> "idle", paused |-> FALSE, halted |-> FALSE,
               expired |-> FALSE, graceOver |-> FALSE, todo |-> {}]

AloneSpec == SoldInit /\ [][KeeperNext]_kvars /\ Fairness
=============================================================================
