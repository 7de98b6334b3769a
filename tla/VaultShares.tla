---------------------------- MODULE VaultShares ----------------------------
(***************************************************************************)
(* The depositors' side of a supply-side vault                             *)
(* (programs/roster_finance/src/instructions/vault.rs): deposits and       *)
(* withdrawals queue during an epoch, the roll prices them, and each       *)
(* owner claims its part later, at the price the epoch's record holds.     *)
(*                                                                         *)
(* All of it lives in two token accounts that also pay for writing         *)
(* options.  The writing side is here only as what it may take out of      *)
(* those accounts, and what comes back: anything between nothing and       *)
(* everything.                                                             *)
(***************************************************************************)
EXTENDS Integers, FiniteSets, Functions

CONSTANTS
  Owners,         (* depositors                                            *)
  IsCoveredCall,  (* collateral is the underlying, the other asset is USDC *)
  IDX_SCALE,      (* fixed-point one of the prices in a record              *)
  SHARE_UNIT,     (* shares per lot of collateral for the first depositor  *)
  UnitsPerLot,    (* LOT6: lot units in one lot                            *)
  RawPerLot6,     (* raw underlying in one lot unit                        *)
  MarkBandBps,    (* how far the mark may move in one roll                 *)
  BasisPoints     (* basis points in one                                   *)

CONSTANTS         (* what the runs enumerate                               *)
  Deposits,       (* bound: what a deposit brings, net of the mint's fee   *)
  ShareMoves,     (* bound: sizes of requests, transfers and burns         *)
  Marks,          (* bound: marks a roll may be given                      *)
  Flows,          (* bound: amounts the writing side moves                 *)
  MaxCollateral, MaxOther, MaxLocked,   (* bound: what the vault may hold   *)
  MaxEpoch        (* bound: the last epoch in which anything is queued     *)

ASSUME VaultConstants ==
  /\ IsFiniteSet(Owners)
  /\ IsCoveredCall \in BOOLEAN
  /\ {IDX_SCALE, SHARE_UNIT, UnitsPerLot, RawPerLot6, BasisPoints} \subseteq Nat \ {0}
  /\ MarkBandBps \in 0 .. BasisPoints
  /\ Deposits \cup ShareMoves \cup Marks \cup Flows \subseteq Nat \ {0}
  /\ {MaxCollateral, MaxOther, MaxLocked, MaxEpoch} \subseteq Nat

VARIABLES
  epoch,          (* the epoch that is running                             *)
  due,            (* the calendar has reached next_roll_ts                 *)
  halted,         (* VAULT_HALTED                                          *)
  lastMark,       (* last_mark_usdc_per_lot                                *)
  totalShares,    (* total_shares                                          *)
  locked,         (* locked_raw                                            *)
  pending,        (* pending_deposit_raw and pending_withdraw_shares       *)
  reserved,       (* reserved_collateral_raw and reserved_other            *)
  positions,      (* owner -> what it has queued, and in which epoch       *)
  records,        (* epoch -> the prices its roll published                *)
  collateral, other, escrow, (* balances of the vault's token accounts     *)
  wallet          (* owner -> shares it holds                              *)

calendar == <<epoch, due>>
params == <<halted, lastMark>>
book == <<totalShares, locked, pending, reserved>>
accounts == <<collateral, other, escrow, wallet>>
vaultVars == <<calendar, params, book, positions, records, accounts>>

-----------------------------------------------------------------------------
(* Amounts.                                                                *)

Saturating(a, b) == IF a >= b THEN a - b ELSE 0
AtMost(a, b) == IF a <= b THEN a ELSE b

RawPerLot == UnitsPerLot * RawPerLot6
UnitRaw == IF IsCoveredCall THEN RawPerLot ELSE UnitsPerLot

\* What the accounts hold that is neither reserved nor still queued.
CollateralFree == Saturating(Saturating(collateral, reserved.collateral), pending.deposit)
OtherFree == Saturating(other, reserved.other)

\* The other asset in units of collateral, at a mark.
InCollateral(amount, mark) ==
  IF IsCoveredCall THEN (amount * RawPerLot) \div mark ELSE (amount * mark) \div RawPerLot

Nav(mark) == CollateralFree + InCollateral(OtherFree, mark)

\* A part of the vault per share, and what that price gives some shares.
PerShare(amount) == IF totalShares > 0 THEN (amount * IDX_SCALE) \div totalShares ELSE 0
AtPrice(n, price) == (n * price) \div IDX_SCALE

\* What the roll sets aside for the queued withdrawals.
ReserveCollateral == AtPrice(pending.withdraw, PerShare(CollateralFree))
ReserveOther == AtPrice(pending.withdraw, PerShare(OtherFree))

\* The shares and the value that stay once the withdrawals have left.
SharesStaying == totalShares - pending.withdraw
NavStaying(mark) ==
  Saturating(Saturating(Nav(mark), ReserveCollateral), InCollateral(ReserveOther, mark))

\* Shares for a unit of collateral: as many as a unit of this value has.
SharesAt(nav) ==
  IF SharesStaying = 0 \/ nav = 0
    THEN (SHARE_UNIT * IDX_SCALE) \div UnitRaw
    ELSE (SharesStaying * IDX_SCALE) \div nav

\* Mutant of SharesPerRaw: the other asset is left out of what shares are worth.
SharesPerRawIgnoringOther(mark) == SharesAt(Saturating(CollateralFree, ReserveCollateral))

\* The price at which queued deposits enter, once the withdrawals have left.
SharesPerRaw(mark) == SharesAt(NavStaying(mark))

InBand(mark) ==
  lastMark > 0 /\ MarkBandBps < BasisPoints =>
    LET band == (lastMark * MarkBandBps) \div BasisPoints
    IN  mark \in Saturating(lastMark, band) .. lastMark + band

-----------------------------------------------------------------------------
(* Depositors.                                                             *)

NothingQueued == [deposit |-> 0, depositEpoch |-> 0, withdraw |-> 0, withdrawEpoch |-> 0]

VaultInit ==
  /\ epoch = 0 /\ due = FALSE
  /\ halted = FALSE /\ lastMark = 0
  /\ totalShares = 0 /\ locked = 0
  /\ pending = [deposit |-> 0, withdraw |-> 0]
  /\ reserved = [collateral |-> 0, other |-> 0]
  /\ positions = [o \in Owners |-> NothingQueued]
  /\ records = [e \in {} |-> 0]
  /\ collateral = 0 /\ other = 0 /\ escrow = 0
  /\ wallet = [o \in Owners |-> 0]

\* One queued entry at a time: an older one that has rolled is claimed first.
MayQueue(amount, queuedIn) == amount = 0 \/ queuedIn = epoch

Deposit(o, arrived) ==
  /\ ~halted
  /\ MayQueue(positions[o].deposit, positions[o].depositEpoch)
  /\ epoch <= MaxEpoch /\ collateral + arrived <= MaxCollateral
  /\ positions' = [positions EXCEPT ![o].deposit = @ + arrived, ![o].depositEpoch = epoch]
  /\ pending' = [pending EXCEPT !.deposit = @ + arrived]
  /\ collateral' = collateral + arrived
  /\ UNCHANGED <<calendar, params, totalShares, locked, reserved, records, other, escrow, wallet>>

RequestWithdraw(o, shares) ==
  /\ MayQueue(positions[o].withdraw, positions[o].withdrawEpoch)
  /\ shares <= wallet[o]
  /\ epoch <= MaxEpoch
  /\ wallet' = [wallet EXCEPT ![o] = @ - shares]
  /\ escrow' = escrow + shares
  /\ positions' = [positions EXCEPT ![o].withdraw = @ + shares, ![o].withdrawEpoch = epoch]
  /\ pending' = [pending EXCEPT !.withdraw = @ + shares]
  /\ UNCHANGED <<calendar, params, totalShares, locked, reserved, records, collateral, other>>

\* What an epoch's record owes an owner: the shares of a deposit queued in it,
\* and both assets for shares withdrawn in it.
Deposited(o, e) ==
  IF positions[o].depositEpoch = e THEN positions[o].deposit ELSE 0
Withdrawn(o, e) ==
  IF positions[o].withdrawEpoch = e THEN positions[o].withdraw ELSE 0
SharesOwed(o, e) == AtPrice(Deposited(o, e), records[e].sharesPerRaw)
CollateralOwed(o, e) == AtPrice(Withdrawn(o, e), records[e].collateralPerShare)
OtherOwed(o, e) == AtPrice(Withdrawn(o, e), records[e].otherPerShare)

VaultClaim(o, e) ==
  LET sharesOut == SharesOwed(o, e)
      collateralOut == AtMost(CollateralOwed(o, e), reserved.collateral)
      otherOut == AtMost(OtherOwed(o, e), reserved.other)
  IN  /\ e < epoch
      /\ sharesOut + collateralOut + otherOut > 0
      /\ sharesOut <= escrow /\ collateralOut <= collateral /\ otherOut <= other
      /\ escrow' = escrow - sharesOut
      /\ wallet' = [wallet EXCEPT ![o] = @ + sharesOut]
      /\ collateral' = collateral - collateralOut
      /\ other' = other - otherOut
      /\ reserved' = [collateral |-> reserved.collateral - collateralOut,
                      other |-> reserved.other - otherOut]
      /\ positions' = [positions EXCEPT ![o].deposit = @ - Deposited(o, e),
                                        ![o].withdraw = @ - Withdrawn(o, e)]
      /\ UNCHANGED <<calendar, params, totalShares, locked, pending, records>>

-----------------------------------------------------------------------------
(* The roll.                                                               *)

\* Mutant of MayRoll: a halted vault does not roll either.
MayRollUnhalted(mark) == due /\ locked = 0 /\ InBand(mark) /\ ~halted
MayRoll(mark) == due /\ locked = 0 /\ InBand(mark)

\* Mutant of ReservedAfter: the other asset is not set aside.
ReservedCollateralOnly ==
  [collateral |-> reserved.collateral + ReserveCollateral, other |-> reserved.other]
ReservedAfter ==
  [collateral |-> reserved.collateral + ReserveCollateral,
   other |-> reserved.other + ReserveOther]

PendingAfter == [deposit |-> 0, withdraw |-> 0]

\* Close the epoch: price it, burn the queued withdrawals, mint the queued
\* deposits into the escrow, and start the next one.
Roll(mark) ==
  LET minted == AtPrice(pending.deposit, SharesPerRaw(mark))
      record == [sharesPerRaw |-> SharesPerRaw(mark),
                 collateralPerShare |-> PerShare(CollateralFree),
                 otherPerShare |-> PerShare(OtherFree)]
  IN  /\ MayRoll(mark)
      /\ epoch <= MaxEpoch
      /\ pending.withdraw <= escrow
      /\ records' = [e \in DOMAIN records \cup {epoch} |->
                       IF e = epoch THEN record ELSE records[e]]
      /\ escrow' = escrow - pending.withdraw + minted
      /\ totalShares' = totalShares - pending.withdraw + minted
      /\ reserved' = ReservedAfter
      /\ pending' = PendingAfter
      /\ lastMark' = mark
      /\ epoch' = epoch + 1
      /\ due' = FALSE
      /\ UNCHANGED <<halted, locked, positions, collateral, other, wallet>>

-----------------------------------------------------------------------------
(* The writing side, and the world.                                        *)

\* Mutant of Spendable: deposits that are only queued are spent on writing.
SpendableWithPending == Saturating(collateral, reserved.collateral)
\* What a quote may deposit into a series.
Spendable == CollateralFree

\* vault_quote: collateral goes into a series that expires before the roll.
\* What the book credits, and the vault locks, may be less than was sent.
Write(sent, credited) ==
  /\ ~halted /\ ~due
  /\ credited <= sent /\ sent <= Spendable
  /\ locked + credited <= MaxLocked
  /\ collateral' = collateral - sent
  /\ locked' = locked + credited
  /\ UNCHANGED <<calendar, params, totalShares, pending, reserved, positions, records,
                 other, escrow, wallet>>

\* vault_withdraw_unsold and vault_settle: some collateral is unlocked; what
\* was not assigned comes back, what was assigned comes back as the other asset.
ComesBack(unlocked, raw, proceeds) ==
  /\ unlocked <= locked /\ raw <= unlocked
  /\ collateral + raw <= MaxCollateral /\ other + proceeds <= MaxOther
  /\ locked' = locked - unlocked
  /\ collateral' = collateral + raw
  /\ other' = other + proceeds
  /\ UNCHANGED <<calendar, params, totalShares, pending, reserved, positions, records,
                 escrow, wallet>>

\* vault_claim_premium: USDC, which is the collateral of a put vault.  Anyone
\* may also send tokens to either account.
PaidIn(raw, proceeds) ==
  /\ collateral + raw <= MaxCollateral /\ other + proceeds <= MaxOther
  /\ collateral' = collateral + raw
  /\ other' = other + proceeds
  /\ UNCHANGED <<calendar, params, book, positions, records, escrow, wallet>>

\* sell_to_vault: premium paid to a holder who sells contracts back.
BuyBackPaid(premium) ==
  /\ ~halted
  /\ premium <= (IF IsCoveredCall THEN OtherFree ELSE CollateralFree)
  /\ collateral' = IF IsCoveredCall THEN collateral ELSE collateral - premium
  /\ other' = IF IsCoveredCall THEN other - premium ELSE other
  /\ UNCHANGED <<calendar, params, book, positions, records, escrow, wallet>>

\* vault_set_halt.
SetHalt ==
  /\ halted' = ~halted
  /\ UNCHANGED <<calendar, lastMark, book, positions, records, accounts>>

\* set_vault_params moves the next roll; the calendar reaches it.
BringForward ==
  /\ ~due
  /\ due' = TRUE
  /\ UNCHANGED <<epoch, params, book, positions, records, accounts>>
PushBack ==
  /\ due
  /\ due' = FALSE
  /\ UNCHANGED <<epoch, params, book, positions, records, accounts>>

\* Shares are ordinary tokens: a holder may transfer or burn them.
TransferShares(from, to, n) ==
  /\ from # to /\ n <= wallet[from]
  /\ wallet' = [wallet EXCEPT ![from] = @ - n, ![to] = @ + n]
  /\ UNCHANGED <<calendar, params, book, positions, records, collateral, other, escrow>>
BurnShares(o, n) ==
  /\ n <= wallet[o]
  /\ wallet' = [wallet EXCEPT ![o] = @ - n]
  /\ UNCHANGED <<calendar, params, book, positions, records, collateral, other, escrow>>

DepositorStep ==
  \/ \E o \in Owners, arrived \in Deposits : Deposit(o, arrived)
  \/ \E o \in Owners, shares \in ShareMoves : RequestWithdraw(o, shares)
  \/ \E o \in Owners, e \in DOMAIN records : VaultClaim(o, e)
  \/ \E from, to \in Owners, n \in ShareMoves : TransferShares(from, to, n)
  \/ \E o \in Owners, n \in ShareMoves : BurnShares(o, n)

RollStep == \E mark \in Marks : Roll(mark)

Returns == \E unlocked \in 1 .. locked :
             \E raw \in 0 .. unlocked, proceeds \in Flows \cup {0} :
               ComesBack(unlocked, raw, proceeds)

WritingStep ==
  \/ \E sent, credited \in Flows : Write(sent, credited)
  \/ Returns
  \/ \E raw, proceeds \in Flows \cup {0} : PaidIn(raw, proceeds)
  \/ \E premium \in Flows : BuyBackPaid(premium)

AdminStep == SetHalt \/ BringForward \/ PushBack

VaultNext == DepositorStep \/ RollStep \/ WritingStep \/ AdminStep

VaultSpec == VaultInit /\ [][VaultNext]_vaultVars

\* Whatever is queued is rolled and claimed: the roll is permissionless and
\* retried by the keeper, written series settle, owners claim what they can,
\* and the roll is not pushed back for ever.  No fairness for the manager.
VaultFairness ==
  /\ WF_vaultVars(BringForward) /\ WF_vaultVars(RollStep)
  /\ WF_vaultVars(Returns)
  /\ \A o \in Owners : WF_vaultVars(\E e \in DOMAIN records : VaultClaim(o, e))
  /\ <>[][~PushBack]_vaultVars

FairVaultSpec == VaultSpec /\ VaultFairness

-----------------------------------------------------------------------------
(* Properties.                                                             *)

PositionType == [deposit : Nat, depositEpoch : Nat, withdraw : Nat, withdrawEpoch : Nat]
PriceType == [sharesPerRaw : Nat, collateralPerShare : Nat, otherPerShare : Nat]

\* No balance or counter of the vault ever goes below zero, nor would at the
\* next roll: total_shares - pending_withdraw_shares never borrows.
VaultTypeOK ==
  /\ {epoch, lastMark, totalShares, locked, collateral, other, escrow} \subseteq Nat
  /\ {due, halted} \subseteq BOOLEAN
  /\ pending \in [deposit : Nat, withdraw : Nat]
  /\ pending.withdraw <= totalShares
  /\ reserved \in [collateral : Nat, other : Nat]
  /\ positions \in [Owners -> PositionType]
  /\ DOMAIN records = 0 .. epoch - 1
  /\ \A e \in DOMAIN records : records[e] \in PriceType
  /\ wallet \in [Owners -> Nat]

DepositsQueued == [o \in Owners |-> Deposited(o, epoch)]
WithdrawalsQueued == [o \in Owners |-> Withdrawn(o, epoch)]

\* The vault's queues are exactly what its owners queued in the epoch that
\* runs: no entry is counted in two epochs, priced twice or lost.
QueuesMatch ==
  /\ pending.deposit = SumFunction(DepositsQueued)
  /\ pending.withdraw = SumFunction(WithdrawalsQueued)
  /\ \A o \in Owners : /\ positions[o].depositEpoch <= epoch
                       /\ positions[o].withdrawEpoch <= epoch

\* Money that belongs to somebody else is always there: the accounts hold
\* every reserve and every queued deposit, whatever was written or bought back.
Funded ==
  /\ collateral >= reserved.collateral + pending.deposit
  /\ other >= reserved.other

\* What the epochs that have rolled owe their owners.
Claims == Owners \X DOMAIN records
SharesByClaim == [c \in Claims |-> SharesOwed(c[1], c[2])]
CollateralByClaim == [c \in Claims |-> CollateralOwed(c[1], c[2])]
OtherByClaim == [c \in Claims |-> OtherOwed(c[1], c[2])]

\* Whoever claims late is still paid at its own epoch's price: the reserves
\* cover every claim of every epoch that has rolled, so none is ever trimmed.
ReservesCoverClaims ==
  /\ SumFunction(CollateralByClaim) <= reserved.collateral
  /\ SumFunction(OtherByClaim) <= reserved.other

\* The escrow mixes minted shares nobody has claimed yet with shares queued to
\* be burned, and always holds enough for both.
EscrowCovers == escrow >= pending.withdraw + SumFunction(SharesByClaim)

\* Both: whatever has been queued and rolled is there to be claimed.
ClaimsBacked == EscrowCovers /\ ReservesCoverClaims

\* No share is held that the vault did not count: wallets and escrow together
\* never hold more than total_shares (holders may burn what they hold).
SharesCounted == SumFunction(wallet) + escrow <= totalShares

\* The strengthening of Funded and ClaimsBacked that every step preserves.
VaultInv == VaultTypeOK /\ QueuesMatch /\ Funded /\ ClaimsBacked /\ SharesCounted

\* "A late deposit never dilutes the week that carried the risk" (vault.rs): at
\* a roll, neither the withdrawals that leave nor the deposits that enter make
\* a share that stays worth less.  Each of the two may cost the whole vault, not
\* a share of it, one unit of collateral in rounding.
RollKeepsWorth(mark) ==
  /\ (NavStaying(mark) + 1) * totalShares >= Nav(mark) * SharesStaying
  /\ (Nav(mark)' + 1) * SharesStaying >= NavStaying(mark) * totalShares'

NoDilution ==
  [][ \A mark \in Marks :
        epoch' > epoch /\ lastMark' = mark /\ totalShares > pending.withdraw =>
          RollKeepsWorth(mark) ]_vaultVars

\* "Collect what a roll owes this depositor": whatever has been queued in an
\* epoch that rolled can be claimed, and so makes room for the next entry.
RolledIsClaimable ==
  \A o \in Owners, e \in DOMAIN records :
    Deposited(o, e) + Withdrawn(o, e) > 0 =>
      SharesOwed(o, e) + CollateralOwed(o, e) + OtherOwed(o, e) > 0

RoundsToZero(o) ==
  \E e \in DOMAIN records :
    /\ Withdrawn(o, e) > 0
    /\ SharesOwed(o, e) + CollateralOwed(o, e) + OtherOwed(o, e) = 0

\* "A halted vault still settles, still rolls and still honours withdrawals":
\* a queued withdrawal is paid in the end, unless all of it rounds to nothing.
WithdrawalsHonoured ==
  \A o \in Owners :
    positions[o].withdraw > 0 ~> positions[o].withdraw = 0 \/ RoundsToZero(o)
=============================================================================
