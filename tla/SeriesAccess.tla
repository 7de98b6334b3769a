---------------------------- MODULE SeriesAccess ----------------------------
(***************************************************************************)
(* The steps of a series against the accounts its instructions declare:    *)
(* whatever a step changes must be an account that the instruction behind  *)
(* it lists as writable, or the transaction could never have run.          *)
(***************************************************************************)
EXTENDS Series, Instructions

\* Which accounts hold the state a step has changed.
Touched ==
  {name \in {"series", "positionMint", "collateralVault", "settlementVault",
             "quoteVault", "feeVault", "treasuryUnderlyingAta"} :
     CASE name = "series" ->
            \/ pool' # pool \/ slots' # slots \/ asks' # asks \/ seq' # seq
            \/ totalSold' # totalSold \/ totalExercised' # totalExercised
            \/ halt' # halt \/ live' # live
       [] name = "positionMint" -> supply' # supply
       [] name = "collateralVault" -> bal'.collateral # bal.collateral
       [] name = "settlementVault" -> bal'.settlement # bal.settlement
       [] name = "quoteVault" -> bal'.quote # bal.quote
       [] name = "feeVault" -> bal'.fee # bal.fee
       [] OTHER -> bal'.treasury # bal.treasury}

People == Writers \ Vaults
OwnedBy(owners) == {i \in SlotIds : slots[i].writer \in owners}

QuoteBy(owners) ==
  \E w \in owners, dep \in Deposits, lots \in QuoteLots, price \in Prices :
    Quote(w, dep, lots, price)
CancelBy(owners) ==
  \E k \in 1 .. Len(asks) : asks[k].slot \in OwnedBy(owners) /\ CancelAsk(k)
WithdrawBy(owners) ==
  \E i \in OwnedBy(owners), lots \in MoveLots : WithdrawUnsold(i, lots)
ClaimBy(owners) == \E i \in OwnedBy(owners) : ClaimPremium(i)

\* Every step stays within what its instruction may write.
StaysDeclared ==
  /\ QuoteBy(People) => Touched \subseteq Writes("quote")
  /\ QuoteBy(Vaults) => Touched \subseteq Writes("vaultQuote")
  /\ CancelBy(People) => Touched \subseteq Writes("cancelAsk")
  /\ CancelBy(Vaults) => Touched \subseteq Writes("vaultCancelAsk")
  /\ WithdrawBy(People) => Touched \subseteq Writes("withdrawUnsold")
  /\ WithdrawBy(Vaults) => Touched \subseteq Writes("vaultWithdrawUnsold")
  /\ ClaimBy(People) => Touched \subseteq Writes("claimPremium")
  /\ ClaimBy(Vaults) => Touched \subseteq Writes("vaultClaimPremium")
  /\ (\E lots \in BuyLots, limit \in Prices : Buy(lots, limit))
       => Touched \subseteq Writes("buy")
  /\ (\E q \in MoveLots : Exercise(q))
       => Touched \subseteq Writes("exercise") \cap Writes("autoExercise")
  /\ (\E i \in SlotIds, lots \in MoveLots : SellToVault(i, lots))
       => Touched \subseteq Writes("sellToVault")
  /\ (\E i \in SlotIds : Settle(i))
       => Touched \subseteq Writes("settleWriter") \cap Writes("vaultSettle")
  /\ CloseSeries => Touched \subseteq Writes("closeSeries")
  /\ ObserveHalt => Touched \subseteq Writes("observeHalt")

\* A writer and a vault share one book and one slot table, but reach them
\* through different instructions; so do a holder and the keeper acting for it.
\* No step writes an account that the instruction behind it does not declare
\* (the #[account(mut)] constraints behind packages/sdk/src/idl/roster_finance.ts).
WritesDeclared == [][StaysDeclared]_vars
=============================================================================
