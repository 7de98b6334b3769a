---------------------------- MODULE Instructions ----------------------------
(***************************************************************************)
(* The accounts every instruction of programs/roster_finance declares, as  *)
(* packages/sdk/src/idl/roster_finance.ts publishes them to its clients.   *)
(*                                                                         *)
(* A Solana instruction can change only the accounts its transaction lists *)
(* as writable, and only a listed signer has consented to it, so these     *)
(* tables bound what each action of the other modules may touch.           *)
(*                                                                         *)
(*   signer  who must sign (nobody, for observeHalt)                       *)
(*   writes  the accounts it may change                                    *)
(*   reads   the accounts it only looks at                                 *)
(*   tied    those of them whose address is derived from, or recorded in,  *)
(*           another account; any other is the caller's choice and is      *)
(*           checked by the program, by mint and owner, or not at all      *)
(*                                                                         *)
(* Program ids, argument layouts and discriminators are left out.          *)
(***************************************************************************)

\* autoExercise: a keeper exercises for a holder who opted in.
AutoExerciseAccounts ==
   [signer |-> {"keeper"},
    writes |-> {"keeper", "series", "positionMint", "holderPositionAta",
                "collateralVault", "settlementVault", "holderUnderlyingAta",
                "holderQuoteAta", "feeVault", "keeperQuoteAta"},
    reads |-> {"protocol", "market", "holder", "autoExercise", "delegate",
               "underlyingMint", "quoteMint", "priceUpdate"},
    tied |-> {"protocol", "market", "series", "holder", "autoExercise",
              "delegate", "positionMint", "collateralVault",
              "settlementVault", "holderUnderlyingAta", "holderQuoteAta",
              "feeVault"}]

\* buy: a buyer walks the book and pays premium and fee.
BuyAccounts ==
   [signer |-> {"buyer"},
    writes |-> {"buyer", "series", "quoteVault", "feeVault", "buyerQuoteAta",
                "positionMint", "buyerPositionAta"},
    reads |-> {"protocol", "market", "quoteMint"},
    tied |-> {"protocol", "market", "quoteVault", "feeVault", "positionMint",
              "buyerPositionAta"}]

\* Mutant of CancelAskAccounts: the series is not declared writable.
CancelAskReadsSeries ==
   [signer |-> {"writer"},
    writes |-> {},
    reads |-> {"writer", "series"},
    tied |-> {}]
\* cancelAsk: a writer takes one of its asks off the book.
CancelAskAccounts ==
   [signer |-> {"writer"},
    writes |-> {"series"},
    reads |-> {"writer"},
    tied |-> {}]

\* claimPremium: a writer collects what its sold asks earned.
ClaimPremiumAccounts ==
   [signer |-> {"writer"},
    writes |-> {"series", "quoteVault", "writerQuoteAta"},
    reads |-> {"writer", "market", "quoteMint"},
    tied |-> {"market", "quoteVault"}]

\* closeSeries: anyone sweeps and closes a series long after expiry.
CloseSeriesAccounts ==
   [signer |-> {"cranker"},
    writes |-> {"cranker", "market", "series", "rentReceiver",
                "underlyingMint", "positionMint", "collateralVault",
                "settlementVault", "quoteVault", "feeVault",
                "treasuryUnderlyingAta"},
    reads |-> {"protocol", "quoteMint", "treasury"},
    tied |-> {"protocol", "market", "positionMint", "collateralVault",
              "settlementVault", "quoteVault", "feeVault",
              "treasuryUnderlyingAta"}]

\* createMarket: the authority lists an underlying.
CreateMarketAccounts ==
   [signer |-> {"authority"},
    writes |-> {"authority", "market"},
    reads |-> {"protocol", "mint"},
    tied |-> {"protocol", "market"}]

\* createSeries: a term is opened on the market's grid.
CreateSeriesAccounts ==
   [signer |-> {"payer"},
    writes |-> {"payer", "market", "series", "positionMint",
                "collateralVault", "settlementVault", "quoteVault"},
    reads |-> {"protocol", "underlyingMint", "quoteMint", "collateralMint",
               "settlementMint"},
    tied |-> {"protocol", "market", "positionMint", "collateralVault",
              "settlementVault", "quoteVault"}]

\* disableAutoExercise: a holder opts out: both delegations are revoked.
DisableAutoExerciseAccounts ==
   [signer |-> {"holder"},
    writes |-> {"holder", "autoExercise", "holderPositionAta", "holderPayAta"},
    reads |-> {"market", "series", "delegate", "positionMint", "payMint"},
    tied |-> {"market", "autoExercise", "delegate", "positionMint"}]

\* enableAutoExercise: a holder opts in: both delegations are approved.
EnableAutoExerciseAccounts ==
   [signer |-> {"holder"},
    writes |-> {"holder", "autoExercise", "holderPositionAta", "holderPayAta"},
    reads |-> {"market", "series", "delegate", "positionMint", "payMint"},
    tied |-> {"market", "autoExercise", "delegate", "positionMint"}]

\* exercise: a holder pays one leg and receives the other.
ExerciseAccounts ==
   [signer |-> {"holder"},
    writes |-> {"holder", "series", "positionMint", "holderPositionAta",
                "collateralVault", "settlementVault", "holderUnderlyingAta",
                "holderQuoteAta"},
    reads |-> {"market", "underlyingMint", "quoteMint"},
    tied |-> {"market", "positionMint", "collateralVault", "settlementVault",
              "holderUnderlyingAta", "holderQuoteAta"}]

\* initProtocol: the protocol account and its fee vault are created.
InitProtocolAccounts ==
   [signer |-> {"authority"},
    writes |-> {"authority", "protocol", "feeVault"},
    reads |-> {"quoteMint"},
    tied |-> {"protocol", "feeVault"}]

\* initVault: the authority opens a supply-side vault.
InitVaultAccounts ==
   [signer |-> {"authority"},
    writes |-> {"authority", "vault", "shareMint", "collateralAta",
                "otherAta", "shareEscrow"},
    reads |-> {"protocol", "market", "collateralMint", "otherMint"},
    tied |-> {"protocol", "market", "shareMint", "collateralAta", "otherAta",
              "shareEscrow"}]

\* observeHalt: anyone records what the mint looks like; nobody signs.
ObserveHaltAccounts ==
   [signer |-> {},
    writes |-> {"series"},
    reads |-> {"market", "underlyingMint", "collateralVault",
               "settlementVault"},
    tied |-> {"market", "collateralVault", "settlementVault"}]

\* quote: a writer deposits collateral and posts an ask.
QuoteAccounts ==
   [signer |-> {"writer"},
    writes |-> {"writer", "series", "collateralVault", "writerCollateralAta"},
    reads |-> {"protocol", "market", "collateralMint"},
    tied |-> {"protocol", "market", "collateralVault"}]

\* sellToVault: a holder sells lots back at the vault's bid.
SellToVaultAccounts ==
   [signer |-> {"holder"},
    writes |-> {"holder", "vault", "series", "positionMint",
                "holderPositionAta", "vaultQuoteAta", "holderQuoteAta"},
    reads |-> {"market", "bid", "quoteMint"},
    tied |-> {"market", "bid", "positionMint", "vaultQuoteAta"}]

\* setVaultParams: the authority or the manager moves a vault's limits.
SetVaultParamsAccounts ==
   [signer |-> {"authority"},
    writes |-> {"vault"},
    reads |-> {"authority", "protocol"},
    tied |-> {"protocol"}]

\* settleWriter: anyone pays a writer out after expiry.
SettleWriterAccounts ==
   [signer |-> {"cranker"},
    writes |-> {"cranker", "series", "collateralVault", "settlementVault",
                "quoteVault", "writerUnderlyingAta", "writerQuoteAta"},
    reads |-> {"market", "writer", "underlyingMint", "quoteMint"},
    tied |-> {"market", "collateralVault", "settlementVault", "quoteVault",
              "writerUnderlyingAta", "writerQuoteAta"}]

\* updateMarket: the authority changes a market, or the pause key pauses it.
UpdateMarketAccounts ==
   [signer |-> {"signer"},
    writes |-> {"market"},
    reads |-> {"signer", "protocol"},
    tied |-> {"protocol", "market"}]

\* updateProtocol: the authority changes the protocol, or the pause key pauses it.
UpdateProtocolAccounts ==
   [signer |-> {"signer"},
    writes |-> {"protocol"},
    reads |-> {"signer"},
    tied |-> {"protocol"}]

\* vaultCancelAsk: the manager takes one of the vault's asks off the book.
VaultCancelAskAccounts ==
   [signer |-> {"manager"},
    writes |-> {"series"},
    reads |-> {"manager", "vault", "market"},
    tied |-> {"market"}]

\* vaultClaim: a depositor collects what a rolled epoch owes it.
VaultClaimAccounts ==
   [signer |-> {"owner"},
    writes |-> {"owner", "vault", "position", "collateralAta", "otherAta",
                "shareEscrow", "ownerShareAta", "ownerCollateralAta",
                "ownerOtherAta"},
    reads |-> {"record", "shareMint", "collateralMint", "otherMint"},
    tied |-> {"position", "record", "shareMint", "collateralMint",
              "otherMint", "collateralAta", "otherAta", "shareEscrow",
              "ownerShareAta", "ownerCollateralAta", "ownerOtherAta"}]

\* vaultClaimPremium: anyone moves the vault's premium into the vault.
VaultClaimPremiumAccounts ==
   [signer |-> {"cranker"},
    writes |-> {"vault", "series", "quoteVault", "vaultQuoteAta"},
    reads |-> {"cranker", "market", "quoteMint"},
    tied |-> {"market", "quoteVault", "vaultQuoteAta"}]

\* vaultDeposit: a depositor queues collateral for the next roll.
VaultDepositAccounts ==
   [signer |-> {"owner"},
    writes |-> {"owner", "vault", "position", "collateralAta",
                "ownerCollateralAta"},
    reads |-> {"collateralMint"},
    tied |-> {"position", "collateralMint", "collateralAta"}]

\* vaultPostBid: the manager posts or refreshes the vault's bid.
VaultPostBidAccounts ==
   [signer |-> {"manager"},
    writes |-> {"manager", "bid"},
    reads |-> {"vault", "market", "series"},
    tied |-> {"market", "bid"}]

\* vaultQuote: the manager writes with the vault's collateral.
VaultQuoteAccounts ==
   [signer |-> {"manager"},
    writes |-> {"manager", "vault", "series", "collateralVault",
                "collateralAta"},
    reads |-> {"protocol", "market", "collateralMint"},
    tied |-> {"protocol", "market", "collateralMint", "collateralVault",
              "collateralAta"}]

\* vaultRequestWithdraw: a depositor queues shares for the next roll.
VaultRequestWithdrawAccounts ==
   [signer |-> {"owner"},
    writes |-> {"owner", "vault", "position", "shareMint", "ownerShareAta",
                "shareEscrow"},
    reads |-> {},
    tied |-> {"position", "shareMint", "shareEscrow"}]

\* vaultRoll: anyone closes the vault's epoch once it is due.
VaultRollAccounts ==
   [signer |-> {"cranker"},
    writes |-> {"cranker", "vault", "record", "shareMint", "shareEscrow"},
    reads |-> {"market", "collateralAta", "otherAta"},
    tied |-> {"market", "record", "shareMint", "collateralAta", "otherAta",
              "shareEscrow"}]

\* vaultSetHalt: the vault is halted, or the halt is lifted.
VaultSetHaltAccounts ==
   [signer |-> {"signer"},
    writes |-> {"vault"},
    reads |-> {"signer", "protocol"},
    tied |-> {"protocol"}]

\* vaultSettle: anyone settles the vault's own slot in a series.
VaultSettleAccounts ==
   [signer |-> {"cranker"},
    writes |-> {"cranker", "vault", "series", "collateralVault",
                "settlementVault", "quoteVault", "vaultUnderlyingAta",
                "vaultQuoteAta"},
    reads |-> {"market", "underlyingMint", "quoteMint"},
    tied |-> {"market", "collateralVault", "settlementVault", "quoteVault",
              "vaultUnderlyingAta", "vaultQuoteAta"}]

\* vaultWithdrawUnsold: the manager takes unsold collateral back to the vault.
VaultWithdrawUnsoldAccounts ==
   [signer |-> {"manager"},
    writes |-> {"manager", "vault", "series", "collateralVault",
                "collateralAta"},
    reads |-> {"protocol", "market", "collateralMint"},
    tied |-> {"protocol", "market", "collateralMint", "collateralVault",
              "collateralAta"}]

\* withdrawFees: the authority sends fees to the treasury.
WithdrawFeesAccounts ==
   [signer |-> {"authority"},
    writes |-> {"feeVault", "treasuryQuoteAta"},
    reads |-> {"authority", "protocol", "quoteMint", "treasury"},
    tied |-> {"protocol", "feeVault", "treasuryQuoteAta"}]

\* withdrawUnsold: a writer takes unsold collateral back.
WithdrawUnsoldAccounts ==
   [signer |-> {"writer"},
    writes |-> {"writer", "series", "collateralVault", "writerCollateralAta"},
    reads |-> {"protocol", "market", "collateralMint"},
    tied |-> {"protocol", "market", "collateralVault"}]

-----------------------------------------------------------------------------
(* The whole interface.                                                    *)

AccountsOf ==
  [autoExercise |-> AutoExerciseAccounts,
   buy |-> BuyAccounts,
   cancelAsk |-> CancelAskAccounts,
   claimPremium |-> ClaimPremiumAccounts,
   closeSeries |-> CloseSeriesAccounts,
   createMarket |-> CreateMarketAccounts,
   createSeries |-> CreateSeriesAccounts,
   disableAutoExercise |-> DisableAutoExerciseAccounts,
   enableAutoExercise |-> EnableAutoExerciseAccounts,
   exercise |-> ExerciseAccounts,
   initProtocol |-> InitProtocolAccounts,
   initVault |-> InitVaultAccounts,
   observeHalt |-> ObserveHaltAccounts,
   quote |-> QuoteAccounts,
   sellToVault |-> SellToVaultAccounts,
   setVaultParams |-> SetVaultParamsAccounts,
   settleWriter |-> SettleWriterAccounts,
   updateMarket |-> UpdateMarketAccounts,
   updateProtocol |-> UpdateProtocolAccounts,
   vaultCancelAsk |-> VaultCancelAskAccounts,
   vaultClaim |-> VaultClaimAccounts,
   vaultClaimPremium |-> VaultClaimPremiumAccounts,
   vaultDeposit |-> VaultDepositAccounts,
   vaultPostBid |-> VaultPostBidAccounts,
   vaultQuote |-> VaultQuoteAccounts,
   vaultRequestWithdraw |-> VaultRequestWithdrawAccounts,
   vaultRoll |-> VaultRollAccounts,
   vaultSetHalt |-> VaultSetHaltAccounts,
   vaultSettle |-> VaultSettleAccounts,
   vaultWithdrawUnsold |-> VaultWithdrawUnsoldAccounts,
   withdrawFees |-> WithdrawFeesAccounts,
   withdrawUnsold |-> WithdrawUnsoldAccounts]

Writes(ix) == AccountsOf[ix].writes
Signers(ix) == AccountsOf[ix].signer

\* The table is consistent: an account is listed once, and whoever must sign
\* and whatever is tied to another account is listed.
ASSUME AccountTables ==
  \A ix \in DOMAIN AccountsOf :
    LET a == AccountsOf[ix]
    IN  /\ a.writes \cap a.reads = {}
        /\ a.signer \cup a.tied \subseteq a.writes \cup a.reads

\* An instruction anyone may send pays only accounts that are tied to somebody
\* else's: what it may write at its caller's choice holds no other token.
ASSUME CranksPayTied ==
  LET chosen(ix) == AccountsOf[ix].writes \ AccountsOf[ix].tied
  IN  /\ \A ix \in {"settleWriter", "vaultSettle", "vaultRoll", "vaultClaimPremium",
                    "observeHalt"} : chosen(ix) \subseteq {"cranker", "series", "vault"}
      /\ chosen("closeSeries")
           \subseteq {"cranker", "series", "rentReceiver", "underlyingMint"}
      /\ chosen("autoExercise") \subseteq {"keeper", "holderPositionAta", "keeperQuoteAta"}
=============================================================================
