------------------------------ MODULE Layouts ------------------------------
(***************************************************************************)
(* What the program's accounts and events look like in bytes, as           *)
(* packages/sdk/src/idl/roster_finance.ts publishes it.  Program, SDK,     *)
(* indexer and web application share nothing else, and a disagreement      *)
(* shows up as a wrong number, not as an error: a padding byte between two *)
(* fields of a zero-copy account, a filter at the wrong offset, an event   *)
(* field read under a name it does not have.                               *)
(*                                                                         *)
(* A layout is the sequence of an account's fields, a type its size and    *)
(* its alignment in C.  Discriminators are the eight bytes before it.      *)
(***************************************************************************)
EXTENDS Integers, Sequences, SequencesExt, FiniteSetsExt

u8 == [bytes |-> 1, align |-> 1]
bool == [bytes |-> 1, align |-> 1]
u16 == [bytes |-> 2, align |-> 2]
u32 == [bytes |-> 4, align |-> 4]
i32 == [bytes |-> 4, align |-> 4]
u64 == [bytes |-> 8, align |-> 8]
i64 == [bytes |-> 8, align |-> 8]
u128 == [bytes |-> 16, align |-> 16]
pubkey == [bytes |-> 32, align |-> 1]
ArrayOf(t, n) == [bytes |-> t.bytes * n, align |-> t.align]
\* Borsh's Option at its longest.
OptionOf(t) == [bytes |-> 1 + t.bytes, align |-> 1]
\* An enum without, and one with, a byte beside its tag.
SideEnum == u8
VerificationEnum == [bytes |-> 2, align |-> 1]

Fields(layout) == {layout[i][1] : i \in DOMAIN layout}
TypeOf(layout, f) == layout[CHOOSE i \in DOMAIN layout : layout[i][1] = f][2]
BytesOf(layout) == FoldLeft(LAMBDA n, field : n + field[2].bytes, 0, layout)
OffsetOf(layout, i) == BytesOf(SubSeq(layout, 1, i - 1))
AlignOf(layout) == Max({layout[i][2].align : i \in DOMAIN layout})
RecordOf(layout) == [bytes |-> BytesOf(layout), align |-> AlignOf(layout)]

-----------------------------------------------------------------------------
(* Accounts and arguments.                                                 *)

\* A resident ask of a series.
AskLayout ==
  << <<"remainingLots6", u64>>, <<"askPerLot", u64>>, <<"seq", u64>>,
     <<"writerSlot", u8>>, <<"pad", ArrayOf(u8, 7)>> >>

\* A writer's accounts in a series.
WriterSlotLayout ==
  << <<"writer", pubkey>>, <<"pSnap", ArrayOf(u64, 2)>>,
     <<"depositedLots6", u64>>, <<"withdrawnLots6", u64>>,
     <<"soldLots6", u64>>, <<"openLots6", u64>>, <<"assignedLots6", u64>>,
     <<"premiumClaimable", u64>>, <<"epochSnap", u32>>, <<"scaleSnap", u8>>,
     <<"settled", u8>>, <<"pad", ArrayOf(u8, 10)>> >>

\* One term: the pool, the asks and the writers' slots.
SeriesLayout ==
  << <<"market", pubkey>>, <<"collateralVault", pubkey>>,
     <<"settlementVault", pubkey>>, <<"quoteVault", pubkey>>,
     <<"positionMint", pubkey>>, <<"rentPayer", pubkey>>,
     <<"strikeUsdcPerLot", u64>>, <<"expiryTs", i64>>,
     <<"totalSoldLots6", u64>>, <<"totalExercisedLots6", u64>>,
     <<"unassignedLots6", u64>>, <<"p", ArrayOf(u64, 2)>>,
     <<"haltedAt", i64>>, <<"resumedAt", i64>>, <<"seq", u64>>,
     <<"epoch", u32>>, <<"scale", u8>>, <<"state", u8>>, <<"side", u8>>,
     <<"bump", u8>>, <<"asksLen", u8>>, <<"pad", ArrayOf(u8, 7)>>,
     <<"asks", ArrayOf(RecordOf(AskLayout), 32)>>,
     <<"writers", ArrayOf(RecordOf(WriterSlotLayout), 32)>>,
     <<"reserved", ArrayOf(u8, 64)>> >>

\* A listed underlying.
MarketConfigLayout ==
  << <<"bump", u8>>, <<"mint", pubkey>>, <<"quoteMint", pubkey>>,
     <<"tokenProgram", pubkey>>, <<"decimals", u8>>,
     <<"hasTransferFee", bool>>, <<"hasPermanentDelegate", bool>>,
     <<"pausable", bool>>, <<"hookProgram", pubkey>>,
     <<"tokenFeedId", ArrayOf(u8, 32)>>, <<"equityFeedId", ArrayOf(u8, 32)>>,
     <<"allowedExpiries", ArrayOf(i64, 4)>>, <<"strikeStep", u64>>,
     <<"minStrike", u64>>, <<"maxStrike", u64>>, <<"maxLiveSeries", u16>>,
     <<"liveSeries", u16>>, <<"minLots6", u64>>, <<"maxLots6", u64>>,
     <<"maxWriterLots6", u64>>, <<"tier", u8>>, <<"listed", bool>>,
     <<"paused", bool>>, <<"issuerPausedAt", i64>>,
     <<"maxPriceAgeSecs", u32>>, <<"maxConfBps", u16>>,
     <<"symbol", ArrayOf(u8, 8)>>, <<"feedPricesUiShare", bool>>,
     <<"reserved", ArrayOf(u8, 55)>> >>

\* The configuration of the program.
ProtocolLayout ==
  << <<"bump", u8>>, <<"authority", pubkey>>, <<"pauseAuthority", pubkey>>,
     <<"treasury", pubkey>>, <<"quoteMint", pubkey>>, <<"feeBps", u16>>,
     <<"integratorShareBps", u16>>, <<"keeperFeeUsdc", u64>>,
     <<"graceSecs", i64>>, <<"pausedAll", bool>>, <<"seriesCreator", pubkey>>,
     <<"reserved", ArrayOf(u8, 32)>> >>

\* A supply-side vault.
VaultLayout ==
  << <<"bump", u8>>, <<"kind", u8>>, <<"state", u8>>, <<"market", pubkey>>,
     <<"collateralMint", pubkey>>, <<"otherMint", pubkey>>,
     <<"manager", pubkey>>, <<"shareMint", pubkey>>,
     <<"collateralAta", pubkey>>, <<"otherAta", pubkey>>, <<"epoch", u32>>,
     <<"epochStartTs", i64>>, <<"nextRollTs", i64>>,
     <<"rollIntervalSecs", i64>>, <<"totalShares", u64>>,
     <<"lockedRaw", u64>>, <<"pendingDepositRaw", u64>>,
     <<"pendingWithdrawShares", u64>>, <<"reservedCollateralRaw", u64>>,
     <<"reservedOther", u64>>, <<"capPerSeriesLots6", u64>>,
     <<"capTotalLots6", u64>>, <<"spreadBps", u16>>,
     <<"lastMarkUsdcPerLot", u64>>, <<"markBandBps", u16>>,
     <<"epochPremiumIn", u64>>, <<"epochBuybackOut", u64>>,
     <<"epochAssignedLots6", u64>>, <<"navPerShare1e6", u64>>,
     <<"epochPnlPerShare1e6", i64>>, <<"reserved", ArrayOf(u8, 64)>> >>

\* The vault's bid for its own short.
VaultBidLayout ==
  << <<"bump", u8>>, <<"vault", pubkey>>, <<"series", pubkey>>,
     <<"bidPerLot", u64>>, <<"maxLots6", u64>>, <<"postedAt", i64>>,
     <<"expiresAt", i64>> >>

\* What one depositor has queued.
VaultPositionLayout ==
  << <<"bump", u8>>, <<"vault", pubkey>>, <<"owner", pubkey>>,
     <<"queuedDepositRaw", u64>>, <<"queuedDepositEpoch", u32>>,
     <<"queuedWithdrawShares", u64>>, <<"queuedWithdrawEpoch", u32>>,
     <<"reserved", ArrayOf(u8, 32)>> >>

\* What one roll of a vault fixed.
EpochRecordLayout ==
  << <<"bump", u8>>, <<"vault", pubkey>>, <<"epoch", u32>>,
     <<"rolledAt", i64>>, <<"sharesPerRaw1e12", u128>>,
     <<"collateralPerShare1e12", u128>>, <<"otherPerShare1e12", u128>>,
     <<"navCollateralRaw", u64>>, <<"navOther", u64>>,
     <<"markUsdcPerLot", u64>>, <<"totalSharesAfter", u64>>,
     <<"premiumIn", u64>>, <<"buybackOut", u64>>, <<"assignedLots6", u64>>,
     <<"pnlPerShare1e6", i64>> >>

\* A holder's opt-in for one series.
AutoExerciseLayout ==
  << <<"bump", u8>>, <<"holder", pubkey>>, <<"series", pubkey>>,
     <<"enabled", bool>>, <<"minItmBps", u16>>,
     <<"reserved", ArrayOf(u8, 16)>> >>

\* Argument of initProtocol.
InitProtocolParamsLayout ==
  << <<"pauseAuthority", pubkey>>, <<"treasury", pubkey>>, <<"feeBps", u16>>,
     <<"integratorShareBps", u16>>, <<"keeperFeeUsdc", u64>>,
     <<"graceSecs", i64>> >>

\* Argument of updateProtocol.
UpdateProtocolParamsLayout ==
  << <<"authority", OptionOf(pubkey)>>,
     <<"pauseAuthority", OptionOf(pubkey)>>, <<"treasury", OptionOf(pubkey)>>,
     <<"feeBps", OptionOf(u16)>>, <<"integratorShareBps", OptionOf(u16)>>,
     <<"keeperFeeUsdc", OptionOf(u64)>>, <<"graceSecs", OptionOf(i64)>>,
     <<"pausedAll", OptionOf(bool)>>, <<"seriesCreator", OptionOf(pubkey)>> >>

\* Argument of createMarket.
CreateMarketParamsLayout ==
  << <<"tokenFeedId", ArrayOf(u8, 32)>>, <<"equityFeedId", ArrayOf(u8, 32)>>,
     <<"allowedExpiries", ArrayOf(i64, 4)>>, <<"strikeStep", u64>>,
     <<"minStrike", u64>>, <<"maxStrike", u64>>, <<"maxLiveSeries", u16>>,
     <<"minLots6", u64>>, <<"maxLots6", u64>>, <<"maxWriterLots6", u64>>,
     <<"tier", u8>>, <<"maxPriceAgeSecs", u32>>, <<"maxConfBps", u16>>,
     <<"symbol", ArrayOf(u8, 8)>>, <<"feedPricesUiShare", bool>> >>

\* Argument of updateMarket: only what is given changes.
UpdateMarketParamsLayout ==
  << <<"allowedExpiries", OptionOf(ArrayOf(i64, 4))>>,
     <<"strikeStep", OptionOf(u64)>>, <<"minStrike", OptionOf(u64)>>,
     <<"maxStrike", OptionOf(u64)>>, <<"maxLiveSeries", OptionOf(u16)>>,
     <<"minLots6", OptionOf(u64)>>, <<"maxLots6", OptionOf(u64)>>,
     <<"maxWriterLots6", OptionOf(u64)>>, <<"tier", OptionOf(u8)>>,
     <<"listed", OptionOf(bool)>>, <<"paused", OptionOf(bool)>>,
     <<"maxPriceAgeSecs", OptionOf(u32)>>, <<"maxConfBps", OptionOf(u16)>> >>

\* Argument of initVault.
VaultParamsLayout ==
  << <<"kind", u8>>, <<"manager", pubkey>>, <<"rollIntervalSecs", i64>>,
     <<"firstRollTs", i64>>, <<"capPerSeriesLots6", u64>>,
     <<"capTotalLots6", u64>>, <<"spreadBps", u16>>, <<"markBandBps", u16>> >>

\* Argument of setVaultParams.
VaultUpdateLayout ==
  << <<"manager", OptionOf(pubkey)>>, <<"capPerSeriesLots6", OptionOf(u64)>>,
     <<"capTotalLots6", OptionOf(u64)>>, <<"spreadBps", OptionOf(u16)>>,
     <<"markBandBps", OptionOf(u16)>>, <<"rollIntervalSecs", OptionOf(i64)>>,
     <<"nextRollTs", OptionOf(i64)>> >>

\* A Pyth price, as the receiver program stores it.
PriceFeedMessageLayout ==
  << <<"feedId", ArrayOf(u8, 32)>>, <<"price", i64>>, <<"conf", u64>>,
     <<"exponent", i32>>, <<"publishTime", i64>>, <<"prevPublishTime", i64>>,
     <<"emaPrice", i64>>, <<"emaConf", u64>> >>

\* A verified Pyth update.
PriceUpdateV2Layout ==
  << <<"writeAuthority", pubkey>>, <<"verificationLevel", VerificationEnum>>,
     <<"priceMessage", RecordOf(PriceFeedMessageLayout)>>,
     <<"postedSlot", u64>> >>

-----------------------------------------------------------------------------
(* Events.                                                                 *)

AskCancelledLayout ==
  << <<"series", pubkey>>, <<"writer", pubkey>>, <<"seq", u64>> >>

AskPostedLayout ==
  << <<"series", pubkey>>, <<"writer", pubkey>>, <<"lots6", u64>>,
     <<"askPerLot", u64>>, <<"seq", u64>>, <<"evictedSeq", u64>> >>

BidPostedLayout ==
  << <<"vault", pubkey>>, <<"series", pubkey>>, <<"bidPerLot", u64>>,
     <<"maxLots6", u64>>, <<"expiresAt", i64>> >>

BoughtLayout ==
  << <<"series", pubkey>>, <<"buyer", pubkey>>, <<"lots6Filled", u64>>,
     <<"lots6Requested", u64>>, <<"premiumPaid", u64>>, <<"fee", u64>>,
     <<"asksWalked", u8>> >>

BoughtBackLayout ==
  << <<"vault", pubkey>>, <<"series", pubkey>>, <<"holder", pubkey>>,
     <<"lots6", u64>>, <<"requestedLots6", u64>>, <<"premium", u64>> >>

CollateralWithdrawnLayout ==
  << <<"series", pubkey>>, <<"writer", pubkey>>, <<"lots6", u64>> >>

ExercisedLayout ==
  << <<"series", pubkey>>, <<"holder", pubkey>>, <<"lots6", u64>>,
     <<"usdc", u64>>, <<"raw", u64>>, <<"auto", bool>> >>

FeesWithdrawnLayout ==
  << <<"amount", u64>>, <<"to", pubkey>> >>

FillLayout ==
  << <<"series", pubkey>>, <<"buyer", pubkey>>, <<"writer", pubkey>>,
     <<"lots6", u64>>, <<"askPerLot", u64>>, <<"premium", u64>>,
     <<"seq", u64>> >>

MarketCreatedLayout ==
  << <<"market", pubkey>>, <<"mint", pubkey>>, <<"tier", u8>> >>

MarketUpdatedLayout ==
  << <<"market", pubkey>>, <<"paused", bool>>, <<"listed", bool>> >>

PauseToggledLayout ==
  << <<"market", OptionOf(pubkey)>>, <<"paused", bool>> >>

PremiumClaimedLayout ==
  << <<"series", pubkey>>, <<"writer", pubkey>>, <<"amount", u64>> >>

SeriesClosedLayout ==
  << <<"series", pubkey>>, <<"dustCollateral", u64>>,
     <<"dustSettlement", u64>>, <<"mintClosed", bool>> >>

SeriesCreatedLayout ==
  << <<"series", pubkey>>, <<"market", pubkey>>, <<"side", SideEnum>>,
     <<"strikeUsdcPerLot", u64>>, <<"expiryTs", i64>>,
     <<"positionMint", pubkey>> >>

VaultClaimedLayout ==
  << <<"vault", pubkey>>, <<"owner", pubkey>>, <<"epoch", u32>>,
     <<"shares", u64>>, <<"collateralRaw", u64>>, <<"other", u64>> >>

VaultCreatedLayout ==
  << <<"vault", pubkey>>, <<"market", pubkey>>, <<"kind", u8>>,
     <<"shareMint", pubkey>>, <<"manager", pubkey>> >>

VaultDepositedLayout ==
  << <<"vault", pubkey>>, <<"owner", pubkey>>, <<"raw", u64>>,
     <<"epoch", u32>> >>

VaultHaltToggledLayout ==
  << <<"vault", pubkey>>, <<"halted", bool>>, <<"reason", u8>> >>

VaultQuotedLayout ==
  << <<"vault", pubkey>>, <<"series", pubkey>>, <<"depositLots6", u64>>,
     <<"askLots6", u64>>, <<"askPerLot", u64>>, <<"seq", u64>> >>

VaultRolledLayout ==
  << <<"vault", pubkey>>, <<"epoch", u32>>, <<"navCollateralRaw", u64>>,
     <<"navOther", u64>>, <<"markUsdcPerLot", u64>>, <<"sharesMinted", u64>>,
     <<"sharesBurned", u64>>, <<"totalShares", u64>>, <<"premiumIn", u64>>,
     <<"buybackOut", u64>>, <<"assignedLots6", u64>>,
     <<"pnlPerShare1e6", i64>> >>

VaultSettledLayout ==
  << <<"vault", pubkey>>, <<"series", pubkey>>, <<"collateralOut", u64>>,
     <<"settlementOut", u64>>, <<"premiumOut", u64>>,
     <<"assignedLots6", u64>> >>

VaultWithdrawRequestedLayout ==
  << <<"vault", pubkey>>, <<"owner", pubkey>>, <<"shares", u64>>,
     <<"epoch", u32>> >>

WriterSettledLayout ==
  << <<"series", pubkey>>, <<"writer", pubkey>>, <<"freeLots6", u64>>,
     <<"unassignedLots6", u64>>, <<"assignedLots6", u64>>,
     <<"collateralOut", u64>>, <<"settlementOut", u64>>,
     <<"premiumOut", u64>> >>

-----------------------------------------------------------------------------
EventLayouts ==
  [AskCancelled |-> AskCancelledLayout,
   AskPosted |-> AskPostedLayout,
   BidPosted |-> BidPostedLayout,
   Bought |-> BoughtLayout,
   BoughtBack |-> BoughtBackLayout,
   CollateralWithdrawn |-> CollateralWithdrawnLayout,
   Exercised |-> ExercisedLayout,
   FeesWithdrawn |-> FeesWithdrawnLayout,
   Fill |-> FillLayout,
   MarketCreated |-> MarketCreatedLayout,
   MarketUpdated |-> MarketUpdatedLayout,
   PauseToggled |-> PauseToggledLayout,
   PremiumClaimed |-> PremiumClaimedLayout,
   SeriesClosed |-> SeriesClosedLayout,
   SeriesCreated |-> SeriesCreatedLayout,
   VaultClaimed |-> VaultClaimedLayout,
   VaultCreated |-> VaultCreatedLayout,
   VaultDeposited |-> VaultDepositedLayout,
   VaultHaltToggled |-> VaultHaltToggledLayout,
   VaultQuoted |-> VaultQuotedLayout,
   VaultRolled |-> VaultRolledLayout,
   VaultSettled |-> VaultSettledLayout,
   VaultWithdrawRequested |-> VaultWithdrawRequestedLayout,
   WriterSettled |-> WriterSettledLayout]

AccountLayouts ==
  [autoExercise |-> AutoExerciseLayout,
   epochRecord |-> EpochRecordLayout,
   marketConfig |-> MarketConfigLayout,
   protocol |-> ProtocolLayout,
   series |-> SeriesLayout,
   vault |-> VaultLayout,
   vaultBid |-> VaultBidLayout,
   vaultPosition |-> VaultPositionLayout]

\* The program's own refusals; the first has code 6000.
ErrorNames ==
  <<"FeeOutOfRange", "Overflow", "Unauthorized", "WrongQuoteMint",
    "TooFewDecimals", "NotListed", "Paused", "ExpiryOffGrid", "StrikeOffGrid",
    "SeriesCapReached", "WrongVaultMint", "Expired", "NotExpired", "Halted",
    "SizeOutOfRange", "NoWriterSlot", "WriterSlotsFull", "WriterCapReached",
    "InsufficientFreeCollateral", "AskRejected", "AskNotFound", "QuoteMoved",
    "IntegratorNotRegistered", "InsufficientPosition", "AlreadySettled",
    "VaultsNotEmpty", "WritersUnsettled", "GraceNotElapsed",
    "WrongRentReceiver", "WrongAccount", "WrongTokenProgram",
    "BadPriceUpdate", "NotInTheMoney", "AutoExerciseDisabled",
    "OutsideWindow", "VaultHalted", "RollNotDue", "MarkOutOfBand",
    "NothingQueued", "EpochNotRolled", "NoBid", "VaultCapReached",
    "ExpiryPastRoll", "UnsettledCollateral">>

-----------------------------------------------------------------------------
(* What the other side takes from them.                                    *)

\* The fields a wallet's history reads of each event.
ReadByReceipts ==
  [Bought |-> {"series", "buyer", "lots6Filled", "lots6Requested", "premiumPaid", "fee"},
   Exercised |-> {"series", "holder", "lots6", "usdc", "auto"},
   AskPosted |-> {"series", "writer", "lots6", "askPerLot"},
   PremiumClaimed |-> {"series", "writer", "amount"},
   CollateralWithdrawn |-> {"series", "writer", "lots6"},
   WriterSettled |-> {"series", "writer", "unassignedLots6", "assignedLots6",
                      "settlementOut", "premiumOut"}]

\* The fields a vault's page reads.
ReadByVaultPage ==
  [VaultRolled |-> {"epoch", "markUsdcPerLot", "pnlPerShare1e6"},
   BoughtBack |-> {"lots6", "premium"},
   VaultDeposited |-> {"raw"},
   VaultQuoted |-> {"askLots6", "askPerLot"},
   BidPosted |-> {"maxLots6", "bidPerLot"},
   VaultSettled |-> {"assignedLots6"}]

\* The indexer learns a series from the event that created it.
ReadByIndexer == [SeriesCreated |-> {"series", "market"}]

\* The events it shows as a series' history, found by their field "series".
HistoryOfSeries == {"Exercised", "WriterSettled", "SeriesClosed"}

\* The refusals the web application tells apart by name.
Classified ==
  {"QuoteMoved", "InsufficientPosition", "Paused", "Halted", "SizeOutOfRange",
   "Expired", "NotExpired"}

-----------------------------------------------------------------------------
(* The two sides agree.                                                    *)

Aligned(layout) ==
  /\ \A i \in DOMAIN layout : OffsetOf(layout, i) % layout[i][2].align = 0
  /\ BytesOf(layout) % AlignOf(layout) = 0

\* A zero-copy account is read in place, in C layout, and through the IDL, field
\* after field: the two agree because no field needs padding before it and no
\* record after it.
ASSUME ZeroCopyIsPacked ==
  \A layout \in {AskLayout, WriterSlotLayout, SeriesLayout} : Aligned(layout)

\* A series is created in one instruction, which allocates 10240 bytes at most,
\* and its asks name their slot in one byte.
ASSUME SeriesFits ==
  /\ 8 + BytesOf(SeriesLayout) <= 10240
  /\ BytesOf(AskLayout) = 32
  /\ TypeOf(SeriesLayout, "writers").bytes \div BytesOf(WriterSlotLayout) <= 256

\* The SDK lists a market's series by the bytes behind the discriminator.
ASSUME MarketLeadsSeries ==
  \E i \in DOMAIN SeriesLayout :
    SeriesLayout[i][1] = "market" /\ 8 + OffsetOf(SeriesLayout, i) = 8

\* A partial update offers, for fields of the account it updates, a value of the
\* field's own type; what creates an account gives some of its fields.
UpdatesInPlace(update, account) ==
  \A i \in DOMAIN update :
    /\ update[i][1] \in Fields(account)
    /\ update[i][2].bytes = 1 + TypeOf(account, update[i][1]).bytes
ASSUME UpdatesMatch ==
  /\ UpdatesInPlace(UpdateProtocolParamsLayout, ProtocolLayout)
  /\ UpdatesInPlace(UpdateMarketParamsLayout, MarketConfigLayout)
  /\ UpdatesInPlace(VaultUpdateLayout, VaultLayout)
  /\ \A f \in Fields(InitProtocolParamsLayout) :
       TypeOf(ProtocolLayout, f) = TypeOf(InitProtocolParamsLayout, f)
  /\ \A f \in Fields(CreateMarketParamsLayout) :
       TypeOf(MarketConfigLayout, f) = TypeOf(CreateMarketParamsLayout, f)

\* Whatever is read of an event is a field of it.
Declares(reads) ==
  \A e \in DOMAIN reads : e \in DOMAIN EventLayouts /\ reads[e] \subseteq Fields(EventLayouts[e])
ASSUME EventsDeclareWhatIsRead ==
  /\ Declares(ReadByReceipts) /\ Declares(ReadByVaultPage) /\ Declares(ReadByIndexer)
  /\ \A e \in HistoryOfSeries : "series" \in Fields(EventLayouts[e])
  /\ Classified \subseteq ToSet(ErrorNames)
=============================================================================
