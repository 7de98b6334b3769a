---------------------------- MODULE VaultWriter ----------------------------
(***************************************************************************)
(* One vault of programs/roster_finance writing in several series between  *)
(* two rolls: what locked_raw counts, as the vault's own instructions      *)
(* raise and lower it (instructions/vault.rs), while the series' slots are *)
(* also reached by instructions that know nothing of vaults.               *)
(*                                                                         *)
(* VaultShares has the shares and the money, Series one book in detail;    *)
(* here a slot is its counters, and a halt or a failing transfer is an     *)
(* instruction that does not happen.                                       *)
(***************************************************************************)
EXTENDS Integers, FiniteSets, Functions

CONSTANTS
  Written,          (* the series of the vault's side                       *)
  CoveredCall,      (* VAULT_COVERED_CALL, else VAULT_CASH_SECURED_PUT      *)
  RawPerUnit,       (* market.raw_per_lot6: raw underlying in a lot unit    *)
  PricePerUnit,     (* series -> strike per lot                             *)
  UnitsInLot,       (* LOT6: lot units in a lot                             *)
  LostInTransfer,   (* raw units a deposit loses to the mint's transfer fee *)
  ExpiresAt,        (* series -> expiry_ts                                  *)
  CapPerSeries, CapTotal, RollInterval,
  Wealth,           (* bound: collateral the vault starts with              *)
  Sizes,            (* bound: lots moved by one instruction                 *)
  LastTime          (* bound: the last hour                                *)

ASSUME VaultWriterConstants ==
  /\ CoveredCall \in BOOLEAN /\ IsFiniteSet(Written)
  /\ {RawPerUnit, UnitsInLot, RollInterval} \subseteq Nat \ {0}
  /\ {LostInTransfer, CapPerSeries, CapTotal, Wealth, LastTime} \subseteq Nat
  /\ Sizes \subseteq Nat \ {0}
  /\ PricePerUnit \in [Written -> Nat \ {0}] /\ ExpiresAt \in [Written -> Nat]

VARIABLES
  short,            (* series -> the vault's writer slot there              *)
  lockedIn,         (* locked_raw                                          *)
  spendable,        (* collateral neither reserved nor queued               *)
  nextRoll,         (* next_roll_ts                                         *)
  hour,             (* the clock                                           *)
  accepting,        (* listed, not paused, and the vault not halted         *)
  strangers         (* history: settle_writer was used on a slot of the vault *)

writerVars == <<short, lockedIn, spendable, nextRoll, hour, accepting, strangers>>

-----------------------------------------------------------------------------

NoShort ==
  [claimed |-> FALSE, deposited |-> 0, withdrawn |-> 0, sold |-> 0, open |-> 0,
   resident |-> 0, settled |-> FALSE]

\* collateral_amount with ceil = true, and with ceil = false.
AmountIn(s, lots) ==
  IF CoveredCall THEN lots * RawPerUnit
  ELSE (lots * PricePerUnit[s] + UnitsInLot - 1) \div UnitsInLot
AmountOut(s, lots) ==
  IF CoveredCall THEN lots * RawPerUnit ELSE (lots * PricePerUnit[s]) \div UnitsInLot

Held(s) == short[s].deposited - short[s].withdrawn
FreeOf(s) == Held(s) - short[s].sold - short[s].resident

\* A call credits the whole lots that arrived; a put's deposit bears no fee.
Arrived(amount) == IF amount > LostInTransfer THEN amount - LostInTransfer ELSE 0
Credited(amount, lots) == IF CoveredCall THEN Arrived(amount) \div RawPerUnit ELSE lots

\* Mutant of LockedFor: what was sent is locked, not what the book credited.
LockedAsSent(s, lots, credited) == AmountIn(s, lots)
LockedFor(s, lots, credited) == AmountIn(s, credited)

TotalLots(raw) == IF CoveredCall THEN raw \div RawPerUnit ELSE raw

\* Mutant of Lowered: the balance is set, not lowered.
LoweredToZero(amount) == 0
\* Every reduction of locked_raw saturates.
Lowered(amount) == IF lockedIn > amount THEN lockedIn - amount ELSE 0

WriterInit ==
  /\ short = [s \in Written |-> NoShort]
  /\ lockedIn = 0 /\ spendable = Wealth
  /\ nextRoll = RollInterval /\ hour = 0
  /\ accepting = TRUE /\ strangers = FALSE

-----------------------------------------------------------------------------
(* The manager's instructions.                                             *)

VaultQuote(s, lots, ask) ==
  LET credited == IF lots > 0 THEN Credited(AmountIn(s, lots), lots) ELSE 0
  IN
  /\ accepting
  /\ hour < ExpiresAt[s] /\ ExpiresAt[s] <= nextRoll
  /\ Held(s) + lots <= CapPerSeries
  /\ AmountIn(s, lots) <= spendable
  /\ ask <= FreeOf(s) + credited
  /\ lockedIn' = lockedIn + LockedFor(s, lots, credited)
  /\ lots > 0 /\ CapTotal > 0 => TotalLots(lockedIn') <= CapTotal
  /\ spendable' = spendable - AmountIn(s, lots)
  /\ short' = [short EXCEPT ![s].claimed = TRUE, ![s].deposited = @ + credited,
                            ![s].resident = @ + ask]
  /\ UNCHANGED <<nextRoll, hour, accepting, strangers>>

\* vault_cancel_ask, or the book evicting a worse ask of the vault.
VaultCancelAsk(s) ==
  /\ short[s].resident > 0
  /\ short' = [short EXCEPT ![s].resident = 0]
  /\ UNCHANGED <<lockedIn, spendable, nextRoll, hour, accepting, strangers>>

VaultWithdrawUnsold(s, lots) ==
  /\ short[s].claimed /\ lots <= FreeOf(s)
  /\ short' = [short EXCEPT ![s].withdrawn = @ + lots]
  /\ lockedIn' = Lowered(AmountOut(s, lots))
  /\ spendable' = spendable + AmountOut(s, lots)
  /\ UNCHANGED <<nextRoll, hour, accepting, strangers>>

-----------------------------------------------------------------------------
(* The series, under the vault: buyers, holders, and its slot.             *)

BuyFromVault(s, lots) ==
  /\ hour < ExpiresAt[s] /\ lots <= short[s].resident
  /\ short' = [short EXCEPT ![s].resident = @ - lots, ![s].sold = @ + lots, ![s].open = @ + lots]
  /\ UNCHANGED <<lockedIn, spendable, nextRoll, hour, accepting, strangers>>

\* An exercise assigns some of the vault's open lots to it.
Assign(s, lots) ==
  /\ hour < ExpiresAt[s] /\ lots <= short[s].open
  /\ short' = [short EXCEPT ![s].open = @ - lots]
  /\ UNCHANGED <<lockedIn, spendable, nextRoll, hour, accepting, strangers>>

\* sell_to_vault: the vault's own short shrinks, its collateral stays where it is.
BuyBackShort(s, lots) ==
  /\ accepting
  /\ hour < ExpiresAt[s] /\ lots <= short[s].open
  /\ short' = [short EXCEPT ![s].open = @ - lots, ![s].sold = @ - lots]
  /\ UNCHANGED <<lockedIn, spendable, nextRoll, hour, accepting, strangers>>

\* A slot with nothing left in it is claimed by the next writer of the series.
Recycle(s) ==
  /\ short[s].claimed /\ Held(s) = 0 /\ short[s].sold = 0
  /\ short' = [short EXCEPT ![s] = NoShort]
  /\ UNCHANGED <<lockedIn, spendable, nextRoll, hour, accepting, strangers>>

\* settle_core: never-sold and unassigned collateral comes back to the vault.
Settled(s) ==
  /\ short[s].claimed /\ ~short[s].settled /\ hour >= ExpiresAt[s]
  /\ short' = [short EXCEPT ![s].settled = TRUE, ![s].withdrawn = short[s].deposited,
                            ![s].open = 0]
  /\ spendable' = spendable + AmountOut(s, Held(s) - short[s].sold + short[s].open)

VaultSettle(s) ==
  /\ Settled(s)
  /\ lockedIn' = Lowered(AmountIn(s, Held(s)))
  /\ UNCHANGED <<nextRoll, hour, accepting, strangers>>

\* settle_writer names any writer, and locked_raw is not among its accounts.
SettleWriter(s) ==
  /\ Settled(s)
  /\ strangers' = TRUE
  /\ UNCHANGED <<lockedIn, nextRoll, hour, accepting>>

-----------------------------------------------------------------------------

\* The next roll is the first of the vault's roll times after this hour.
NextRollAfter(now) == (now \div RollInterval + 1) * RollInterval

VaultRoll ==
  /\ hour >= nextRoll /\ lockedIn = 0
  /\ nextRoll' = NextRollAfter(hour)
  /\ UNCHANGED <<short, lockedIn, spendable, hour, accepting, strangers>>

\* set_vault_params: the next roll is brought forward or pushed back, never
\* to before now.
MoveRoll(time) ==
  /\ nextRoll' = IF time > hour THEN time ELSE hour
  /\ UNCHANGED <<short, lockedIn, spendable, hour, accepting, strangers>>

SetAccepting ==
  /\ accepting' = ~accepting
  /\ UNCHANGED <<short, lockedIn, spendable, nextRoll, hour, strangers>>

ClockTick ==
  /\ hour < LastTime /\ hour' = hour + 1
  /\ UNCHANGED <<short, lockedIn, spendable, nextRoll, accepting, strangers>>

Manage(s) ==
  \/ \E lots \in Sizes \cup {0}, ask \in Sizes : VaultQuote(s, lots, ask)
  \/ VaultCancelAsk(s)
  \/ \E lots \in Sizes : VaultWithdrawUnsold(s, lots)

Trade(s) ==
  \/ \E lots \in Sizes : BuyFromVault(s, lots)
  \/ \E lots \in Sizes : Assign(s, lots)
  \/ \E lots \in Sizes : BuyBackShort(s, lots)
  \/ Recycle(s)

WriterNext ==
  \/ \E s \in Written : Manage(s) \/ Trade(s) \/ VaultSettle(s) \/ SettleWriter(s)
  \/ VaultRoll \/ SetAccepting \/ ClockTick
  \/ \E time \in 1 .. LastTime : MoveRoll(time)

WriterSpec == WriterInit /\ [][WriterNext]_writerVars

\* Time passes, and the keeper's sweep settles the vault wherever it may.
WriterFairness ==
  WF_writerVars(ClockTick) /\ \A s \in Written : WF_writerVars(VaultSettle(s))
FairWriterSpec == WriterSpec /\ WriterFairness

-----------------------------------------------------------------------------
(* Properties.                                                             *)

\* What the vault's slots hold, in collateral rounded up series by series.
Collateral == [s \in Written |-> AmountIn(s, Held(s))]

ShortType == [claimed : BOOLEAN, deposited : Nat, withdrawn : Nat, sold : Nat, open : Nat,
              resident : Nat, settled : BOOLEAN]

WriterTypeOK ==
  /\ short \in [Written -> ShortType]
  /\ {lockedIn, spendable, nextRoll, hour} \subseteq Nat
  /\ {accepting, strangers} \subseteq BOOLEAN

\* locked_raw is never less than the collateral the vault's slots hold, rounded
\* up series by series: no roll can price the shares while some of it is out,
\* whatever was withdrawn, bought back, settled or recycled.
LockedCovers == lockedIn >= SumFunction(Collateral)

\* The other side of it for a covered call, fees and dust included: once every
\* slot is settled back nothing stays locked and the roll can go on, unless
\* settle_writer took the place of vault_settle (vault.rs, handle_vault_quote:
\* what is locked is what the book credited).
NothingLeftLocked ==
  CoveredCall /\ ~strangers /\ (\A s \in Written : Held(s) = 0) => lockedIn = 0

\* "every series the vault wrote has settled back (locked_raw is zero)"
\* (handle_vault_roll): the two are the same thing.
SettledBackIsUnlocked ==
  (\A s \in Written : Held(s) = 0) => lockedIn = 0

\* Whatever a covered-call vault locks comes free again, so that it can roll.
LockComesBack == lockedIn > 0 ~> (lockedIn = 0 \/ strangers \/ ~CoveredCall)

\* A roll passes no obligation of the vault by: nothing of what it wrote is still
\* out when the shares are priced, wherever the manager moved the roll to.
RollsWithNothingOut ==
  [][VaultRoll => \A s \in Written : Held(s) = 0]_writerVars
=============================================================================
