------------------------------- MODULE Series -------------------------------
(***************************************************************************)
(* One series of programs/roster_finance: the bounded ask book, the pooled *)
(* collateral, purchases, exercise, the halt rule, settlement and closing. *)
(*                                                                         *)
(* Each action is one instruction.  A Solana transaction is atomic and a   *)
(* failing one leaves no trace, so an instruction whose require! fails is  *)
(* an action that is not enabled.  Position tokens are fungible: only      *)
(* their supply matters, not who holds them.                               *)
(***************************************************************************)
EXTENDS Assignment, SequencesExt

CONSTANTS
  Writers,          (* writer keys                                          *)
  Vaults,           (* the writers that are vault PDAs                      *)
  NoWriter,         (* Pubkey::default(): the slot is empty                 *)
  Side,             (* "call" or "put"                                      *)
  Strike,           (* micro-USDC per lot                                   *)
  RawPerLot,        (* raw underlying in one lot unit                       *)
  FeeBps,           (* taker fee                                            *)
  MintFeeBps,       (* transfer fee of the underlying mint, 0 if it has none *)
  MAX_ASKS, MAX_ASKS_PER_WRITER, MAX_WALK, MAX_WRITERS, MaxWriterLots,
  MinLots, MaxLots, (* the market's size bounds                             *)
  Expiry,           (* expiry_ts                                            *)
  HaltGrace,        (* HALT_GRACE_SECS                                      *)
  CloseGrace        (* protocol.grace_secs                                  *)

CONSTANTS           (* what the runs enumerate                              *)
  Deposits,         (* bound: deposits a quote may bring                    *)
  QuoteLots,        (* bound: sizes of asks                                 *)
  Prices,           (* bound: asks per lot                                  *)
  BuyLots,          (* bound: sizes of purchases                            *)
  MoveLots,         (* bound: sizes of exercises, withdrawals, burns        *)
  MaxQuotes,        (* bound: asks ever posted                              *)
  MaxTime,          (* bound: the clock                                     *)
  PauseTimes        (* bound: when the issuer may pause the mint            *)

SlotIds == 1 .. MAX_WRITERS

ASSUME SeriesConstants ==
  /\ Vaults \subseteq Writers /\ NoWriter \notin Writers
  /\ Side \in {"call", "put"}
  /\ {Strike, RawPerLot, MinLots} \subseteq Nat \ {0}
  /\ {FeeBps, MintFeeBps} \subseteq 0 .. BPS - 1
  /\ {MAX_ASKS, MAX_ASKS_PER_WRITER, MAX_WALK, MAX_WRITERS} \subseteq Nat \ {0}
  /\ {MaxWriterLots, MaxLots, Expiry, HaltGrace, CloseGrace, MaxQuotes, MaxTime} \subseteq Nat

\* Amounts reach the instructions as unsigned integers.
ASSUME InputsAreUnsigned ==
  (Deposits \cup QuoteLots \cup Prices \cup BuyLots \cup MoveLots) \subseteq Nat

VARIABLES
  pool,             (* p, scale, epoch and unassigned_lots6                 *)
  slots,            (* the writer slots                                     *)
  asks,             (* the resident asks, best first                        *)
  seq,              (* the last sequence number given to an ask             *)
  totalSold, totalExercised,
  halt,             (* state, halted_at and resumed_at                      *)
  live,             (* the series account exists                            *)
  bal,              (* what the series' vaults, the fee vault and treasury hold *)
  supply,           (* supply of the position mint                          *)
  exercises,        (* history: how many exercises there were               *)
  trading,          (* listed and neither the market nor the protocol paused *)
  mintPaused,       (* the issuer paused the mint, or froze the vault       *)
  now               (* Clock::unix_timestamp                                *)

ledger == <<pool, slots, asks, seq, totalSold, totalExercised, halt, live, bal,
            supply, exercises>>
world == <<trading, mintPaused, now>>
vars == <<ledger, world>>

-----------------------------------------------------------------------------
(* Amounts.                                                                *)

IsCall == Side = "call"

\* Mutant of CollateralCeil: a put's deposit is rounded down too.
CollateralDepositFloored(lots) ==
  IF IsCall THEN lots * RawPerLot ELSE UsdcPaidFloor(lots, Strike)

\* Collateral for some lots: raw underlying for a call, micro-USDC for a put.
CollateralCeil(lots) == IF IsCall THEN lots * RawPerLot ELSE UsdcOwedCeil(lots, Strike)
CollateralFloor(lots) == IF IsCall THEN lots * RawPerLot ELSE UsdcPaidFloor(lots, Strike)

\* The other leg, as settlement pays it for assigned lots.
SettlementOwed(lots) == IF IsCall THEN UsdcPaidFloor(lots, Strike) ELSE lots * RawPerLot

\* The token program withholds a fee from what arrives, rounded up.
MintFee(amount) == CeilDiv(amount * MintFeeBps, BPS)
\* calculate_inverse_epoch_fee: the fee on the gross amount that nets this one.
InverseMintFee(net) == MintFee(CeilDiv(net * BPS, BPS - MintFeeBps))

\* Mutant of Delivered: the holder does not gross up for the transfer fee.
DeliveredNet(raw) == raw - MintFee(raw)

\* What arrives in the vault when some underlying is sent, and when a holder
\* grosses up a delivery.
Arrived(amount) == amount - MintFee(amount)
Delivered(raw) == Arrived(raw + InverseMintFee(raw))

\* A transfer of underlying needs the mint unpaused and the vault thawed.
CanMoveUnderlying == ~mintPaused

-----------------------------------------------------------------------------
(* Slots and the book.                                                     *)

EmptySlot ==
  [writer |-> NoWriter, deposited |-> 0, withdrawn |-> 0, sold |-> 0, open |-> 0,
   assigned |-> 0, premium |-> 0, p |-> 0, scale |-> 0, epoch |-> 0, settled |-> FALSE]

ClaimedSlot(w) ==
  [EmptySlot EXCEPT !.writer = w, !.p = pool.p, !.scale = pool.scale, !.epoch = pool.epoch]

IsEmpty(s) == s.writer = NoWriter
NothingOwed(s) == s.deposited = s.withdrawn /\ s.sold = 0 /\ s.premium = 0
\* Mutant of IsRecyclable: a slot with collateral but no sale is given away.
IsRecyclableUnsold(s) == IsEmpty(s) \/ s.sold = 0

IsRecyclable(s) == IsEmpty(s) \/ NothingOwed(s)

SlotsOf(w) == {i \in SlotIds : slots[i].writer = w}
Recyclable == {i \in SlotIds : IsRecyclable(slots[i])}

\* find_or_claim_slot: the writer's slot, else the first recyclable one.
SlotFor(w) == IF SlotsOf(w) # {} THEN Min(SlotsOf(w)) ELSE Min(Recyclable)
SlotRecord(w) == IF SlotsOf(w) # {} THEN slots[SlotFor(w)] ELSE ClaimedSlot(w)

\* The positions of a slot's asks in the book, and the lots left in them.
AsksOf(i) == {k \in 1 .. Len(asks) : asks[k].slot = i}
Remaining == [k \in 1 .. Len(asks) |-> asks[k].remaining]
Resident(i) == SumFunctionOnSet(Remaining, AsksOf(i))
Deposited(s) == SatSub(s.deposited, s.withdrawn)
\* Mutant of FreeLots: sold lots still count as free.
FreeLotsIgnoringSold(s, i) == SatSub(Deposited(s), Resident(i))

FreeLots(s, i) == SatSub(SatSub(Deposited(s), s.sold), Resident(i))

\* Sorted insert: after every ask that is no more expensive.
Insert(as, a) ==
  LET after == {k \in 1 .. Len(as) : a.price < as[k].price}
  IN  InsertAt(as, IF after = {} THEN Len(as) + 1 ELSE Min(after), a)

\* post_ask on a full list first evicts the worst ask.
Room == IF Len(asks) = MAX_ASKS THEN Front(asks) ELSE asks

-----------------------------------------------------------------------------
(* The halt rule.                                                          *)

OpenHalt == [state |-> "open", at |-> 0, resumed |-> 0]

\* Mutants of Observe: the grace runs from the pause, or from the last
\* observation after it instead of the first.
ObserveFromPause(h, seen) ==
  IF seen
    THEN [halt |-> [state |-> "halted", at |-> now, resumed |-> 0], halted |-> TRUE]
  ELSE IF h.state = "open" THEN [halt |-> h, halted |-> FALSE]
  ELSE IF now >= h.at + HaltGrace
    THEN [halt |-> [h EXCEPT !.state = "open"], halted |-> FALSE]
  ELSE [halt |-> h, halted |-> TRUE]
ObserveRestarts(h, seen) ==
  IF seen
    THEN [halt |-> [state |-> "halted", at |-> now, resumed |-> 0], halted |-> TRUE]
  ELSE IF h.state = "open" THEN [halt |-> h, halted |-> FALSE]
  ELSE [halt |-> [h EXCEPT !.resumed = now], halted |-> TRUE]

\* observe_halt: the halt record an instruction leaves and whether it found
\* the series halted, given whether it saw the mint paused.
Observe(h, seen) ==
  IF seen
    THEN [halt |-> [state |-> "halted", at |-> now, resumed |-> 0], halted |-> TRUE]
  ELSE IF h.state = "open"
    THEN [halt |-> h, halted |-> FALSE]
  ELSE IF h.resumed = 0
    THEN [halt |-> [h EXCEPT !.resumed = now], halted |-> TRUE]
  ELSE IF now >= h.resumed + HaltGrace
    THEN [halt |-> [h EXCEPT !.state = "open"], halted |-> FALSE]
  ELSE [halt |-> h, halted |-> TRUE]

\* A halt that reaches expiry keeps exercise open.
EffectiveExpiry(h) ==
  IF h.state = "halted"
    THEN GreaterOf(Expiry, (IF h.resumed > 0 THEN h.resumed ELSE h.at) + HaltGrace)
    ELSE Expiry

\* Mutant of ExerciseOpen: the last second counts for both sides.
ExerciseOpenInclusive == EffectiveExpiry(halt) >= now

\* Exercise is open until the effective expiry, settlement from it on.
ExerciseOpen == EffectiveExpiry(halt) > now

\* A quote passes the collateral mint: for a put that is USDC, never paused.
SeenByQuote == IsCall /\ mintPaused

-----------------------------------------------------------------------------
Init ==
  /\ pool = FreshPool
  /\ slots = [i \in SlotIds |-> EmptySlot]
  /\ asks = <<>>
  /\ seq = 0
  /\ totalSold = 0 /\ totalExercised = 0
  /\ halt = OpenHalt
  /\ live = TRUE
  /\ bal = [collateral |-> 0, settlement |-> 0, quote |-> 0, fee |-> 0, treasury |-> 0]
  /\ supply = 0
  /\ exercises = 0
  /\ trading = TRUE /\ mintPaused = FALSE
  /\ now = 1

\* Deposit some lots of collateral and post an ask against what is free.
Quote(w, dep, lots, price) ==
  LET i == SlotFor(w)
      o == Observe(halt, SeenByQuote)
      sent == CollateralCeil(dep)
      arrived == IF IsCall THEN Arrived(sent) ELSE sent
      credited == IF IsCall THEN arrived \div RawPerLot ELSE dep
      s == [SlotRecord(w) EXCEPT !.deposited = @ + credited]
      ask == [slot |-> i, remaining |-> lots, price |-> price, seq |-> seq + 1]
  IN  /\ live /\ trading /\ Expiry > now
      /\ ~o.halted
      /\ price > 0 /\ lots >= MinLots /\ lots <= MaxLots
      /\ SlotsOf(w) # {} \/ Recyclable # {}
      /\ dep > 0 => Deposited(s) <= MaxWriterLots
      /\ FreeLots(s, i) >= lots
      /\ Cardinality(AsksOf(i)) < MAX_ASKS_PER_WRITER
      /\ Len(asks) = MAX_ASKS => price < Last(asks).price
      /\ seq < MaxQuotes
      /\ slots' = [slots EXCEPT ![i] = s]
      /\ asks' = Insert(Room, ask)
      /\ seq' = seq + 1
      /\ halt' = o.halt
      /\ bal' = [bal EXCEPT !.collateral = @ + arrived]
      /\ UNCHANGED <<pool, totalSold, totalExercised, live, supply, exercises, world>>

CancelAsk(k) ==
  /\ live
  /\ asks' = RemoveAt(asks, k)
  /\ UNCHANGED <<pool, slots, seq, totalSold, totalExercised, halt, live, bal,
                 supply, exercises, world>>

WithdrawUnsold(i, lots) ==
  LET amount == CollateralFloor(lots)
  IN  /\ live /\ ~IsEmpty(slots[i])
      /\ lots > 0 /\ FreeLots(slots[i], i) >= lots
      /\ IsCall => CanMoveUnderlying
      /\ amount <= bal.collateral
      /\ slots' = [slots EXCEPT ![i].withdrawn = @ + lots]
      /\ bal' = [bal EXCEPT !.collateral = @ - amount]
      /\ UNCHANGED <<pool, asks, seq, totalSold, totalExercised, halt, live,
                     supply, exercises, world>>

ClaimPremium(i) ==
  /\ live /\ slots[i].premium > 0
  /\ slots[i].premium <= bal.quote
  /\ slots' = [slots EXCEPT ![i].premium = 0]
  /\ bal' = [bal EXCEPT !.quote = @ - slots[i].premium]
  /\ UNCHANGED <<pool, asks, seq, totalSold, totalExercised, halt, live,
                 supply, exercises, world>>

\* How many lots a purchase takes from the k-th ask of its walk: the walk
\* stops at the limit price, after MAX_WALK asks, or when it is filled.
Take(k, lots, limit) ==
  IF k <= MAX_WALK /\ asks[k].price <= limit
    THEN LesserOf(asks[k].remaining, SatSub(lots, SumFunctionOnSet(Remaining, 1 .. k - 1)))
    ELSE 0

\* Walk the book from the best ask.  The premium is floored and the fee
\* rounded up for every fill.  The asks emptied leave from the front: the walk
\* goes past an ask only when it has emptied it.
Buy(lots, limit) ==
  LET Walk == 1 .. Len(asks)
      take == [k \in Walk |-> Take(k, lots, limit)]
      premium == [k \in Walk |-> UsdcPaidFloor(take[k], asks[k].price)]
      fee == [k \in Walk |-> FeeCeil(premium[k], FeeBps)]
      Of(i, f) == SumFunctionOnSet(f, AsksOf(i))
      filled == SumFunction(take)
      fees == SumFunction(fee)
      net == SumFunction(premium) - fees
      left == [k \in Walk |-> [asks[k] EXCEPT !.remaining = @ - take[k]]]
      emptied == Cardinality({k \in Walk : left[k].remaining = 0})
  IN  /\ live /\ trading /\ Expiry > now /\ halt.state = "open"
      /\ lots >= MinLots /\ lots <= MaxLots
      /\ filled > 0
      /\ slots' = [i \in SlotIds |->
                     IF Of(i, take) = 0 THEN slots[i]
                     ELSE [AddOpen(pool, slots[i], Of(i, take)) EXCEPT
                             !.premium = @ + Of(i, premium) - Of(i, fee)]]
      /\ asks' = SubSeq(left, emptied + 1, Len(asks))
      /\ totalSold' = totalSold + filled
      /\ pool' = [pool EXCEPT !.u = @ + filled]
      /\ bal' = [bal EXCEPT !.quote = @ + net, !.fee = @ + fees]
      /\ supply' = supply + filled
      /\ UNCHANGED <<seq, totalExercised, halt, live, exercises, world>>

\* Never gated by the market pause or a price; the holder pays first.
Exercise(q) ==
  LET paid == IF IsCall THEN UsdcOwedCeil(q, Strike) ELSE Delivered(q * RawPerLot)
      out == CollateralFloor(q)
  IN  /\ live /\ ExerciseOpen
      /\ q > 0 /\ q <= pool.u
      /\ MovesProduct(pool, q)
      /\ q <= supply
      /\ CanMoveUnderlying
      /\ out <= bal.collateral
      /\ supply' = supply - q
      /\ bal' = [bal EXCEPT !.settlement = @ + paid, !.collateral = @ - out]
      /\ pool' = ApplyExercise(pool, q)
      /\ totalExercised' = totalExercised + q
      /\ exercises' = exercises + 1
      /\ UNCHANGED <<slots, asks, seq, totalSold, halt, live, world>>

\* sell_to_vault: a holder sells lots back to a vault that is short them.
SellToVault(i, lots) ==
  LET fill == LesserOf(lots, FoldedOpen(pool, slots[i]))
  IN  /\ live /\ Expiry > now
      /\ slots[i].writer \in Vaults
      /\ fill > 0 /\ fill <= supply
      /\ supply' = supply - fill
      /\ slots' = [slots EXCEPT ![i] = BurnOpen(pool, slots[i], fill)]
      /\ pool' = [pool EXCEPT !.u = SatSub(@, fill)]
      /\ totalSold' = SatSub(totalSold, fill)
      /\ UNCHANGED <<asks, seq, totalExercised, halt, live, bal, exercises, world>>

\* Mutant of CollateralOwed: the open lots are not folded first.
CollateralOwedUnfolded(i) ==
  LET s == slots[i]
  IN  CollateralFloor(SatSub(Deposited(s), s.sold) + s.open)
\* What settle_core owes a slot on each leg and what the vaults can pay.
CollateralOwed(i) ==
  LET s == slots[i]
  IN  CollateralFloor(SatSub(Deposited(s), s.sold) + FoldedOpen(pool, s))
CollateralPaid(i) == LesserOf(CollateralOwed(i), bal.collateral)
AssignedAt(i) == Fold(pool, slots[i]).assigned
SettlementPaid(i) == LesserOf(SettlementOwed(AssignedAt(i)), bal.settlement)

Settle(i) ==
  LET s == slots[i]
      f == Fold(pool, s)
      o == Observe(halt, mintPaused)
  IN  /\ live
      /\ ~o.halted
      /\ now >= EffectiveExpiry(o.halt)
      /\ ~IsEmpty(s) /\ ~s.settled
      /\ s.premium <= bal.quote
      /\ slots' = [slots EXCEPT ![i] =
                     [f EXCEPT !.settled = TRUE, !.withdrawn = s.deposited,
                               !.open = 0, !.premium = 0]]
      /\ halt' = o.halt
      /\ bal' = [bal EXCEPT !.collateral = @ - CollateralPaid(i),
                            !.settlement = @ - SettlementPaid(i),
                            !.quote = @ - s.premium]
      /\ UNCHANGED <<pool, asks, seq, totalSold, totalExercised, live, supply,
                     exercises, world>>

\* Sweep the dust and close the vaults; supply need not be zero.
CloseSeries ==
  LET underlying == IF IsCall THEN bal.collateral ELSE bal.settlement
      usdc == IF IsCall THEN bal.settlement ELSE bal.collateral
  IN  /\ live
      /\ halt.state = "open" /\ now >= Expiry + CloseGrace
      /\ \A i \in SlotIds :
           IsEmpty(slots[i]) \/ slots[i].settled \/ NothingOwed(slots[i])
      /\ underlying > 0 => CanMoveUnderlying
      /\ live' = FALSE
      /\ bal' = [collateral |-> 0, settlement |-> 0, quote |-> 0,
                 fee |-> bal.fee + usdc + bal.quote,
                 treasury |-> bal.treasury + Arrived(underlying)]
      /\ UNCHANGED <<pool, slots, asks, seq, totalSold, totalExercised, halt,
                     supply, exercises, world>>

\* Anyone may record what the underlying mint looks like now.
ObserveHalt ==
  /\ live
  /\ halt' = Observe(halt, mintPaused).halt
  /\ UNCHANGED <<pool, slots, asks, seq, totalSold, totalExercised, live, bal,
                 supply, exercises, world>>

-----------------------------------------------------------------------------
(* The world.                                                              *)

\* A holder may burn position tokens with the token program, unseen here.
BurnPosition(n) ==
  /\ live /\ n > 0 /\ n <= supply
  /\ supply' = supply - n
  /\ UNCHANGED <<pool, slots, asks, seq, totalSold, totalExercised, halt, live,
                 bal, exercises, world>>

IssuerPauses ==
  /\ ~mintPaused /\ now \in PauseTimes
  /\ mintPaused' = TRUE
  /\ UNCHANGED <<ledger, trading, now>>

IssuerResumes ==
  /\ mintPaused
  /\ mintPaused' = FALSE
  /\ UNCHANGED <<ledger, trading, now>>

\* update_market and update_protocol: pause or unpause, list or delist.
SetTrading ==
  /\ trading' = ~trading
  /\ UNCHANGED <<ledger, mintPaused, now>>

Tick ==
  /\ now < MaxTime
  /\ now' = now + 1
  /\ UNCHANGED <<ledger, trading, mintPaused>>

WriterStep ==
  \/ \E w \in Writers, dep \in Deposits, lots \in QuoteLots, price \in Prices :
       Quote(w, dep, lots, price)
  \/ \E k \in 1 .. Len(asks) : CancelAsk(k)
  \/ \E i \in SlotIds, lots \in MoveLots : WithdrawUnsold(i, lots)
  \/ \E i \in SlotIds : ClaimPremium(i)

HolderStep ==
  \/ \E lots \in BuyLots, limit \in Prices : Buy(lots, limit)
  \/ \E q \in MoveLots : Exercise(q)
  \/ \E i \in SlotIds, lots \in MoveLots : SellToVault(i, lots)
  \/ \E n \in MoveLots : BurnPosition(n)

CrankStep ==
  \/ \E i \in SlotIds : Settle(i)
  \/ CloseSeries
  \/ ObserveHalt

WorldStep == IssuerPauses \/ IssuerResumes \/ SetTrading \/ Tick

Next == WriterStep \/ HolderStep \/ CrankStep \/ WorldStep

Spec == Init /\ [][Next]_vars

SomeSettled == \E i \in SlotIds : slots[i].settled

\* The same when nobody records an issuer pause once a writer has settled.
TimelyNext == Next /\ (SomeSettled => halt'.at = halt.at)
TimelySpec == Init /\ [][TimelyNext]_vars

\* And when the u8 scale of the pool does not wrap: fewer than ScaleMod
\* rescales between two exercises that consume the whole pool.
UnwrappedNext == TimelyNext /\ (pool'.epoch = pool.epoch => pool'.scale >= pool.scale)
UnwrappedSpec == Init /\ [][UnwrappedNext]_vars

-----------------------------------------------------------------------------
(* Properties.                                                             *)

AskType == [slot : SlotIds, remaining : Nat \ {0}, price : Nat, seq : Nat]

SlotType ==
  [writer : Writers \cup {NoWriter}, deposited : Nat, withdrawn : Nat, sold : Nat,
   open : Nat, assigned : Nat, premium : Nat, p : Nat, scale : 0 .. ScaleMod - 1, epoch : Nat,
   settled : BOOLEAN]

\* Every counter stays a natural number: no vault or slot is ever overdrawn,
\* and an ask filled to zero leaves the book.
TypeOK ==
  /\ pool \in PoolType
  /\ slots \in [SlotIds -> SlotType]
  /\ asks \in Seq(AskType)
  /\ {seq, totalSold, totalExercised, supply, exercises, now} \subseteq Nat
  /\ halt \in [state : {"open", "halted"}, at : Nat, resumed : Nat]
  /\ bal \in [{"collateral", "settlement", "quote", "fee", "treasury"} -> Nat]
  /\ {live, trading, mintPaused} \subseteq BOOLEAN

\* The book is in price-time order and within its two capacities whatever
\* quotes, evictions, fills and cancellations produced it.
BookOrdered ==
  /\ Len(asks) <= MAX_ASKS
  /\ \A i \in SlotIds : Cardinality(AsksOf(i)) <= MAX_ASKS_PER_WRITER
  /\ \A j, k \in 1 .. Len(asks) :
       j < k => \/ asks[j].price < asks[k].price
                \/ asks[j].price = asks[k].price /\ asks[j].seq < asks[k].seq

\* A resident ask is always backed by its slot's own free collateral, whatever
\* was withdrawn, sold, bought back or posted from that slot before.
AsksBacked ==
  \A i \in SlotIds :
    ~slots[i].settled =>
      /\ slots[i].withdrawn + slots[i].sold + Resident(i) <= slots[i].deposited
      /\ IsEmpty(slots[i]) => Resident(i) = 0

\* A slot given to a new writer brings no ask of the old one: asks name slots
\* by index, and the proceeds would go to the wrong writer (book.rs, find_or_claim_slot).
NoAskChangesHands ==
  [][ \A i \in SlotIds : slots'[i].writer # slots[i].writer => AsksOf(i) = {} ]_vars

Premiums == [i \in SlotIds |-> slots[i].premium]
Unsold == [i \in SlotIds |-> SatSub(Deposited(slots[i]), slots[i].sold)]

\* The quote vault holds exactly the premium its writers can still claim.
QuoteVaultExact == live => bal.quote = SumFunction(Premiums)

\* Until settlement the collateral vault covers every unassigned contract and
\* all the collateral that is not sold, whatever was rounded on the way.
Solvent ==
  live /\ ~SomeSettled =>
    bal.collateral >= CollateralFloor(SumFunction(Unsold) + pool.u)

\* Both: each vault of the series holds what it owes.
VaultsCover == Solvent /\ QuoteVaultExact

\* A position token in somebody's wallet can always be exercised against the
\* pool: the pool never forgets a contract before its token is gone.
TokensBacked ==
  /\ supply <= pool.u
  /\ totalSold = totalExercised + pool.u

Settles(i) == slots'[i].settled /\ ~slots[i].settled

\* Every writer is paid its assigned lots in full, in whatever order the
\* writers settle: that leg is never trimmed by what the vault holds.
SettlementFunded ==
  [][ \A i \in SlotIds :
        Settles(i) => bal.settlement' = bal.settlement - SettlementOwed(AssignedAt(i)) ]_vars

\* What the assignment product can round away over the exercises so far.
DustLots == exercises * MAX_WRITERS * (1 + CeilDiv(MaxWriterLots, P_FLOOR))

\* "The cap only ever trims rounding dust": what a settlement leaves unpaid of
\* a writer's collateral is no more than that (settle.rs, F1).
TrimsOnlyDust ==
  [][ \A i \in SlotIds :
        Settles(i) =>
          CollateralOwed(i) - (bal.collateral - bal.collateral')
            <= CollateralCeil(DustLots) + 1 ]_vars

\* Once a writer has been paid out no contract is exercised any more: its
\* share of the collateral is gone.
NoExerciseAfterSettlement ==
  [][ totalExercised' > totalExercised => ~SomeSettled ]_vars

\* No writer settles during an issuer pause, nor before the halt grace has
\* run from the first observation after it (docs/01-architecture.md, halt rule).
HaltHonoured ==
  [][ \A i \in SlotIds :
        Settles(i) =>
          /\ ~mintPaused
          /\ halt.at > 0 => halt.resumed >= halt.at /\ now >= halt.resumed + HaltGrace ]_vars

-----------------------------------------------------------------------------
(* Refinement: the series implements the pooled-assignment promise.        *)

PoolSlot(s) ==
  LET snap == IF IsEmpty(s) THEN FreshPool ELSE s
  IN  [p |-> snap.p, scale |-> snap.scale, epoch |-> snap.epoch, open |-> s.open,
       assigned |-> s.assigned, sold |-> s.sold, settled |-> s.settled]

Pool == INSTANCE AssignmentPool WITH
          Slots <- SlotIds,
          MaxFill <- MaxLots,
          MaxSold <- MaxQuotes * MaxLots,
          slots <- [i \in SlotIds |-> PoolSlot(slots[i])]

\* With timely halts every step of a series is a step of the pool or leaves it
\* alone: prices, the book, deposits, halts and rounding never reach the
\* assignment, so each promise of AssignmentPool is a promise of the series.
ImplementsPool == Pool!Spec
=============================================================================
