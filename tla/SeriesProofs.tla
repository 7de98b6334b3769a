---------------------------- MODULE SeriesProofs ----------------------------
(***************************************************************************)
(* Theorems about one series of module Series: its book, its vaults, its   *)
(* tokens and its halts, for any writers, capacities, prices, fees, sizes  *)
(* and grace periods that meet the assumptions on the constants.           *)
(***************************************************************************)
EXTENDS Series, AssignmentTheorems, SequenceTheorems

-----------------------------------------------------------------------------
(* Amounts.                                                                *)

\* What the assumptions say of the parameters, in the form the proofs cite.
LEMMA Constants ==
  /\ Strike \in Nat /\ Strike > 0 /\ RawPerLot \in Nat /\ RawPerLot > 0
  /\ MinLots \in Nat /\ MinLots > 0 /\ LOT6 \in Nat /\ LOT6 > 0
  /\ BPS \in Nat /\ BPS > 0 /\ FeeBps \in Nat /\ FeeBps < BPS
  /\ MintFeeBps \in Nat /\ MintFeeBps < BPS
  /\ MAX_WRITERS \in Nat /\ MAX_WRITERS > 0 /\ MAX_ASKS \in Nat /\ MAX_ASKS > 0
  /\ MAX_WALK \in Nat /\ MAX_WALK > 0
  /\ MaxWriterLots \in Nat /\ MaxLots \in Nat /\ Expiry \in Nat /\ HaltGrace \in Nat
  /\ CloseGrace \in Nat /\ MaxQuotes \in Nat /\ MaxTime \in Nat
  /\ Side \in {"call", "put"} /\ NoWriter \notin Writers /\ Vaults \subseteq Writers
BY SeriesConstants, UnitConstants

\* Collateral and settlement amounts are natural numbers.  Rounding down and
\* rounding up are within the bounds the vaults are kept by.
LEMMA CollateralFacts ==
  ASSUME NEW m \in Nat, NEW n \in Nat
  PROVE  /\ CollateralFloor(n) \in Nat /\ CollateralCeil(n) \in Nat
         /\ SettlementOwed(n) \in Nat
         /\ CollateralFloor(m) + CollateralFloor(n) <= CollateralFloor(m + n)
         /\ CollateralFloor(m + n) <= CollateralFloor(m) + CollateralCeil(n)
<1> USE Constants
<1>1. /\ n * Strike \in Nat /\ m * Strike \in Nat /\ n * RawPerLot \in Nat
      /\ m * RawPerLot \in Nat
      /\ (m + n) * Strike = m * Strike + n * Strike
      /\ (m + n) * RawPerLot = m * RawPerLot + n * RawPerLot
  BY MulNat
<1>2. /\ (n * Strike) \div LOT6 \in Nat /\ CeilDiv(n * Strike, LOT6) \in Nat
      /\ (m * Strike) \div LOT6 + (n * Strike) \div LOT6
           <= (m * Strike + n * Strike) \div LOT6
      /\ (m * Strike + n * Strike) \div LOT6
           <= (m * Strike) \div LOT6 + CeilDiv(n * Strike, LOT6)
  BY <1>1, DivBounds, CeilDivBounds, FloorOfSum
<1>3. CASE IsCall
  BY <1>1, <1>2, <1>3 DEF CollateralFloor, CollateralCeil, SettlementOwed, UsdcPaidFloor
<1>4. CASE ~IsCall
  BY <1>1, <1>2, <1>4 DEF CollateralFloor, CollateralCeil, SettlementOwed,
       UsdcPaidFloor, UsdcOwedCeil
<1> QED
  BY <1>3, <1>4

\* The transfer fee is a part of what is sent, so what arrives is a number.
LEMMA ArrivedIsNumber ==
  ASSUME NEW n \in Nat
  PROVE  Arrived(n) \in Nat /\ MintFee(n) \in Nat
<1>1. MintFeeBps \in Nat /\ BPS \in Nat /\ BPS > 0 /\ MintFeeBps <= BPS
  BY Constants
<1>2. CeilDiv(n * MintFeeBps, BPS) \in Nat /\ CeilDiv(n * MintFeeBps, BPS) <= n
  BY <1>1, ShareAtMost
<1>3. MintFee(n) \in Nat /\ MintFee(n) <= n
  BY <1>2, Zenon DEF MintFee
<1> QED
  BY <1>3 DEF Arrived

\* What the token program delivers of an amount is a number.
LEMMA DeliveredIsNumber ==
  ASSUME NEW n \in Nat
  PROVE  Delivered(n) \in Nat
<1>1. n * BPS \in Nat /\ BPS - MintFeeBps \in Nat /\ BPS - MintFeeBps > 0
  BY Constants, MulNat
<1>2. CeilDiv(n * BPS, BPS - MintFeeBps) \in Nat
  BY <1>1, CeilDivBounds
<1>3. InverseMintFee(n) \in Nat
  BY <1>2, ArrivedIsNumber DEF InverseMintFee
<1>4. n + InverseMintFee(n) \in Nat
  BY <1>3
<1> QED
  BY <1>4, ArrivedIsNumber DEF Delivered

\* The fee never exceeds the premium it is taken from.
LEMMA PremiumFacts ==
  ASSUME NEW lots \in Nat, NEW price \in Nat
  PROVE  /\ UsdcPaidFloor(lots, price) \in Nat
         /\ FeeCeil(UsdcPaidFloor(lots, price), FeeBps) \in Nat
         /\ FeeCeil(UsdcPaidFloor(lots, price), FeeBps) <= UsdcPaidFloor(lots, price)
         /\ UsdcOwedCeil(lots, price) \in Nat
<1>1. lots * price \in Nat
  BY MulNat
<1>2. (lots * price) \div LOT6 \in Nat /\ CeilDiv(lots * price, LOT6) \in Nat
  BY <1>1, Constants, DivBounds, CeilDivBounds
<1>3. UsdcPaidFloor(lots, price) \in Nat /\ UsdcOwedCeil(lots, price) \in Nat
  BY <1>2 DEF UsdcPaidFloor, UsdcOwedCeil
<1>4. ASSUME NEW x \in Nat PROVE FeeCeil(x, FeeBps) \in Nat /\ FeeCeil(x, FeeBps) <= x
  <2>1. FeeBps \in Nat /\ BPS \in Nat /\ BPS > 0 /\ FeeBps <= BPS
    BY Constants
  <2>2. CeilDiv(x * FeeBps, BPS) \in Nat /\ CeilDiv(x * FeeBps, BPS) <= x
    BY <2>1, ShareAtMost
  <2> QED
    BY <2>2, Zenon DEF FeeCeil
<1> QED
  BY <1>3, <1>4

-----------------------------------------------------------------------------
(* Slots.                                                                  *)

\* What a change of a slot that leaves its owner and its collateral alone keeps.
SameOwner(f, w) ==
  /\ f.writer = w.writer /\ f.deposited = w.deposited /\ f.withdrawn = w.withdrawn
  /\ f.settled = w.settled

\* A fold only moves lots from open to assigned.
LEMMA SlotFold ==
  ASSUME NEW pl \in PoolType, NEW w \in SlotType
  PROVE  /\ Fold(pl, w) \in SlotType
         /\ SameOwner(Fold(pl, w), w)
         /\ Fold(pl, w).sold = w.sold /\ Fold(pl, w).premium = w.premium
         /\ Fold(pl, w).open = FoldedOpen(pl, w)
         /\ FoldedOpen(pl, w) \in 0 .. w.open
<1>1. FoldedOpen(pl, w) \in 0 .. w.open
  <2>1. w.open \in Nat /\ w.p \in Nat /\ w.scale \in Nat
    BY ProductConstants DEF SlotType
  <2> QED
    BY <2>1, FoldedOpenBounds
<1>2. CASE SnapshotCurrent(pl, w)
  BY <1>1, <1>2 DEF Fold, FoldedOpen, SameOwner
<1>3. CASE ~SnapshotCurrent(pl, w)
  <2> DEFINE a == w.assigned + (w.open - FoldedOpen(pl, w))
             o == FoldedOpen(pl, w)
  <2>1. a \in Nat /\ o \in Nat
    BY <1>1 DEF SlotType
  <2>2. Fold(pl, w) = [w EXCEPT !.assigned = a, !.open = o,
                                !.p = pl.p, !.scale = pl.scale, !.epoch = pl.epoch]
    BY <1>3 DEF Fold
  <2> HIDE DEF a, o
  <2>3. Fold(pl, w) =
          [writer |-> w.writer, deposited |-> w.deposited, withdrawn |-> w.withdrawn,
           sold |-> w.sold, open |-> o, assigned |-> a, premium |-> w.premium,
           p |-> pl.p, scale |-> pl.scale, epoch |-> pl.epoch, settled |-> w.settled]
    BY <2>2 DEF SlotType
  <2> QED
    BY <1>1, <2>1, <2>3 DEF SlotType, PoolType, SameOwner, o
<1> QED
  BY <1>2, <1>3

\* A sale of n lots leaves the slot to its owner and adds n to what it sold.
LEMMA SlotAddOpen ==
  ASSUME NEW pl \in PoolType, NEW w \in SlotType, NEW n \in Nat
  PROVE  /\ AddOpen(pl, w, n) \in SlotType
         /\ SameOwner(AddOpen(pl, w, n), w)
         /\ AddOpen(pl, w, n).sold = w.sold + n
         /\ AddOpen(pl, w, n).premium = w.premium
<1> DEFINE f == Fold(pl, w)
<1>1. f \in SlotType /\ SameOwner(f, w) /\ f.sold = w.sold /\ f.premium = w.premium
  BY SlotFold
<1>2. AddOpen(pl, w, n) = [f EXCEPT !.open = f.open + n, !.sold = f.sold + n]
  BY Zenon DEF AddOpen
<1> HIDE DEF f
<1>3. AddOpen(pl, w, n) =
        [writer |-> f.writer, deposited |-> f.deposited, withdrawn |-> f.withdrawn,
         sold |-> f.sold + n, open |-> f.open + n, assigned |-> f.assigned,
         premium |-> f.premium, p |-> f.p, scale |-> f.scale, epoch |-> f.epoch,
         settled |-> f.settled]
  BY <1>1, <1>2 DEF SlotType
<1> QED
  BY <1>1, <1>3 DEF SlotType, SameOwner

\* A burn of n lots leaves the slot to its owner and takes n from what it sold.
LEMMA SlotBurnOpen ==
  ASSUME NEW pl \in PoolType, NEW w \in SlotType, NEW n \in Nat, n <= FoldedOpen(pl, w)
  PROVE  /\ BurnOpen(pl, w, n) \in SlotType
         /\ SameOwner(BurnOpen(pl, w, n), w)
         /\ BurnOpen(pl, w, n).sold = SatSub(w.sold, n)
         /\ BurnOpen(pl, w, n).premium = w.premium
<1> DEFINE f == Fold(pl, w)
<1>1. /\ f \in SlotType /\ SameOwner(f, w) /\ f.sold = w.sold
      /\ f.premium = w.premium /\ n <= f.open
  BY SlotFold
<1>2. BurnOpen(pl, w, n) = [f EXCEPT !.open = f.open - n, !.sold = SatSub(f.sold, n)]
  BY Zenon DEF BurnOpen
<1> HIDE DEF f
<1>3. BurnOpen(pl, w, n) =
        [writer |-> f.writer, deposited |-> f.deposited, withdrawn |-> f.withdrawn,
         sold |-> SatSub(f.sold, n), open |-> f.open - n, assigned |-> f.assigned,
         premium |-> f.premium, p |-> f.p, scale |-> f.scale, epoch |-> f.epoch,
         settled |-> f.settled]
  BY <1>1, <1>2 DEF SlotType
<1>4. SatSub(f.sold, n) \in Nat /\ f.open - n \in Nat
  BY <1>1 DEF SlotType, SatSub
<1> QED
  BY <1>1, <1>3, <1>4 DEF SlotType, SameOwner

\* A slot nobody claimed is a slot,
LEMMA EmptySlotIsSlot == EmptySlot \in SlotType
BY ProductConstants DEF EmptySlot, SlotType

\* and so is one a writer has just claimed.
LEMMA ClaimedSlotIsSlot ==
  ASSUME pool \in PoolType, NEW w \in Writers
  PROVE  ClaimedSlot(w) \in SlotType
BY DEF ClaimedSlot, EmptySlot, SlotType, PoolType

-----------------------------------------------------------------------------
(* The book, as any sequence of asks.                                      *)

\* An ask while it is being filled: nothing may remain of it.
FilledAskType == [slot : SlotIds, remaining : Nat, price : Nat, seq : Nat]
Asks == Seq(FilledAskType)

AsksIn(bk, i) == {k \in 1 .. Len(bk) : bk[k].slot = i}
LotsOf(bk) == [k \in 1 .. Len(bk) |-> bk[k].remaining]
LotsIn(bk, i) == SumFunctionOnSet(LotsOf(bk), AsksIn(bk, i))

\* Price-time priority.
Better(a, b) == a.price < b.price \/ (a.price = b.price /\ a.seq < b.seq)
Ordered(bk) == \A j, k \in 1 .. Len(bk) : j < k => Better(bk[j], bk[k])
NumberedUpTo(bk, n) == \A k \in 1 .. Len(bk) : bk[k].seq <= n

\* Every ask of the second book is one of the first, in the same order.
PartOfBook(bk, part, b) ==
  /\ b \in [1 .. Len(part) -> 1 .. Len(bk)]
  /\ \A j, k \in 1 .. Len(part) : j < k => b[j] < b[k]
  /\ \A k \in 1 .. Len(part) : part[k] = bk[b[k]]

\* A book of asks is a book each of whose places holds an ask.
LEMMA AsksAreFilledAsks ==
  ASSUME NEW bk \in Seq(AskType)
  PROVE  bk \in Asks
<1>1. AskType \subseteq FilledAskType
  BY DEF AskType, FilledAskType
<1> QED
  BY <1>1, SeqMonotonic DEF Asks

\* The lots a book rests for a slot add up to a number.
LEMMA LotsFacts ==
  ASSUME NEW bk \in Asks, NEW i
  PROVE  /\ IsFiniteSet(1 .. Len(bk)) /\ IsFiniteSet(AsksIn(bk, i))
         /\ AsksIn(bk, i) \in SUBSET (1 .. Len(bk))
         /\ NatTerms(LotsOf(bk), 1 .. Len(bk))
         /\ NatTerms(LotsOf(bk), AsksIn(bk, i))
         /\ LotsIn(bk, i) \in Nat
<1>1. Len(bk) \in Nat /\ \A k \in 1 .. Len(bk) : bk[k] \in FilledAskType
  <2>1. bk \in Seq(FilledAskType)
    BY DEF Asks
  <2>2. Len(bk) \in Nat /\ bk \in [1 .. Len(bk) -> FilledAskType]
    BY <2>1, LenProperties
  <2> QED
    BY <2>2
<1>2. IsFiniteSet(1 .. Len(bk))
  <2>1. 1 \in Int /\ Len(bk) \in Int
    BY <1>1
  <2> QED
    BY <2>1, FS_Interval
<1>3. AsksIn(bk, i) \in SUBSET (1 .. Len(bk))
  BY DEF AsksIn
<1>4. IsFiniteSet(AsksIn(bk, i))
  BY <1>2, <1>3, FS_Subset
<1>5. NatTerms(LotsOf(bk), 1 .. Len(bk))
  BY <1>1 DEF NatTerms, LotsOf, FilledAskType
<1>6. NatTerms(LotsOf(bk), AsksIn(bk, i))
  BY <1>3, <1>5, PartOfNatTerms
<1> QED
  BY <1>2, <1>3, <1>4, <1>5, <1>6, SumNat DEF LotsIn

\* Asks of one book that all come from different asks of another one hold no
\* more lots of any slot, and are no more.
LEMMA LotsFromBook ==
  ASSUME NEW bk \in Asks, NEW part \in Asks, NEW D \in SUBSET (1 .. Len(part)),
         NEW b \in [D -> 1 .. Len(bk)], \A j, k \in D : b[j] = b[k] => j = k,
         \A k \in D : part[k].slot = bk[b[k]].slot /\ part[k].remaining = bk[b[k]].remaining,
         NEW i
  PROVE  /\ SumFunctionOnSet(LotsOf(part), AsksIn(part, i) \cap D) <= LotsIn(bk, i)
         /\ Cardinality(AsksIn(part, i) \cap D) <= Cardinality(AsksIn(bk, i))
<1> DEFINE S == AsksIn(part, i) \cap D
           T == AsksIn(bk, i)
           c == [k \in S |-> b[k]]
<1>1. IsFiniteSet(S) /\ IsFiniteSet(T) /\ NatTerms(LotsOf(bk), T)
  BY LotsFacts, FS_Subset
<1>2. ASSUME NEW k \in S
      PROVE  c[k] \in T /\ LotsOf(part)[k] = LotsOf(bk)[c[k]]
  <2>1. k \in D /\ k \in 1 .. Len(part) /\ part[k].slot = i
    BY DEF AsksIn
  <2>2. b[k] \in 1 .. Len(bk) /\ bk[b[k]].slot = i /\ c[k] = b[k]
    BY <2>1
  <2> QED
    BY <2>1, <2>2 DEF AsksIn, LotsOf
<1>3. c \in [S -> T]
  BY <1>2
<1>4. \A x, y \in S : c[x] = c[y] => x = y
  OBVIOUS
<1>5. Cardinality(S) <= Cardinality(T)
  <2>1. c \in Injection(S, T)
    BY <1>3, <1>4 DEF Injection, IsInjective
  <2> QED
    BY <1>1, <2>1, FS_Injection
<1>6. SumFunctionOnSet(LotsOf(part), S) = SumFunctionOnSet(LotsOf(bk), {c[x] : x \in S})
  <2>1. \A x \in S : LotsOf(part)[x] = LotsOf(bk)[c[x]]
    BY <1>2
  <2>2. IntTerms(LotsOf(bk), T)
    BY <1>1, NatTermsAreInts
  <2> DEFINE f == LotsOf(bk)
             g == LotsOf(part)
             U == {c[x] : x \in S}
  <2>3. /\ IsFiniteSet(S) /\ c \in [S -> T] /\ \A x, y \in S : c[x] = c[y] => x = y
        /\ IntTerms(f, T) /\ \A x \in S : g[x] = f[c[x]]
    BY <1>1, <1>3, <1>4, <2>1, <2>2, Zenon
  <2> HIDE DEF c, S, T, f, g
  <2>4. SumFunctionOnSet(g, S) = SumFunctionOnSet(f, U)
    BY <2>3, SumReindexed
  <2> QED
    BY <2>4 DEF f, g
<1>7. {c[x] : x \in S} \in SUBSET T
  <2> HIDE DEF c, S, T
  <2> QED
    BY <1>3
<1>8. SumFunctionOnSet(LotsOf(bk), {c[x] : x \in S}) <= SumFunctionOnSet(LotsOf(bk), T)
  <2> HIDE DEF c, S, T
  <2> QED
    BY <1>1, <1>7, SumOfPart
<1> QED
  BY <1>5, <1>6, <1>8 DEF LotsIn

\* A part of a book rests no more lots or asks, in the same order.
LEMMA PartOfBookFacts ==
  ASSUME NEW bk \in Asks, NEW part \in Asks, NEW b, PartOfBook(bk, part, b)
  PROVE  /\ \A i : LotsIn(part, i) <= LotsIn(bk, i)
         /\ \A i : Cardinality(AsksIn(part, i)) <= Cardinality(AsksIn(bk, i))
         /\ Ordered(bk) => Ordered(part)
         /\ \A n : NumberedUpTo(bk, n) => NumberedUpTo(part, n)
<1> DEFINE D == 1 .. Len(part)
<1>1. /\ D \in SUBSET (1 .. Len(part)) /\ b \in [D -> 1 .. Len(bk)]
      /\ \A j, k \in D : j < k => b[j] < b[k]
      /\ \A k \in D : part[k] = bk[b[k]]
  BY DEF PartOfBook
<1>2. Len(bk) \in Nat /\ Len(part) \in Nat
  BY LenProperties DEF Asks
<1>3. ASSUME NEW j \in D, NEW k \in D, b[j] = b[k] PROVE j = k
  <2>1. j \in Nat /\ k \in Nat
    BY <1>2
  <2>2. b[j] \in 1 .. Len(bk) /\ b[k] \in 1 .. Len(bk)
    BY <1>1
  <2>3. b[j] \in Nat /\ b[k] \in Nat
    BY <1>1, <1>2, <2>2
  <2> QED
    BY <1>1, <1>3, <2>1, <2>3
<1>4. ASSUME NEW i
      PROVE  /\ LotsIn(part, i) <= LotsIn(bk, i)
             /\ Cardinality(AsksIn(part, i)) <= Cardinality(AsksIn(bk, i))
  <2>1. /\ SumFunctionOnSet(LotsOf(part), AsksIn(part, i) \cap D) <= LotsIn(bk, i)
        /\ Cardinality(AsksIn(part, i) \cap D) <= Cardinality(AsksIn(bk, i))
    <3> HIDE DEF D
    <3>1. \A k \in D : part[k].slot = bk[b[k]].slot /\ part[k].remaining = bk[b[k]].remaining
      BY <1>1
    <3> QED
      BY <1>1, <1>3, <3>1, LotsFromBook
  <2>2. AsksIn(part, i) \cap D = AsksIn(part, i)
    BY DEF AsksIn
  <2> QED
    BY <2>1, <2>2, Zenon DEF LotsIn
<1>5. Ordered(bk) => Ordered(part)
  BY <1>1 DEF Ordered
<1>6. ASSUME NEW n, NumberedUpTo(bk, n) PROVE NumberedUpTo(part, n)
  BY <1>1, <1>6 DEF NumberedUpTo
<1> QED
  BY <1>4, <1>5, <1>6

\* A book that lost some of its asks.
Shrinks(bk, part) ==
  /\ part \in Seq(AskType) /\ Len(part) <= Len(bk)
  /\ \A i : LotsIn(part, i) <= LotsIn(bk, i)
  /\ \A i : Cardinality(AsksIn(part, i)) <= Cardinality(AsksIn(bk, i))
  /\ Ordered(bk) => Ordered(part)
  /\ \A n : NumberedUpTo(bk, n) => NumberedUpTo(part, n)

\* Cancelling an ask leaves a part of the book,
LEMMA CancelShrinks ==
  ASSUME NEW bk \in Seq(AskType), NEW m \in 1 .. Len(bk)
  PROVE  Shrinks(bk, RemoveAt(bk, m))
<1> DEFINE part == RemoveAt(bk, m)
           b == [k \in 1 .. Len(part) |-> IF k < m THEN k ELSE k + 1]
<1>1. Len(bk) \in Nat /\ m \in Nat
  BY LenProperties
<1>2. /\ part \in Seq(AskType) /\ Len(part) = Len(bk) - 1
      /\ \A k \in 1 .. Len(bk) - 1 : part[k] = IF k < m THEN bk[k] ELSE bk[k + 1]
  BY RemovedAt
<1> HIDE DEF part
<1>3. PartOfBook(bk, part, b)
  <2>1. \A k \in 1 .. Len(part) : b[k] \in 1 .. Len(bk) /\ part[k] = bk[b[k]]
    BY <1>1, <1>2
  <2>2. \A j, k \in 1 .. Len(part) : j < k => b[j] < b[k]
    BY <1>1, <1>2
  <2>3. b \in [1 .. Len(part) -> 1 .. Len(bk)]
    BY <2>1
  <2> QED
    BY <2>1, <2>2, <2>3, Zenon DEF PartOfBook
<1>4. Len(part) <= Len(bk)
  BY <1>1, <1>2
<1>5. bk \in Asks /\ part \in Asks
  BY <1>2, AsksAreFilledAsks
<1> HIDE DEF b
<1> QED
  BY <1>2, <1>3, <1>4, <1>5, PartOfBookFacts DEF Shrinks, part

\* and so does evicting the worst.
LEMMA EvictionShrinks ==
  ASSUME NEW bk \in Seq(AskType), Len(bk) > 0
  PROVE  Shrinks(bk, Front(bk)) /\ Len(Front(bk)) = Len(bk) - 1
<1> DEFINE part == Front(bk)
           b == [k \in 1 .. Len(part) |-> k]
<1>1. Len(bk) \in Nat
  BY LenProperties
<1>2. /\ part \in Seq(AskType) /\ Len(part) = Len(bk) - 1
      /\ \A k \in 1 .. Len(bk) - 1 : part[k] = bk[k]
  BY FrontOf
<1> HIDE DEF part
<1>3. PartOfBook(bk, part, b)
  <2>1. \A k \in 1 .. Len(part) : b[k] \in 1 .. Len(bk) /\ part[k] = bk[b[k]]
    BY <1>1, <1>2
  <2>2. \A j, k \in 1 .. Len(part) : j < k => b[j] < b[k]
    BY <1>1, <1>2
  <2>3. b \in [1 .. Len(part) -> 1 .. Len(bk)]
    BY <2>1
  <2> QED
    BY <2>1, <2>2, <2>3, Zenon DEF PartOfBook
<1>4. Len(part) <= Len(bk)
  BY <1>1, <1>2
<1>5. bk \in Asks /\ part \in Asks
  BY <1>2, AsksAreFilledAsks
<1> HIDE DEF b
<1> QED
  BY <1>2, <1>3, <1>4, <1>5, PartOfBookFacts DEF Shrinks, part

\* The asks behind the first e, when none of them is filled.
LEMMA TailShrinks ==
  ASSUME NEW bk \in Asks, NEW e \in 0 .. Len(bk),
         \A k \in e + 1 .. Len(bk) : bk[k] \in AskType
  PROVE  Shrinks(bk, SubSeq(bk, e + 1, Len(bk)))
<1> DEFINE part == SubSeq(bk, e + 1, Len(bk))
           b == [k \in 1 .. Len(part) |-> k + e]
<1>1. Len(bk) \in Nat /\ e \in Nat /\ e <= Len(bk)
  BY LenProperties DEF Asks
<1>2. /\ part \in Seq(AskType) /\ Len(part) = Len(bk) - e
      /\ \A k \in 1 .. Len(bk) - e : part[k] = bk[k + e]
  <2>1. e + 1 \in Int /\ Len(bk) \in Int
    BY <1>1
  <2> DEFINE a == e + 1
             z == Len(bk)
  <2>2. /\ SubSeq(bk, a, z) \in Seq(AskType)
        /\ Len(SubSeq(bk, a, z)) = IF a <= z THEN z - a + 1 ELSE 0
        /\ \A i \in 1 .. z - a + 1 : SubSeq(bk, a, z)[i] = bk[a + i - 1]
    <3> HIDE DEF a, z
    <3> QED
      BY <2>1, SubSeqProperties DEF a, z
  <2>3. \A k \in 1 .. Len(bk) - e : k \in 1 .. z - a + 1 /\ a + k - 1 = k + e
    BY <1>1
  <2>4. (IF a <= z THEN z - a + 1 ELSE 0) = Len(bk) - e
    BY <1>1
  <2> QED
    BY <2>2, <2>3, <2>4
<1> HIDE DEF part
<1>3. PartOfBook(bk, part, b)
  <2>1. \A k \in 1 .. Len(part) : b[k] \in 1 .. Len(bk) /\ part[k] = bk[b[k]]
    BY <1>1, <1>2
  <2>2. \A j, k \in 1 .. Len(part) : j < k => b[j] < b[k]
    BY <1>1, <1>2
  <2>3. b \in [1 .. Len(part) -> 1 .. Len(bk)]
    BY <2>1
  <2> QED
    BY <2>1, <2>2, <2>3, Zenon DEF PartOfBook
<1>4. Len(part) <= Len(bk)
  BY <1>1, <1>2
<1>5. part \in Asks
  BY <1>2, AsksAreFilledAsks
<1> HIDE DEF b
<1> QED
  BY <1>2, <1>3, <1>4, <1>5, PartOfBookFacts DEF Shrinks, part

\* The lots, the asks and the order of a book after a sorted insertion.
LEMMA InsertFacts ==
  ASSUME NEW bk \in Seq(AskType), NEW n \in Nat, NEW a \in AskType, a.seq = n + 1,
         Ordered(bk), NumberedUpTo(bk, n)
  PROVE  /\ Insert(bk, a) \in Seq(AskType) /\ Len(Insert(bk, a)) = Len(bk) + 1
         /\ \A i : LotsIn(Insert(bk, a), i)
                     <= LotsIn(bk, i) + (IF i = a.slot THEN a.remaining ELSE 0)
         /\ \A i : Cardinality(AsksIn(Insert(bk, a), i))
                     <= Cardinality(AsksIn(bk, i)) + (IF i = a.slot THEN 1 ELSE 0)
         /\ Ordered(Insert(bk, a)) /\ NumberedUpTo(Insert(bk, a), n + 1)
<1> DEFINE after == {k \in 1 .. Len(bk) : a.price < bk[k].price}
           m == IF after = {} THEN Len(bk) + 1 ELSE Min(after)
           new == InsertAt(bk, m, a)
           D == (1 .. Len(new)) \ {m}
           b == [k \in D |-> IF k < m THEN k ELSE k - 1]
<1>1. Len(bk) \in Nat /\ \A k \in 1 .. Len(bk) : bk[k] \in AskType
  BY ElementOfSeq, LenProperties
<1>a. /\ a.price \in Nat /\ a.remaining \in Nat
      /\ \A k \in 1 .. Len(bk) : bk[k].price \in Nat /\ bk[k].seq \in Nat
  BY <1>1 DEF AskType
<1>2. /\ m \in 1 .. Len(bk) + 1
      /\ \A k \in 1 .. Len(bk) : k < m => bk[k].price <= a.price
      /\ \A k \in 1 .. Len(bk) : k >= m => a.price < bk[k].price
  <2>1. CASE after = {}
    <3>1. m = Len(bk) + 1
      BY <2>1
    <3>2. \A k \in 1 .. Len(bk) : ~(a.price < bk[k].price)
      BY <2>1
    <3> HIDE DEF m, after
    <3> QED
      BY <1>1, <1>a, <3>1, <3>2
  <2>2. CASE after # {}
    <3> DEFINE l == Min(after)
    <3>1. after \in SUBSET Nat
      OBVIOUS
    <3> HIDE DEF after
    <3>2. l \in after /\ \A k \in after : l <= k
      BY <2>2, <3>1, LeastMember
    <3>3. m = l
      BY <2>2
    <3> HIDE DEF l, m
    <3>4. l \in 1 .. Len(bk) /\ a.price < bk[l].price
      BY <3>2 DEF after
    <3>5. \A k \in 1 .. Len(bk) : k < l => bk[k].price <= a.price
      BY <1>1, <1>a, <3>2, <3>4 DEF after
    <3>6. \A k \in 1 .. Len(bk) : k >= l => a.price < bk[k].price
      BY <1>1, <1>a, <3>4 DEF Ordered, Better
    <3> QED
      BY <1>1, <3>3, <3>4, <3>5, <3>6
  <2> QED
    BY <2>1, <2>2
<1>3. Insert(bk, a) = new
  BY DEF Insert
<1> HIDE DEF m, after
<1>4. /\ new \in Seq(AskType) /\ Len(new) = Len(bk) + 1
      /\ \A k \in 1 .. Len(bk) + 1 :
           new[k] = IF k < m THEN bk[k] ELSE IF k = m THEN a ELSE bk[k - 1]
  BY <1>2, InsertedAt
<1> HIDE DEF new
<1>5. /\ b \in [D -> 1 .. Len(bk)]
      /\ \A j, k \in D : b[j] = b[k] => j = k
      /\ \A k \in D : new[k] = bk[b[k]]
  <2>1. \A k \in D : b[k] \in 1 .. Len(bk) /\ new[k] = bk[b[k]]
    BY <1>1, <1>2, <1>4
  <2>2. b \in [D -> 1 .. Len(bk)]
    BY <2>1
  <2>3. \A j, k \in D : b[j] = b[k] => j = k
    BY <1>1, <1>2, <1>4
  <2> QED
    BY <2>1, <2>2, <2>3, Zenon
<1>6. bk \in Asks /\ new \in Asks /\ D \in SUBSET (1 .. Len(new))
  BY <1>4, AsksAreFilledAsks
<1>7. Ordered(new)
  <2> SUFFICES ASSUME NEW j \in 1 .. Len(new), NEW k \in 1 .. Len(new), j < k
               PROVE  Better(new[j], new[k])
    BY DEF Ordered
  <2>1. CASE j # m /\ k # m
    <3>1. b[j] < b[k] /\ b[j] \in 1 .. Len(bk) /\ b[k] \in 1 .. Len(bk)
      BY <1>1, <1>2, <1>4, <2>1
    <3>2. new[j] = bk[b[j]] /\ new[k] = bk[b[k]]
      BY <1>5, <2>1
    <3> HIDE DEF b
    <3> QED
      BY <3>1, <3>2 DEF Ordered
  <2>2. CASE j = m
    <3>1. new[j] = a /\ k - 1 \in 1 .. Len(bk) /\ k - 1 >= m /\ new[k] = bk[k - 1]
      BY <1>1, <1>2, <1>4, <2>2
    <3> QED
      BY <1>2, <1>a, <3>1 DEF Better
  <2>3. CASE k = m
    <3>1. new[k] = a /\ j \in 1 .. Len(bk) /\ j < m /\ new[j] = bk[j]
      BY <1>1, <1>2, <1>4, <2>3
    <3>2. bk[j].price <= a.price /\ bk[j].seq < a.seq
      BY <1>a, <1>2, <3>1 DEF NumberedUpTo
    <3>3. bk[j].price \in Nat /\ a.price \in Nat
      BY <1>a, <3>1
    <3> QED
      BY <3>1, <3>2, <3>3 DEF Better
  <2> QED
    BY <2>1, <2>2, <2>3
<1>8. NumberedUpTo(new, n + 1)
  <2> SUFFICES ASSUME NEW k \in 1 .. Len(new) PROVE new[k].seq <= n + 1
    BY DEF NumberedUpTo
  <2>1. CASE k = m
    BY <1>4, <2>1
  <2>2. CASE k # m
    <3>1. b[k] \in 1 .. Len(bk) /\ new[k] = bk[b[k]]
      BY <1>5, <2>2
    <3> HIDE DEF b
    <3>2. new[k].seq <= n /\ new[k].seq \in Nat
      BY <1>1, <3>1 DEF NumberedUpTo, AskType
    <3> QED
      BY <3>2
  <2> QED
    BY <2>1, <2>2
<1>9. ASSUME NEW i
      PROVE  /\ LotsIn(new, i) <= LotsIn(bk, i) + (IF i = a.slot THEN a.remaining ELSE 0)
             /\ Cardinality(AsksIn(new, i))
                  <= Cardinality(AsksIn(bk, i)) + (IF i = a.slot THEN 1 ELSE 0)
  <2> DEFINE S == AsksIn(new, i) \cap D
             T == AsksIn(new, i)
             f == LotsOf(new)
  <2>1. /\ SumFunctionOnSet(f, S) <= LotsIn(bk, i)
        /\ Cardinality(S) <= Cardinality(AsksIn(bk, i))
    <3>1. \A k \in D : new[k].slot = bk[b[k]].slot /\ new[k].remaining = bk[b[k]].remaining
      BY <1>5
    <3> HIDE DEF D, b
    <3> QED
      BY <1>5, <1>6, <3>1, LotsFromBook
  <2>2. /\ IsFiniteSet(T) /\ IsFiniteSet(AsksIn(bk, i)) /\ NatTerms(f, T)
        /\ LotsIn(bk, i) \in Nat
    BY <1>6, LotsFacts
  <2>3. IsFiniteSet(S) /\ S \in SUBSET T
    BY <2>2, FS_Subset
  <2>4. f[m] = a.remaining
    BY <1>1, <1>2, <1>4 DEF LotsOf
  <2>5. m \in T <=> a.slot = i
    BY <1>1, <1>2, <1>4 DEF AsksIn
  <2>6. S = T \ {m}
    BY DEF AsksIn
  <2>7. Cardinality(S) \in Nat /\ Cardinality(AsksIn(bk, i)) \in Nat
    BY <2>2, <2>3, FS_CardinalityType
  <2>8. CASE a.slot = i
    <3>1. SumFunctionOnSet(f, T) = f[m] + SumFunctionOnSet(f, S)
      <4>1. m \in T /\ IntTerms(f, T)
        BY <2>2, <2>5, <2>8, NatTermsAreInts
      <4> HIDE DEF T, S, f
      <4> QED
        BY <2>2, <2>6, <4>1, SumIsAnyOrder
    <3>2. Cardinality(T) = Cardinality(S) + 1
      <4>1. m \in T
        BY <2>5, <2>8
      <4> HIDE DEF T, S
      <4>2. Cardinality(S) = Cardinality(T) - 1 /\ Cardinality(T) \in Nat
        BY <2>2, <2>6, <4>1, FS_RemoveElement, FS_CardinalityType
      <4> QED
        BY <4>2
    <3>3. LotsIn(new, i) <= LotsIn(bk, i) + a.remaining
      <4>1. SumFunctionOnSet(f, S) \in Nat /\ a.remaining \in Nat
        <5>1. NatTerms(f, S)
          BY <2>2, <2>3, PartOfNatTerms
        <5> QED
          BY <2>3, <5>1, SumNat DEF AskType
      <4> QED
        BY <2>1, <2>2, <2>4, <3>1, <4>1 DEF LotsIn
    <3> QED
      BY <2>1, <2>7, <2>8, <3>2, <3>3
  <2>9. CASE a.slot # i
    <3>1. S = T
      BY <2>5, <2>6, <2>9
    <3> QED
      <4>1. LotsIn(new, i) <= LotsIn(bk, i) /\ Cardinality(T) <= Cardinality(AsksIn(bk, i))
        BY <2>1, <3>1 DEF LotsIn
      <4> QED
        BY <2>2, <2>7, <2>9, <3>1, <4>1
  <2> QED
    BY <2>8, <2>9
<1> QED
  BY <1>3, <1>4, <1>7, <1>8, <1>9

-----------------------------------------------------------------------------
(* The walk of a purchase.                                                 *)

\* A function on 1 .. n is a sequence of length n.
LEMMA FunctionIsSequence ==
  ASSUME NEW S, NEW n \in Nat, NEW f \in [1 .. n -> S]
  PROVE  f \in Seq(S) /\ Len(f) = n
<1>1. f \in Seq(S)
  BY SeqDef
<1>2. Len(f) \in Nat /\ DOMAIN f = 1 .. Len(f) /\ DOMAIN f = 1 .. n
  BY <1>1, LenProperties
<1> QED
  BY <1>1, <1>2

\* A set with every smaller number of each of its members is an interval.
LEMMA PrefixIsInterval ==
  ASSUME NEW n \in Nat, NEW E \in SUBSET (1 .. n),
         \A j \in 1 .. n, k \in E : j < k => j \in E
  PROVE  /\ Cardinality(E) \in 0 .. n
         /\ E = 1 .. Cardinality(E)
<1> DEFINE Bounds == {x \in Nat : \A k \in E : k <= x}
<1>1. n \in Bounds /\ Bounds \in SUBSET Nat
  OBVIOUS
<1>2. PICK m \in Bounds : \A x \in Bounds : m <= x
  BY <1>1, LeastNat
<1>3. m \in Nat /\ m <= n /\ \A k \in E : k <= m
  BY <1>1, <1>2
<1>4. m = 0 \/ m \in E
  <2> SUFFICES ASSUME m # 0, m \notin E PROVE FALSE
    OBVIOUS
  <2>1. m - 1 \in Nat /\ \A k \in E : k <= m - 1
    BY <1>3
  <2>2. m - 1 \in Bounds
    BY <2>1
  <2> HIDE DEF Bounds
  <2> QED
    BY <1>2, <1>3, <2>2
<1>5. E = 1 .. m
  <2>1. \A k \in E : k \in 1 .. m
    BY <1>3
  <2>2. \A j \in 1 .. m : j \in E
    BY <1>3, <1>4
  <2> QED
    BY <2>1, <2>2
<1>6. Cardinality(1 .. m) = m
  <2>1. 1 \in Int /\ m \in Int
    BY <1>3
  <2>2. Cardinality(1 .. m) = IF 1 > m THEN 0 ELSE m - 1 + 1
    BY <2>1, FS_Interval
  <2> QED
    BY <1>3, <2>2
<1> QED
  BY <1>3, <1>5, <1>6

\* What a purchase does to the book, as Buy defines it.
Taken(lots, limit) == [k \in 1 .. Len(asks) |-> Take(k, lots, limit)]
Left(take) == [k \in 1 .. Len(asks) |-> [asks[k] EXCEPT !.remaining = @ - take[k]]]
Emptied(take) == {k \in 1 .. Len(asks) : Left(take)[k].remaining = 0}
SumOf(i, f) == SumFunctionOnSet(f, AsksOf(i))

\* The book of the state, as the operators on books see it.
LEMMA BookNow ==
  \A i : AsksOf(i) = AsksIn(asks, i) /\ Resident(i) = LotsIn(asks, i)
BY Zenon DEF AsksOf, AsksIn, Resident, LotsIn, Remaining, LotsOf

\* Every place of the book holds an ask with lots left.
LEMMA AskFacts ==
  ASSUME asks \in Seq(AskType)
  PROVE  /\ Len(asks) \in Nat /\ asks \in Asks
         /\ \A k \in 1 .. Len(asks) :
              /\ asks[k] \in AskType /\ asks[k].slot \in SlotIds /\ asks[k].seq \in Nat
              /\ asks[k].price \in Nat
              /\ asks[k].remaining \in Nat /\ asks[k].remaining > 0
              /\ Remaining[k] = asks[k].remaining
<1>1. Len(asks) \in Nat /\ \A k \in 1 .. Len(asks) : asks[k] \in AskType
  BY ElementOfSeq, LenProperties
<1>2. asks \in Asks
  BY AsksAreFilledAsks
<1> QED
  BY <1>1, <1>2 DEF AskType, Remaining

\* The lots ahead of a place grow along the walk by those of each ask.
LEMMA RemainingBefore ==
  ASSUME asks \in Seq(AskType), NEW k \in 1 .. Len(asks)
  PROVE  /\ SumFunctionOnSet(Remaining, 1 .. k - 1) \in Nat
         /\ SumFunctionOnSet(Remaining, 1 .. k)
              = SumFunctionOnSet(Remaining, 1 .. k - 1) + asks[k].remaining
         /\ \A j \in 1 .. k : SumFunctionOnSet(Remaining, 1 .. j - 1)
                                <= SumFunctionOnSet(Remaining, 1 .. k - 1)
<1>1. Len(asks) \in Nat /\ k \in Nat
  BY AskFacts
<1>2. ASSUME NEW j \in Nat, j <= Len(asks)
      PROVE  IsFiniteSet(1 .. j) /\ NatTerms(Remaining, 1 .. j)
  <2>1. IsFiniteSet(1 .. j)
    <3>1. 1 \in Int /\ j \in Int
      OBVIOUS
    <3> QED
      BY <3>1, FS_Interval
  <2>2. NatTerms(Remaining, 1 .. j)
    BY <1>1, <1>2, AskFacts DEF NatTerms
  <2> QED
    BY <2>1, <2>2
<1> DEFINE A == 1 .. k - 1
<1>3. IsFiniteSet(A) /\ NatTerms(Remaining, A)
  <2>1. k - 1 \in Nat /\ k - 1 <= Len(asks)
    BY <1>1
  <2> QED
    BY <1>2, <2>1
<1>4. SumFunctionOnSet(Remaining, A) \in Nat
  <2> HIDE DEF A
  <2> QED
    BY <1>3, SumNat
<1>5. SumFunctionOnSet(Remaining, 1 .. k)
        = SumFunctionOnSet(Remaining, A) + asks[k].remaining
  <2>1. 1 .. k = A \cup {k} /\ k \notin A
    BY <1>1
  <2>2. Remaining[k] = asks[k].remaining /\ asks[k].remaining \in Nat
    BY AskFacts
  <2>3. IntTerms(Remaining, A) /\ Remaining[k] \in Int
    BY <1>3, <2>2, NatTermsAreInts
  <2> HIDE DEF A
  <2>4. SumFunctionOnSet(Remaining, A \cup {k}) = Remaining[k] + SumFunctionOnSet(Remaining, A)
    BY <1>3, <2>1, <2>3, SumAdd
  <2> DEFINE x == SumFunctionOnSet(Remaining, A)
  <2>5. SumFunctionOnSet(Remaining, 1 .. k) = asks[k].remaining + x
    BY <2>1, <2>2, <2>4, Zenon
  <2>6. x \in Nat
    BY <1>4
  <2> HIDE DEF x
  <2>7. asks[k].remaining + x = x + asks[k].remaining
    BY <2>2, <2>6
  <2> QED
    BY <2>5, <2>7, Zenon DEF x
<1>6. ASSUME NEW j \in 1 .. k
      PROVE  SumFunctionOnSet(Remaining, 1 .. j - 1) <= SumFunctionOnSet(Remaining, A)
  <2> DEFINE B == 1 .. j - 1
  <2>1. B \in SUBSET A
    BY <1>1
  <2> HIDE DEF A, B
  <2>2. SumFunctionOnSet(Remaining, B) <= SumFunctionOnSet(Remaining, A)
    BY <1>3, <2>1, SumOfPart
  <2> QED
    BY <2>2 DEF B
<1> QED
  BY <1>4, <1>5, <1>6

\* The walk takes no more than an ask holds, and has emptied every ask before
\* one it empties.
LEMMA TakeFacts ==
  ASSUME asks \in Seq(AskType), Ordered(asks), NEW lots \in Nat, NEW limit \in Nat
  PROVE  /\ \A k \in 1 .. Len(asks) : Take(k, lots, limit) \in 0 .. asks[k].remaining
         /\ \A j, k \in 1 .. Len(asks) :
              j < k /\ Take(k, lots, limit) = asks[k].remaining
                => Take(j, lots, limit) = asks[j].remaining
<1> DEFINE R(k) == SumFunctionOnSet(Remaining, 1 .. k - 1)
<1>1. ASSUME NEW k \in 1 .. Len(asks)
      PROVE  /\ R(k) \in Nat /\ k \in Nat
             /\ asks[k].remaining \in Nat /\ asks[k].remaining > 0 /\ asks[k].price \in Nat
             /\ Take(k, lots, limit) = IF k <= MAX_WALK /\ asks[k].price <= limit
                  THEN LesserOf(asks[k].remaining, SatSub(lots, R(k))) ELSE 0
  BY RemainingBefore, AskFacts DEF Take
<1>2. ASSUME NEW j \in 1 .. Len(asks), NEW k \in 1 .. Len(asks), j < k
      PROVE  /\ asks[j].price <= asks[k].price
             /\ R(j) + asks[j].remaining <= R(k)
  <2>1. asks[j].price <= asks[k].price
    <3>1. asks[j].price \in Nat /\ asks[k].price \in Nat
      BY <1>1
    <3>2. Better(asks[j], asks[k])
      BY <1>2 DEF Ordered
    <3> QED
      BY <3>1, <3>2 DEF Better
  <2>2. R(j) + asks[j].remaining <= R(k)
    <3>1. j + 1 \in 1 .. k /\ (j + 1) - 1 = j
      BY <1>1, <1>2
    <3>2. SumFunctionOnSet(Remaining, 1 .. (j + 1) - 1) <= R(k)
      BY <3>1, RemainingBefore
    <3>3. SumFunctionOnSet(Remaining, 1 .. j) = R(j) + asks[j].remaining
      BY RemainingBefore
    <3> HIDE DEF R
    <3> QED
      BY <3>1, <3>2, <3>3
  <2> QED
    BY <2>1, <2>2
<1> HIDE DEF R
<1>3. ASSUME NEW k \in 1 .. Len(asks)
      PROVE  Take(k, lots, limit) \in 0 .. asks[k].remaining
  BY <1>1 DEF LesserOf, SatSub
<1>4. ASSUME NEW j \in 1 .. Len(asks), NEW k \in 1 .. Len(asks), j < k,
             Take(k, lots, limit) = asks[k].remaining
      PROVE  Take(j, lots, limit) = asks[j].remaining
  <2>1. k <= MAX_WALK /\ asks[k].price <= limit /\ SatSub(lots, R(k)) >= asks[k].remaining
    BY <1>1, <1>4 DEF LesserOf, SatSub
  <2>2. R(k) + asks[k].remaining <= lots
    BY <1>1, <2>1 DEF SatSub
  <2>3. j <= MAX_WALK /\ asks[j].price <= limit
    <3>1. MAX_WALK \in Nat /\ j \in Nat /\ k \in Nat
      BY <1>1, Constants
    <3>2. asks[j].price \in Nat /\ asks[k].price \in Nat
      BY <1>1
    <3>3. asks[j].price <= asks[k].price
      BY <1>2, <1>4
    <3> QED
      BY <1>4, <2>1, <3>1, <3>2, <3>3
  <2>4. SatSub(lots, R(j)) >= asks[j].remaining
    BY <1>1, <1>2, <1>4, <2>2 DEF SatSub
  <2> QED
    BY <1>1, <2>3, <2>4 DEF LesserOf, SatSub
<1> QED
  BY <1>3, <1>4

\* The terms of a purchase add up slot by slot.
LEMMA SumBySlot ==
  ASSUME asks \in Seq(AskType), NEW f, DOMAIN f = 1 .. Len(asks),
         \A k \in 1 .. Len(asks) : f[k] \in Nat
  PROVE  /\ SumFunction(f) \in Nat
         /\ \A i : SumOf(i, f) \in Nat
         /\ SumFunctionOnSet([i \in SlotIds |-> SumOf(i, f)], SlotIds) = SumFunction(f)
<1> DEFINE K == 1 .. Len(asks)
           key == [k \in K |-> asks[k].slot]
           h == [i \in SlotIds |-> SumOf(i, f)]
           keyed == [i \in SlotIds |-> AsksOf(i)]
<1>1. IsFiniteSet(K)
  <2>1. 1 \in Int /\ Len(asks) \in Int
    BY AskFacts
  <2> QED
    BY <2>1, FS_Interval
<1>2. IsFiniteSet(SlotIds)
  <2>1. 1 \in Int /\ MAX_WRITERS \in Int
    BY Constants
  <2> QED
    BY <2>1, FS_Interval DEF SlotIds
<1>3. NatTerms(f, K) /\ IntTerms(f, K)
  BY NatTermsAreInts DEF NatTerms
<1>4. key \in [K -> SlotIds]
  BY AskFacts
<1>5. ASSUME NEW i
      PROVE  AsksOf(i) \in SUBSET K /\ \A k \in K : k \in AsksOf(i) <=> key[k] = i
  BY DEF AsksOf
<1>6. \A i \in SlotIds : h[i] = SumFunctionOnSet(f, keyed[i])
  BY DEF SumOf
<1>7. SumFunction(f) = SumFunctionOnSet(f, K)
  BY DEF SumFunction
<1>8. ASSUME NEW i PROVE SumOf(i, f) \in Nat
  <2>1. IsFiniteSet(AsksOf(i)) /\ NatTerms(f, AsksOf(i))
    BY <1>1, <1>3, <1>5, FS_Subset, PartOfNatTerms
  <2> QED
    BY <2>1, SumNat DEF SumOf
<1>9. SumFunctionOnSet(h, SlotIds) = SumFunctionOnSet(f, K)
  <2> DEFINE I == SlotIds
  <2>1. /\ IsFiniteSet(K) /\ IsFiniteSet(I) /\ key \in [K -> I] /\ IntTerms(f, K)
        /\ \A i \in I : h[i] = SumFunctionOnSet(f, keyed[i])
        /\ \A i \in I : /\ keyed[i] \in SUBSET K
                         /\ \A k \in K : k \in keyed[i] <=> key[k] = i
    <3>1. \A i \in I : keyed[i] = AsksOf(i)
      OBVIOUS
    <3>2. \A i \in I : h[i] = SumFunctionOnSet(f, keyed[i])
      BY <1>6
    <3> HIDE DEF keyed, K, key, h
    <3>3. ASSUME NEW i \in I
          PROVE  keyed[i] \in SUBSET K /\ \A k \in K : k \in keyed[i] <=> key[k] = i
      BY <1>5, <3>1
    <3> QED
      BY <1>1, <1>2, <1>3, <1>4, <3>2, <3>3
  <2> HIDE DEF K, key, h, I, keyed
  <2>2. SumFunctionOnSet(h, I) = SumFunctionOnSet(f, K)
    BY <2>1, SumByKey
  <2> QED
    BY <2>2 DEF I
<1>10. SumFunctionOnSet(f, K) \in Nat
  <2> HIDE DEF K
  <2> QED
    BY <1>1, <1>3, SumNat
<1> QED
  BY <1>7, <1>8, <1>9, <1>10

\* The asks a purchase leaves in the book: in order, none of them empty, and
\* with at least the lots gone that were taken from each slot.
LEMMA WalkFacts ==
  ASSUME asks \in Seq(AskType), Ordered(asks), NumberedUpTo(asks, seq),
         NEW lots \in Nat, NEW limit \in Nat,
         NEW take, take = Taken(lots, limit),
         NEW part, part = SubSeq(Left(take), Cardinality(Emptied(take)) + 1, Len(asks))
  PROVE  /\ part \in Seq(AskType) /\ Len(part) <= Len(asks)
         /\ Ordered(part) /\ NumberedUpTo(part, seq)
         /\ \A i : LotsIn(part, i) + SumOf(i, take) <= LotsIn(asks, i)
         /\ \A i : Cardinality(AsksIn(part, i)) <= Cardinality(AsksIn(asks, i))
<1> DEFINE n == Len(asks)
           left == Left(take)
           E == Emptied(take)
           e == Cardinality(E)
<1>1. n \in Nat /\ \A k \in 1 .. n : asks[k] \in AskType
  BY AskFacts
<1>2. ASSUME NEW k \in 1 .. n
      PROVE  /\ take[k] \in 0 .. asks[k].remaining
             /\ take[k] = Take(k, lots, limit)
  BY TakeFacts DEF Taken
<1>3. ASSUME NEW k \in 1 .. n
      PROVE  left[k] = [slot |-> asks[k].slot, remaining |-> asks[k].remaining - take[k],
                        price |-> asks[k].price, seq |-> asks[k].seq]
  <2>1. asks[k] \in AskType
    BY <1>1
  <2>2. left[k] = [asks[k] EXCEPT !.remaining = @ - take[k]]
    BY DEF Left
  <2> HIDE DEF n, left
  <2> QED
    BY <2>1, <2>2 DEF AskType
<1>4. ASSUME NEW k \in 1 .. n
      PROVE  /\ left[k] \in FilledAskType
             /\ left[k].remaining # 0 => left[k] \in AskType
             /\ left[k].remaining + take[k] = asks[k].remaining
             /\ left[k].slot = asks[k].slot /\ left[k].price = asks[k].price
             /\ left[k].seq = asks[k].seq
  <2>1. asks[k] \in AskType /\ take[k] \in 0 .. asks[k].remaining
    BY <1>1, <1>2
  <2>2. /\ asks[k].remaining - take[k] \in Nat
        /\ asks[k].remaining - take[k] + take[k] = asks[k].remaining
        /\ asks[k].slot \in SlotIds /\ asks[k].price \in Nat /\ asks[k].seq \in Nat
    <3>1. /\ asks[k].remaining \in Nat /\ asks[k].slot \in SlotIds
          /\ asks[k].price \in Nat /\ asks[k].seq \in Nat
      BY <2>1 DEF AskType
    <3>2. ASSUME NEW x \in Nat, NEW y \in 0 .. x PROVE x - y \in Nat /\ x - y + y = x
      OBVIOUS
    <3> QED
      BY <2>1, <3>1, <3>2
  <2> DEFINE r == asks[k].remaining - take[k]
  <2>3. /\ r \in Nat /\ r + take[k] = asks[k].remaining
        /\ left[k] = [slot |-> asks[k].slot, remaining |-> r,
                      price |-> asks[k].price, seq |-> asks[k].seq]
    BY <1>3, <2>2
  <2> HIDE DEF n, left, r
  <2> QED
    BY <2>2, <2>3 DEF AskType, FilledAskType
<1>5. left \in Asks /\ Len(left) = n
  <2>1. left = [k \in 1 .. n |-> left[k]]
    BY DEF Left
  <2>2. left \in [1 .. n -> FilledAskType]
    <3> HIDE DEF left, n
    <3> QED
      BY <1>4, <2>1
  <2> HIDE DEF left, n
  <2> QED
    BY <1>1, <2>2, FunctionIsSequence DEF Asks
<1>6. E \in SUBSET (1 .. n) /\ \A k \in 1 .. n : k \in E <=> take[k] = asks[k].remaining
  <2>1. E = {k \in 1 .. n : left[k].remaining = 0}
    BY DEF Emptied
  <2>2. ASSUME NEW k \in 1 .. n
        PROVE  left[k].remaining = 0 <=> take[k] = asks[k].remaining
    <3>1. asks[k].remaining \in Nat /\ take[k] \in Nat
      BY <1>2, AskFacts
    <3>2. left[k].remaining + take[k] = asks[k].remaining /\ left[k].remaining \in Nat
      BY <1>4 DEF FilledAskType
    <3> QED
      BY <3>1, <3>2
  <2> HIDE DEF E, left, n
  <2> QED
    BY <2>1, <2>2
<1>7. e \in 0 .. n /\ E = 1 .. e
  <2>1. \A j \in 1 .. n, k \in E : j < k => j \in E
    <3> HIDE DEF E
    <3> SUFFICES ASSUME NEW j \in 1 .. n, NEW k \in E, j < k PROVE j \in E
      OBVIOUS
    <3>1. k \in 1 .. n /\ Take(k, lots, limit) = asks[k].remaining
      BY <1>2, <1>6
    <3>2. Take(j, lots, limit) = asks[j].remaining
      BY <3>1, TakeFacts
    <3> QED
      BY <1>2, <1>6, <3>2
  <2> HIDE DEF E, n
  <2> QED
    BY <1>1, <1>6, <2>1, PrefixIsInterval
<1>8. ASSUME NEW k \in e + 1 .. n PROVE left[k] \in AskType
  <2>1. k \in 1 .. n /\ k \notin E
    BY <1>1, <1>7
  <2>2. left[k].remaining # 0
    BY <1>6, <2>1 DEF Emptied
  <2> QED
    BY <1>4, <2>1, <2>2
<1>9. Shrinks(left, part)
  <2>1. part = SubSeq(left, e + 1, Len(left))
    BY <1>5
  <2> HIDE DEF left, e, n
  <2> QED
    BY <1>5, <1>7, <1>8, <2>1, TailShrinks
<1>10. Ordered(left) /\ NumberedUpTo(left, seq)
  <2>1. Ordered(left)
    <3> SUFFICES ASSUME NEW j \in 1 .. n, NEW k \in 1 .. n, j < k
                 PROVE  Better(left[j], left[k])
      BY <1>5 DEF Ordered
    <3>1. Better(asks[j], asks[k])
      BY DEF Ordered
    <3> HIDE DEF left, n
    <3> QED
      BY <1>4, <3>1 DEF Better
  <2>2. \A k \in 1 .. n : left[k].seq <= seq
    BY <1>4 DEF NumberedUpTo
  <2> QED
    BY <1>5, <2>1, <2>2 DEF NumberedUpTo
<1>11. ASSUME NEW i
       PROVE  /\ AsksIn(left, i) = AsksIn(asks, i)
              /\ LotsIn(left, i) + SumOf(i, take) = LotsIn(asks, i)
  <2>1. AsksIn(left, i) = AsksIn(asks, i)
    <3>1. AsksIn(left, i) = {k \in 1 .. n : left[k].slot = i}
      BY <1>5 DEF AsksIn
    <3>2. AsksIn(asks, i) = {k \in 1 .. n : asks[k].slot = i}
      BY DEF AsksIn
    <3> HIDE DEF left, n
    <3> QED
      BY <1>4, <3>1, <3>2
  <2> DEFINE S == AsksIn(asks, i)
  <2>2. /\ IsFiniteSet(S) /\ NatTerms(LotsOf(asks), S) /\ S \in SUBSET (1 .. n)
        /\ NatTerms(LotsOf(left), AsksIn(left, i))
    BY <1>5, AskFacts, LotsFacts
  <2>3. IntTerms(LotsOf(left), S) /\ IntTerms(take, S)
    <3>1. IntTerms(LotsOf(left), S)
      BY <2>1, <2>2, NatTermsAreInts
    <3>2. \A k \in S : take[k] \in Int
      BY <1>2, <2>2, AskFacts
    <3> QED
      BY <3>1, <3>2 DEF IntTerms
  <2>4. ASSUME NEW k \in S PROVE LotsOf(asks)[k] = LotsOf(left)[k] + take[k]
    <3>1. k \in 1 .. n
      BY <2>2
    <3>2. LotsOf(asks)[k] = asks[k].remaining /\ LotsOf(left)[k] = left[k].remaining
      BY <1>5, <3>1 DEF LotsOf
    <3> QED
      BY <1>4, <3>1, <3>2
  <2>5. SumFunctionOnSet(LotsOf(asks), S)
          = SumFunctionOnSet(LotsOf(left), S) + SumFunctionOnSet(take, S)
    <3> DEFINE f == LotsOf(left)
               h == LotsOf(asks)
    <3>1. IsFiniteSet(S) /\ IntTerms(f, S) /\ IntTerms(take, S)
      BY <2>2, <2>3
    <3>2. \A k \in S : h[k] = f[k] + take[k]
      BY <2>4
    <3> HIDE DEF S, f, h
    <3>3. SumFunctionOnSet(h, S) = SumFunctionOnSet(f, S) + SumFunctionOnSet(take, S)
      BY <3>1, <3>2, SumPlus
    <3> QED
      BY <3>3 DEF f, h
  <2>6. SumOf(i, take) = SumFunctionOnSet(take, S)
    BY BookNow DEF SumOf
  <2> QED
    BY <2>1, <2>5, <2>6 DEF LotsIn
<1> HIDE DEF left, E, e, n
<1>12. ASSUME NEW i
       PROVE  /\ LotsIn(part, i) + SumOf(i, take) <= LotsIn(asks, i)
              /\ Cardinality(AsksIn(part, i)) <= Cardinality(AsksIn(asks, i))
  <2>1. LotsIn(part, i) <= LotsIn(left, i) /\ Cardinality(AsksIn(part, i)) <= Cardinality(AsksIn(left, i))
    BY <1>9 DEF Shrinks
  <2>2. part \in Asks
    BY <1>9, AsksAreFilledAsks DEF Shrinks
  <2>3. LotsIn(part, i) \in Nat /\ LotsIn(left, i) \in Nat
    BY <1>5, <2>2, LotsFacts
  <2>4. SumOf(i, take) \in Nat
    <3>1. \A k \in 1 .. Len(asks) : take[k] \in Nat
      BY <1>2, AskFacts DEF n
    <3>2. DOMAIN take = 1 .. Len(asks)
      BY DEF Taken
    <3> QED
      BY <3>1, <3>2, SumBySlot
  <2>5. LotsIn(left, i) + SumOf(i, take) = LotsIn(asks, i)
    BY <1>11
  <2>6. Cardinality(AsksIn(part, i)) <= Cardinality(AsksIn(asks, i))
    BY <1>11, <2>1
  <2>7. LotsIn(part, i) + SumOf(i, take) <= LotsIn(left, i) + SumOf(i, take)
    BY <2>1, <2>3, <2>4
  <2> QED
    BY <2>5, <2>6, <2>7
<1>13. part \in Seq(AskType) /\ Len(part) <= Len(asks)
  BY <1>5, <1>9 DEF Shrinks, n
<1> QED
  BY <1>9, <1>10, <1>12, <1>13 DEF Shrinks

-----------------------------------------------------------------------------
(* The invariants of the series.                                           *)

ProductInRange == pool.p \in P_FLOOR .. P_ONE

\* The book is in price-time order and within its capacities, and no ask is
\* numbered above the last number given.
BookInv ==
  /\ Len(asks) <= MAX_ASKS
  /\ \A i \in SlotIds : Cardinality(AsksIn(asks, i)) <= MAX_ASKS_PER_WRITER
  /\ Ordered(asks) /\ NumberedUpTo(asks, seq)

Core == TypeOK /\ ProductInRange /\ BookInv

\* What a quote brings: the collateral that arrives, the lots it is credited
\* as, the slot it leaves and the ask it posts.
ArrivedFor(dep) ==
  IF IsCall THEN Arrived(CollateralCeil(dep)) ELSE CollateralCeil(dep)
CreditedFor(dep) == IF IsCall THEN ArrivedFor(dep) \div RawPerLot ELSE dep
QuotedSlot(w, dep) == [SlotRecord(w) EXCEPT !.deposited = @ + CreditedFor(dep)]
NewAsk(w, lots, price) ==
  [slot |-> SlotFor(w), remaining |-> lots, price |-> price, seq |-> seq + 1]

\* The type invariant, variable by variable.
LEMMA TypeFacts ==
  ASSUME TypeOK
  PROVE  /\ pool \in PoolType /\ pool.u \in Nat /\ pool.p \in Nat
         /\ DOMAIN slots = SlotIds
         /\ \A i \in SlotIds : slots[i] \in SlotType
         /\ asks \in Seq(AskType)
         /\ seq \in Nat /\ totalSold \in Nat /\ totalExercised \in Nat /\ supply \in Nat
         /\ exercises \in Nat /\ now \in Nat
         /\ halt \in [state : {"open", "halted"}, at : Nat, resumed : Nat]
         /\ bal \in [{"collateral", "settlement", "quote", "fee", "treasury"} -> Nat]
         /\ bal.collateral \in Nat /\ bal.settlement \in Nat /\ bal.quote \in Nat
         /\ bal.fee \in Nat /\ bal.treasury \in Nat
         /\ live \in BOOLEAN /\ trading \in BOOLEAN /\ mintPaused \in BOOLEAN
BY DEF TypeOK, PoolType

\* The type of a slot, field by field.
LEMMA SlotFields ==
  ASSUME NEW s \in SlotType
  PROVE  /\ s.writer \in Writers \cup {NoWriter}
         /\ s.deposited \in Nat /\ s.withdrawn \in Nat /\ s.sold \in Nat
         /\ s.open \in Nat /\ s.assigned \in Nat /\ s.premium \in Nat
         /\ s.p \in Nat /\ s.scale \in 0 .. ScaleMod - 1 /\ s.epoch \in Nat
         /\ s.settled \in BOOLEAN
BY DEF SlotType

\* The lots credited for a deposit are covered by what arrived of it, wherever
\* the rounding of the floor falls.
LEMMA CreditFacts ==
  ASSUME NEW dep \in Nat
  PROVE  /\ ArrivedFor(dep) \in Nat /\ CreditedFor(dep) \in Nat
         /\ \A m \in Nat : CollateralFloor(m + CreditedFor(dep))
                             <= CollateralFloor(m) + ArrivedFor(dep)
<1>1. CollateralCeil(dep) \in Nat
  BY CollateralFacts
<1>2. ArrivedFor(dep) \in Nat
  BY <1>1, ArrivedIsNumber DEF ArrivedFor
<1>3. CASE IsCall
  <2> DEFINE a == ArrivedFor(dep)
             c == a \div RawPerLot
  <2>1. CreditedFor(dep) = c
    BY <1>3 DEF CreditedFor
  <2>2. RawPerLot \in Nat /\ RawPerLot > 0 /\ a \in Nat
    BY <1>2, Constants
  <2> HIDE DEF a
  <2>3. c \in Nat /\ c * RawPerLot <= a
    BY <2>2, DivBounds
  <2> HIDE DEF c
  <2>4. ASSUME NEW m \in Nat
        PROVE  CollateralFloor(m + c) <= CollateralFloor(m) + a
    <3>1. (m + c) * RawPerLot = m * RawPerLot + c * RawPerLot /\ m * RawPerLot \in Nat
          /\ c * RawPerLot \in Nat
      BY <2>2, <2>3, MulNat
    <3>2. CollateralFloor(m + c) = (m + c) * RawPerLot
      BY <1>3 DEF CollateralFloor
    <3>3. CollateralFloor(m) = m * RawPerLot
      BY <1>3 DEF CollateralFloor
    <3> QED
      BY <2>2, <2>3, <3>1, <3>2, <3>3
  <2> QED
    BY <1>2, <2>1, <2>3, <2>4 DEF a
<1>4. CASE ~IsCall
  <2>1. CreditedFor(dep) = dep /\ ArrivedFor(dep) = CollateralCeil(dep)
    BY <1>4 DEF CreditedFor, ArrivedFor
  <2> QED
    BY <1>2, <2>1, CollateralFacts
<1> QED
  BY <1>3, <1>4

\* The slot of a quote is the writer's own or one that can be given away.
LEMMA SlotForFacts ==
  ASSUME TypeOK, NEW w \in Writers, SlotsOf(w) # {} \/ Recyclable # {}
  PROVE  /\ SlotFor(w) \in SlotIds
         /\ SlotRecord(w) \in SlotType /\ SlotRecord(w).writer = w
         /\ \/ /\ SlotRecord(w) = slots[SlotFor(w)]
               /\ slots[SlotFor(w)].writer = w
            \/ /\ SlotRecord(w) = ClaimedSlot(w)
               /\ IsRecyclable(slots[SlotFor(w)])
<1>1. SlotIds \in SUBSET Nat
  BY Constants DEF SlotIds
<1>2. CASE SlotsOf(w) # {}
  <2>1. SlotsOf(w) \in SUBSET Nat
    BY <1>1 DEF SlotsOf
  <2>2. SlotFor(w) \in SlotsOf(w)
    BY <1>2, <2>1, LeastMember DEF SlotFor
  <2>3. SlotFor(w) \in SlotIds /\ slots[SlotFor(w)].writer = w
    BY <2>2 DEF SlotsOf
  <2>4. SlotRecord(w) = slots[SlotFor(w)]
    BY <1>2 DEF SlotRecord
  <2> QED
    BY <2>3, <2>4, TypeFacts
<1>3. CASE SlotsOf(w) = {}
  <2>1. Recyclable \in SUBSET Nat /\ Recyclable # {}
    BY <1>1, <1>3 DEF Recyclable
  <2>2. SlotFor(w) \in Recyclable
    BY <1>3, <2>1, LeastMember DEF SlotFor
  <2>3. SlotFor(w) \in SlotIds /\ IsRecyclable(slots[SlotFor(w)])
    BY <2>2 DEF Recyclable
  <2>4. SlotRecord(w) = ClaimedSlot(w)
    BY <1>3 DEF SlotRecord
  <2>5. ClaimedSlot(w) \in SlotType
    BY TypeFacts, ClaimedSlotIsSlot
  <2>6. ClaimedSlot(w).writer = w
    BY DEF ClaimedSlot, EmptySlot
  <2> QED
    BY <2>3, <2>4, <2>5, <2>6
<1> QED
  BY <1>2, <1>3

\* A quote adds the deposit's lots to its slot and leaves the rest of it.
LEMMA QuotedSlotFacts ==
  ASSUME TypeOK, NEW w \in Writers, SlotsOf(w) # {} \/ Recyclable # {}, NEW dep \in Nat
  PROVE  LET s == QuotedSlot(w, dep)
             r == SlotRecord(w)
         IN  /\ s \in SlotType
             /\ s.writer = w /\ s.deposited = r.deposited + CreditedFor(dep)
             /\ s.withdrawn = r.withdrawn /\ s.sold = r.sold /\ s.open = r.open
             /\ s.assigned = r.assigned /\ s.premium = r.premium /\ s.p = r.p
             /\ s.scale = r.scale /\ s.epoch = r.epoch /\ s.settled = r.settled
<1> DEFINE r == SlotRecord(w)
           d == r.deposited + CreditedFor(dep)
<1>1. r \in SlotType /\ r.writer = w
  BY SlotForFacts
<1>2. CreditedFor(dep) \in Nat
  BY CreditFacts
<1>3. d \in Nat
  BY <1>1, <1>2, SlotFields
<1>4. QuotedSlot(w, dep) = [r EXCEPT !.deposited = d]
  BY DEF QuotedSlot
<1> HIDE DEF r
<1> HIDE DEF d
<1>5. QuotedSlot(w, dep) =
        [writer |-> r.writer, deposited |-> d, withdrawn |-> r.withdrawn,
         sold |-> r.sold, open |-> r.open, assigned |-> r.assigned, premium |-> r.premium,
         p |-> r.p, scale |-> r.scale, epoch |-> r.epoch, settled |-> r.settled]
  BY <1>1, <1>4 DEF SlotType
<1>6. QuotedSlot(w, dep) \in SlotType
  BY <1>1, <1>3, <1>5 DEF SlotType
<1> QED
  BY <1>1, <1>5, <1>6 DEF r, d

\* The instruction, in those terms.
LEMMA QuoteStep ==
  ASSUME NEW w, NEW dep, NEW lots, NEW price, Quote(w, dep, lots, price)
  PROVE  /\ live /\ trading /\ Expiry > now
         /\ ~Observe(halt, SeenByQuote).halted
         /\ price > 0 /\ lots >= MinLots /\ lots <= MaxLots
         /\ SlotsOf(w) # {} \/ Recyclable # {}
         /\ FreeLots(QuotedSlot(w, dep), SlotFor(w)) >= lots
         /\ Cardinality(AsksOf(SlotFor(w))) < MAX_ASKS_PER_WRITER
         /\ seq < MaxQuotes
         /\ slots' = [slots EXCEPT ![SlotFor(w)] = QuotedSlot(w, dep)]
         /\ asks' = Insert(Room, NewAsk(w, lots, price))
         /\ seq' = seq + 1
         /\ halt' = Observe(halt, SeenByQuote).halt
         /\ bal' = [bal EXCEPT !.collateral = @ + ArrivedFor(dep)]
         /\ UNCHANGED <<pool, totalSold, totalExercised, live, supply, exercises, world>>
BY DEF Quote, QuotedSlot, NewAsk, CreditedFor, ArrivedFor

PremiumsOf(take) == [k \in 1 .. Len(asks) |-> UsdcPaidFloor(take[k], asks[k].price)]
FeesOf(premium) == [k \in 1 .. Len(asks) |-> FeeCeil(premium[k], FeeBps)]
SoldSlot(i, take) ==
  IF SumOf(i, take) = 0 THEN slots[i]
  ELSE [AddOpen(pool, slots[i], SumOf(i, take)) EXCEPT
          !.premium = @ + SumOf(i, PremiumsOf(take)) - SumOf(i, FeesOf(PremiumsOf(take)))]

\* What buy_core requires and writes.
LEMMA BuyStep ==
  ASSUME NEW lots, NEW limit, Buy(lots, limit)
  PROVE  LET take == Taken(lots, limit)
             premium == PremiumsOf(take)
             fee == FeesOf(premium)
         IN  /\ live /\ trading /\ Expiry > now /\ halt.state = "open"
             /\ lots >= MinLots /\ lots <= MaxLots
             /\ SumFunction(take) > 0
             /\ slots' = [i \in SlotIds |-> SoldSlot(i, take)]
             /\ asks' = SubSeq(Left(take), Cardinality(Emptied(take)) + 1, Len(asks))
             /\ totalSold' = totalSold + SumFunction(take)
             /\ pool' = [pool EXCEPT !.u = @ + SumFunction(take)]
             /\ bal' = [bal EXCEPT !.quote = @ + (SumFunction(premium) - SumFunction(fee)),
                                   !.fee = @ + SumFunction(fee)]
             /\ supply' = supply + SumFunction(take)
             /\ UNCHANGED <<seq, totalExercised, halt, live, exercises, world>>
BY DEF Buy, Taken, PremiumsOf, FeesOf, SoldSlot, SumOf, Left, Emptied

\* What each slot and all of them sell, earn and pay in fees in a purchase.
FillsAddUp(take, premium, fee) ==
  /\ SumFunction(take) \in Nat /\ SumFunction(premium) \in Nat
  /\ SumFunction(fee) \in Nat /\ SumFunction(fee) <= SumFunction(premium)
  /\ \A i : /\ SumOf(i, take) \in Nat /\ SumOf(i, premium) \in Nat
            /\ SumOf(i, fee) \in Nat /\ SumOf(i, fee) <= SumOf(i, premium)
            /\ SumOf(i, take) <= Resident(i) /\ Resident(i) \in Nat
            /\ SumOf(i, take) = 0 => SumOf(i, premium) = 0 /\ SumOf(i, fee) = 0
  /\ SumFunctionOnSet([i \in SlotIds |-> SumOf(i, take)], SlotIds) = SumFunction(take)
  /\ SumFunctionOnSet([i \in SlotIds |-> SumOf(i, premium)], SlotIds)
       = SumFunction(premium)
  /\ SumFunctionOnSet([i \in SlotIds |-> SumOf(i, fee)], SlotIds) = SumFunction(fee)

\* Fills, premiums and fees of one walk add up, by slot as well as in total.
LEMMA FillFacts ==
  ASSUME asks \in Seq(AskType), Ordered(asks), NumberedUpTo(asks, seq),
         NEW lots \in Nat, NEW limit \in Nat,
         NEW take, take = Taken(lots, limit),
         NEW premium, premium = PremiumsOf(take), NEW fee, fee = FeesOf(premium)
  PROVE  FillsAddUp(take, premium, fee)
<1> DEFINE K == 1 .. Len(asks)
<1>1. ASSUME NEW k \in K
      PROVE  /\ take[k] \in Nat /\ premium[k] \in Nat /\ fee[k] \in Nat
             /\ fee[k] <= premium[k]
             /\ take[k] = 0 => premium[k] = 0 /\ fee[k] = 0
  <2>1. take[k] \in Nat /\ asks[k].price \in Nat
    <3>1. take[k] \in 0 .. asks[k].remaining
      BY TakeFacts DEF Taken
    <3> QED
      BY <3>1, AskFacts
  <2>2. premium[k] = UsdcPaidFloor(take[k], asks[k].price)
    BY DEF PremiumsOf
  <2>3. fee[k] = FeeCeil(premium[k], FeeBps)
    BY DEF FeesOf
  <2>4. premium[k] \in Nat /\ fee[k] \in Nat /\ fee[k] <= premium[k]
    <3> DEFINE a == take[k]
               c == asks[k].price
               u == UsdcPaidFloor(a, c)
    <3>1. a \in Nat /\ c \in Nat
      BY <2>1
    <3> HIDE DEF a, c
    <3>2. u \in Nat /\ FeeCeil(u, FeeBps) \in Nat /\ FeeCeil(u, FeeBps) <= u
      BY <3>1, PremiumFacts
    <3>3. premium[k] = u
      BY <2>2 DEF a, c
    <3> HIDE DEF u
    <3> QED
      BY <2>3, <3>2, <3>3
  <2>5. take[k] = 0 => premium[k] = 0
    <3>1. ASSUME NEW x \in Nat PROVE UsdcPaidFloor(0, x) = 0
      <4>1. 0 * x = 0
        OBVIOUS
      <4>2. LOT6 \in Nat /\ LOT6 > 0
        BY Constants
      <4>3. 0 \div LOT6 = 0
        BY <4>2
      <4> QED
        BY <4>1, <4>3 DEF UsdcPaidFloor
    <3> QED
      BY <2>1, <2>2, <3>1
  <2> QED
    BY <2>1, <2>4, <2>5
<1>2. DOMAIN take = K /\ DOMAIN premium = K /\ DOMAIN fee = K
  BY DEF Taken, PremiumsOf, FeesOf
<1>3. IsFiniteSet(K)
  BY AskFacts, LotsFacts
<1>4. ASSUME NEW i PROVE AsksOf(i) \in SUBSET K /\ IsFiniteSet(AsksOf(i))
  <2>1. AsksOf(i) \in SUBSET K
    BY DEF AsksOf
  <2> QED
    BY <1>3, <2>1, FS_Subset
<1> HIDE DEF K
<1>5. ASSUME NEW S \in SUBSET K, IsFiniteSet(S)
      PROVE  /\ SumFunctionOnSet(fee, S) <= SumFunctionOnSet(premium, S)
             /\ SumFunctionOnSet(take, S) = 0
                  => SumFunctionOnSet(premium, S) = 0 /\ SumFunctionOnSet(fee, S) = 0
  <2>1. /\ IntTerms(fee, S) /\ IntTerms(premium, S) /\ NatTerms(take, S)
        /\ \A x \in S : fee[x] <= premium[x]
    BY <1>1 DEF IntTerms, NatTerms
  <2>2. SumFunctionOnSet(fee, S) <= SumFunctionOnSet(premium, S)
    BY <1>5, <2>1, SumMonotone
  <2>3. ASSUME SumFunctionOnSet(take, S) = 0
        PROVE  SumFunctionOnSet(premium, S) = 0 /\ SumFunctionOnSet(fee, S) = 0
    <3>1. \A x \in S : take[x] <= 0
      BY <1>5, <2>1, <2>3, SumNat
    <3>2. \A x \in S : take[x] = 0
      BY <2>1, <3>1 DEF NatTerms
    <3>3. \A x \in S : premium[x] = 0 /\ fee[x] = 0
      BY <1>1, <3>2
    <3> QED
      BY <1>5, <3>3, SumOfZeros
  <2> QED
    BY <2>2, <2>3
<1>6. /\ SumFunction(take) \in Nat /\ SumFunction(premium) \in Nat
      /\ SumFunction(fee) \in Nat
      /\ \A i : SumOf(i, take) \in Nat /\ SumOf(i, premium) \in Nat /\ SumOf(i, fee) \in Nat
      /\ SumFunctionOnSet([i \in SlotIds |-> SumOf(i, take)], SlotIds) = SumFunction(take)
      /\ SumFunctionOnSet([i \in SlotIds |-> SumOf(i, premium)], SlotIds)
           = SumFunction(premium)
      /\ SumFunctionOnSet([i \in SlotIds |-> SumOf(i, fee)], SlotIds) = SumFunction(fee)
  <2>1. \A k \in 1 .. Len(asks) : take[k] \in Nat /\ premium[k] \in Nat /\ fee[k] \in Nat
    BY <1>1 DEF K
  <2>2. /\ DOMAIN take = 1 .. Len(asks) /\ DOMAIN premium = 1 .. Len(asks)
        /\ DOMAIN fee = 1 .. Len(asks)
    BY <1>2 DEF K
  <2>3. /\ SumFunction(take) \in Nat /\ \A i : SumOf(i, take) \in Nat
        /\ SumFunctionOnSet([i \in SlotIds |-> SumOf(i, take)], SlotIds) = SumFunction(take)
    BY <2>1, <2>2, SumBySlot
  <2>4. /\ SumFunction(premium) \in Nat /\ \A i : SumOf(i, premium) \in Nat
        /\ SumFunctionOnSet([i \in SlotIds |-> SumOf(i, premium)], SlotIds)
             = SumFunction(premium)
    BY <2>1, <2>2, SumBySlot
  <2>5. /\ SumFunction(fee) \in Nat /\ \A i : SumOf(i, fee) \in Nat
        /\ SumFunctionOnSet([i \in SlotIds |-> SumOf(i, fee)], SlotIds) = SumFunction(fee)
    BY <2>1, <2>2, SumBySlot
  <2> QED
    BY <2>3, <2>4, <2>5
<1>7. SumFunction(fee) <= SumFunction(premium)
  <2>1. SumFunction(fee) = SumFunctionOnSet(fee, K)
    BY <1>2 DEF SumFunction
  <2>2. SumFunction(premium) = SumFunctionOnSet(premium, K)
    BY <1>2 DEF SumFunction
  <2>3. SumFunctionOnSet(fee, K) <= SumFunctionOnSet(premium, K)
    BY <1>3, <1>5
  <2> QED
    BY <2>1, <2>2, <2>3
<1>8. ASSUME NEW i
      PROVE  /\ SumOf(i, fee) <= SumOf(i, premium)
             /\ SumOf(i, take) = 0 => SumOf(i, premium) = 0 /\ SumOf(i, fee) = 0
             /\ SumOf(i, take) <= Resident(i) /\ Resident(i) \in Nat
  <2>1. /\ SumOf(i, fee) <= SumOf(i, premium)
        /\ SumOf(i, take) = 0 => SumOf(i, premium) = 0 /\ SumOf(i, fee) = 0
    BY <1>4, <1>5 DEF SumOf
  <2> DEFINE part == SubSeq(Left(take), Cardinality(Emptied(take)) + 1, Len(asks))
  <2>2. part \in Seq(AskType) /\ LotsIn(part, i) + SumOf(i, take) <= LotsIn(asks, i)
    BY WalkFacts
  <2> HIDE DEF part
  <2>3. LotsIn(part, i) \in Nat /\ LotsIn(asks, i) \in Nat
    BY <2>2, AsksAreFilledAsks, LotsFacts
  <2>4. Resident(i) = LotsIn(asks, i)
    BY BookNow
  <2>5. SumOf(i, take) \in Nat
    BY <1>6
  <2> QED
    BY <2>1, <2>2, <2>3, <2>4, <2>5
<1> QED
  BY <1>6, <1>7, <1>8 DEF FillsAddUp

\* What a purchase leaves of a slot: its owner, the lots it filled and the
\* premium less the fee.
LEMMA SoldSlotFacts ==
  ASSUME TypeOK, Ordered(asks), NumberedUpTo(asks, seq),
         NEW lots \in Nat, NEW limit \in Nat,
         NEW take, take = Taken(lots, limit), NEW i \in SlotIds
  PROVE  LET s == SoldSlot(i, take)
         IN  /\ s \in SlotType
             /\ SameOwner(s, slots[i])
             /\ s.sold = slots[i].sold + SumOf(i, take)
             /\ s.premium = slots[i].premium
                  + (SumOf(i, PremiumsOf(take)) - SumOf(i, FeesOf(PremiumsOf(take))))
<1> DEFINE n == SumOf(i, take)
           x == SumOf(i, PremiumsOf(take))
           y == SumOf(i, FeesOf(PremiumsOf(take)))
           f == AddOpen(pool, slots[i], n)
           z == f.premium + x - y
<1>1. /\ n \in Nat /\ x \in Nat /\ y \in Nat /\ y <= x
      /\ n = 0 => x = 0 /\ y = 0
  <2> DEFINE premium == PremiumsOf(take)
             fee == FeesOf(premium)
  <2>1. asks \in Seq(AskType) /\ premium = PremiumsOf(take) /\ fee = FeesOf(premium)
    BY TypeFacts
  <2> HIDE DEF premium, fee, x, y, f, z, n
  <2>2. FillsAddUp(take, premium, fee)
    BY <2>1, FillFacts
  <2>3. /\ SumOf(i, take) \in Nat /\ SumOf(i, premium) \in Nat
        /\ SumOf(i, fee) \in Nat /\ SumOf(i, fee) <= SumOf(i, premium)
        /\ SumOf(i, take) = 0 => SumOf(i, premium) = 0 /\ SumOf(i, fee) = 0
    BY <2>2 DEF FillsAddUp
  <2> QED
    BY <2>3 DEF premium, fee, x, y, n
<1>2. slots[i] \in SlotType /\ pool \in PoolType
  BY TypeFacts
<1>3. /\ f \in SlotType /\ SameOwner(f, slots[i]) /\ f.sold = slots[i].sold + n
      /\ f.premium = slots[i].premium
  BY <1>1, <1>2, SlotAddOpen
<1>4. slots[i].sold \in Nat /\ slots[i].premium \in Nat
  BY <1>2, SlotFields
<1>5. CASE n = 0
  <2>1. SoldSlot(i, take) = slots[i]
    BY <1>5 DEF SoldSlot
  <2>2. SameOwner(slots[i], slots[i])
    BY DEF SameOwner
  <2>3. slots[i].sold + n = slots[i].sold /\ slots[i].premium + (x - y) = slots[i].premium
    BY <1>1, <1>4, <1>5
  <2> QED
    BY <1>2, <1>5, <2>1, <2>2, <2>3
<1>6. CASE n # 0
  <2>1. SoldSlot(i, take) = [f EXCEPT !.premium = z]
    BY <1>6 DEF SoldSlot
  <2>2. z \in Nat /\ z = slots[i].premium + (x - y)
    BY <1>1, <1>3, <1>4
  <2> HIDE DEF z, f, x, y, n
  <2>3. SoldSlot(i, take) =
          [writer |-> f.writer, deposited |-> f.deposited, withdrawn |-> f.withdrawn,
           sold |-> f.sold, open |-> f.open, assigned |-> f.assigned, premium |-> z,
           p |-> f.p, scale |-> f.scale, epoch |-> f.epoch, settled |-> f.settled]
    BY <1>3, <2>1 DEF SlotType
  <2>4. SoldSlot(i, take) \in SlotType /\ SameOwner(SoldSlot(i, take), slots[i])
    BY <1>3, <2>2, <2>3 DEF SlotType, SameOwner
  <2> QED
    BY <1>3, <1>6, <2>2, <2>3, <2>4 DEF n, x, y, f
<1> QED
  BY <1>5, <1>6

-----------------------------------------------------------------------------
(* Types, the range of the product and the order of the book.              *)

HaltType == [state : {"open", "halted"}, at : Nat, resumed : Nat]

\* observe_halt returns a halt record.
LEMMA ObserveType ==
  ASSUME NEW h \in HaltType, now \in Nat, NEW seen \in BOOLEAN
  PROVE  Observe(h, seen).halt \in HaltType
<1>1. CASE seen
  BY <1>1 DEF Observe, HaltType
<1>2. CASE ~seen
  <2>1. [h EXCEPT !.resumed = now] \in HaltType /\ [h EXCEPT !.state = "open"] \in HaltType
    BY DEF HaltType
  <2> QED
    BY <1>2, <2>1 DEF Observe
<1> QED
  BY <1>1, <1>2

\* A new series satisfies Core.
LEMMA CoreInit ==
  ASSUME Init
  PROVE  Core
<1>1. TypeOK
  <2>1. FreshPool \in PoolType
    BY ProductConstants, MulNat DEF FreshPool, PoolType
  <2>2. slots \in [SlotIds -> SlotType]
    BY EmptySlotIsSlot DEF Init
  <2>3. asks \in Seq(AskType)
    BY EmptySeq DEF Init
  <2>4. bal \in [{"collateral", "settlement", "quote", "fee", "treasury"} -> Nat]
    BY DEF Init
  <2>5. {seq, totalSold, totalExercised, supply, exercises, now} \subseteq Nat
    BY DEF Init
  <2>6. {live, trading, mintPaused} \subseteq BOOLEAN
    BY DEF Init
  <2>7. halt \in [state : {"open", "halted"}, at : Nat, resumed : Nat]
    BY DEF Init, OpenHalt
  <2>8. pool \in PoolType
    BY <2>1 DEF Init
  <2> QED
    BY <2>2, <2>3, <2>4, <2>5, <2>6, <2>7, <2>8 DEF TypeOK
<1>2. ProductInRange
  <2>1. P_ONE \in Nat /\ P_FLOOR \in Nat /\ P_FLOOR <= P_ONE
    <3>1. P_FLOOR \in Nat /\ P_SCALE \in Nat /\ P_FLOOR > 0 /\ P_SCALE > 0
      BY ProductConstants
    <3>2. P_FLOOR * P_SCALE \in Nat /\ P_FLOOR * P_SCALE >= P_FLOOR
      BY <3>1, MulNat, MulPos
    <3> QED
      BY <3>1, <3>2, ProductConstants
  <2> QED
    BY <2>1 DEF Init, ProductInRange, FreshPool
<1>3. BookInv
  <2>1. asks = <<>> /\ Len(asks) = 0 /\ 1 .. Len(asks) = {}
    BY DEF Init
  <2>2. \A i : AsksIn(asks, i) = {}
    BY <2>1 DEF AsksIn
  <2>3. MAX_ASKS \in Nat /\ MAX_ASKS_PER_WRITER \in Nat
    BY SeriesConstants
  <2>4. Cardinality({}) = 0
    BY FS_EmptySet
  <2>5. \A i : Cardinality(AsksIn(asks, i)) = 0
    BY <2>2, <2>4
  <2>6. Ordered(asks) /\ NumberedUpTo(asks, seq)
    BY <2>1 DEF Ordered, NumberedUpTo
  <2> QED
    BY <2>1, <2>3, <2>5, <2>6 DEF BookInv
<1> QED
  BY <1>1, <1>2, <1>3 DEF Core

\* What a quote leaves of the book.
LEMMA QuoteBook ==
  ASSUME Core, NEW w \in Writers, NEW dep \in Nat, NEW lots \in Nat, NEW price \in Nat,
         Quote(w, dep, lots, price)
  PROVE  /\ asks' \in Seq(AskType) /\ BookInv'
         /\ \A i : /\ LotsIn(asks', i)
                        <= LotsIn(asks, i) + (IF i = SlotFor(w) THEN lots ELSE 0)
                   /\ LotsIn(asks', i) \in Nat
<1> DEFINE a == NewAsk(w, lots, price)
           sl == SlotFor(w)
<1>1. /\ asks \in Seq(AskType) /\ Len(asks) \in Nat /\ Ordered(asks)
      /\ NumberedUpTo(asks, seq) /\ Len(asks) <= MAX_ASKS /\ seq \in Nat
      /\ \A i \in SlotIds : Cardinality(AsksIn(asks, i)) <= MAX_ASKS_PER_WRITER
      /\ MAX_ASKS \in Nat /\ MAX_ASKS > 0 /\ MAX_ASKS_PER_WRITER \in Nat
      /\ MinLots \in Nat /\ MinLots > 0
  BY TypeFacts, AskFacts, SeriesConstants, Constants DEF Core, BookInv
<1>2. /\ lots >= MinLots /\ asks' = Insert(Room, a) /\ seq' = seq + 1
      /\ Cardinality(AsksOf(sl)) < MAX_ASKS_PER_WRITER
      /\ sl \in SlotIds
  BY QuoteStep, SlotForFacts DEF Core
<1>3. a \in AskType /\ a.seq = seq + 1 /\ a.slot = sl /\ a.remaining = lots
  <2>1. lots \in Nat \ {0} /\ seq + 1 \in Nat
    BY <1>1, <1>2
  <2> QED
    BY <1>2, <2>1 DEF NewAsk, AskType
<1>4. Shrinks(asks, Room) /\ Len(Room) + 1 <= MAX_ASKS /\ Len(Room) \in Nat
  <2>1. CASE Len(asks) = MAX_ASKS
    <3>1. Room = Front(asks) /\ Len(asks) > 0
      BY <1>1, <2>1 DEF Room
    <3>2. Shrinks(asks, Room) /\ Len(Room) = Len(asks) - 1
      BY <1>1, <3>1, EvictionShrinks
    <3> QED
      BY <1>1, <2>1, <3>2
  <2>2. CASE Len(asks) # MAX_ASKS
    <3>1. Room = asks
      BY <2>2 DEF Room
    <3>2. \A i : LotsIn(asks, i) \in Nat /\ Cardinality(AsksIn(asks, i)) \in Nat
      BY <1>1, AskFacts, LotsFacts, FS_CardinalityType
    <3>3. Shrinks(asks, asks)
      BY <1>1, <3>2 DEF Shrinks
    <3> QED
      BY <1>1, <2>2, <3>1, <3>3
  <2> QED
    BY <2>1, <2>2
<1>5. Room \in Seq(AskType) /\ Ordered(Room) /\ NumberedUpTo(Room, seq)
  BY <1>1, <1>4 DEF Shrinks
<1> HIDE DEF a, sl
<1>6. /\ asks' \in Seq(AskType) /\ Len(asks') = Len(Room) + 1
      /\ \A i : LotsIn(asks', i)
                  <= LotsIn(Room, i) + (IF i = sl THEN lots ELSE 0)
      /\ \A i : Cardinality(AsksIn(asks', i))
                  <= Cardinality(AsksIn(Room, i)) + (IF i = sl THEN 1 ELSE 0)
      /\ Ordered(asks') /\ NumberedUpTo(asks', seq + 1)
  <2> DEFINE new == Insert(Room, a)
  <2>1. /\ new \in Seq(AskType) /\ Len(new) = Len(Room) + 1
        /\ \A i : LotsIn(new, i) <= LotsIn(Room, i) + (IF i = a.slot THEN a.remaining ELSE 0)
        /\ \A i : Cardinality(AsksIn(new, i))
                    <= Cardinality(AsksIn(Room, i)) + (IF i = a.slot THEN 1 ELSE 0)
        /\ Ordered(new) /\ NumberedUpTo(new, seq + 1)
    BY <1>1, <1>3, <1>5, InsertFacts
  <2>2. asks' = new
    BY <1>2
  <2> HIDE DEF new
  <2> QED
    BY <1>3, <2>1, <2>2
<1>7. ASSUME NEW i
      PROVE  /\ LotsIn(asks', i) \in Nat /\ LotsIn(Room, i) \in Nat /\ LotsIn(asks, i) \in Nat
             /\ Cardinality(AsksIn(asks', i)) \in Nat /\ Cardinality(AsksIn(Room, i)) \in Nat
             /\ Cardinality(AsksIn(asks, i)) \in Nat
             /\ LotsIn(Room, i) <= LotsIn(asks, i)
             /\ Cardinality(AsksIn(Room, i)) <= Cardinality(AsksIn(asks, i))
  <2>1. asks' \in Asks /\ Room \in Asks /\ asks \in Asks
    BY <1>1, <1>5, <1>6, AsksAreFilledAsks
  <2> QED
    BY <1>4, <2>1, LotsFacts, FS_CardinalityType DEF Shrinks
<1>8. ASSUME NEW i
      PROVE  /\ LotsIn(asks', i) <= LotsIn(asks, i) + (IF i = sl THEN lots ELSE 0)
             /\ i \in SlotIds => Cardinality(AsksIn(asks', i)) <= MAX_ASKS_PER_WRITER
  <2>1. LotsIn(asks', i) <= LotsIn(asks, i) + (IF i = sl THEN lots ELSE 0)
    BY <1>6, <1>7
  <2>2. ASSUME i \in SlotIds
        PROVE  Cardinality(AsksIn(asks', i)) <= MAX_ASKS_PER_WRITER
    <3>1. Cardinality(AsksIn(asks', i))
            <= Cardinality(AsksIn(asks, i)) + (IF i = sl THEN 1 ELSE 0)
      BY <1>6, <1>7
    <3>2. CASE i = sl
      <4>1. Cardinality(AsksIn(asks, i)) < MAX_ASKS_PER_WRITER
        BY <1>2, <3>2, BookNow
      <4> QED
        BY <1>1, <1>7, <3>1, <3>2, <4>1
    <3>3. CASE i # sl
      BY <1>1, <1>7, <2>2, <3>1, <3>3
    <3> QED
      BY <3>2, <3>3
  <2> QED
    BY <2>1, <2>2
<1>9. BookInv'
  <2>1. Len(asks') <= MAX_ASKS
    BY <1>4, <1>6
  <2>2. NumberedUpTo(asks', seq')
    BY <1>2, <1>6
  <2> QED
    BY <1>6, <1>8, <2>1, <2>2 DEF BookInv
<1> QED
  BY <1>6, <1>7, <1>8, <1>9 DEF sl

\* The book and the product when a step leaves them alone.
LEMMA SameBook ==
  ASSUME BookInv, UNCHANGED <<asks, seq>>
  PROVE  BookInv'
BY DEF BookInv

\* An instruction that keeps the product keeps it in range.
LEMMA SameProduct ==
  ASSUME ProductInRange, pool'.p = pool.p
  PROVE  ProductInRange'
BY DEF ProductInRange

\* One slot of the series replaced, and one balance of it.
LEMMA SlotReplaced ==
  ASSUME slots \in [SlotIds -> SlotType], NEW i \in SlotIds, NEW s \in SlotType,
         slots' = [slots EXCEPT ![i] = s]
  PROVE  /\ slots' \in [SlotIds -> SlotType] /\ slots'[i] = s
         /\ \A j \in SlotIds : j # i => slots'[j] = slots[j]
OBVIOUS

BalanceType == [{"collateral", "settlement", "quote", "fee", "treasury"} -> Nat]

\* quote_core keeps Core: an ask enters in order and an eviction drops one.
LEMMA CoreQuote ==
  ASSUME Core, NEW w \in Writers, NEW dep \in Nat, NEW lots \in Nat, NEW price \in Nat,
         Quote(w, dep, lots, price)
  PROVE  Core'
<1>1. /\ SlotsOf(w) # {} \/ Recyclable # {}
      /\ slots' = [slots EXCEPT ![SlotFor(w)] = QuotedSlot(w, dep)]
      /\ seq' = seq + 1
      /\ halt' = Observe(halt, SeenByQuote).halt
      /\ bal' = [bal EXCEPT !.collateral = @ + ArrivedFor(dep)]
      /\ UNCHANGED <<pool, totalSold, totalExercised, live, supply, exercises, world>>
  BY QuoteStep
<1>2. asks' \in Seq(AskType) /\ BookInv'
  BY QuoteBook
<1>3. TypeOK /\ ProductInRange
  BY DEF Core
<1>4. slots' \in [SlotIds -> SlotType]
  <2>1. SlotFor(w) \in SlotIds /\ QuotedSlot(w, dep) \in SlotType
    BY <1>1, <1>3, SlotForFacts, QuotedSlotFacts
  <2> QED
    BY <1>1, <1>3, <2>1, SlotReplaced DEF TypeOK
<1>5. halt' \in HaltType
  <2>1. SeenByQuote \in BOOLEAN
    BY <1>3, TypeFacts DEF SeenByQuote
  <2>2. halt \in HaltType /\ now \in Nat
    BY <1>3, TypeFacts DEF HaltType
  <2> QED
    BY <1>1, <2>1, <2>2, ObserveType
<1>6. bal' \in BalanceType
  <2>1. bal.collateral + ArrivedFor(dep) \in Nat
    <3>1. bal.collateral \in Nat /\ ArrivedFor(dep) \in Nat
      BY <1>3, TypeFacts, CreditFacts
    <3> QED
      BY <3>1
  <2> QED
    BY <1>1, <1>3, <2>1 DEF TypeOK, BalanceType
<1>7. seq' \in Nat
  <2>1. seq \in Nat
    BY <1>3, TypeFacts
  <2> QED
    BY <1>1, <2>1
<1>8. TypeOK'
  BY <1>1, <1>2, <1>3, <1>4, <1>5, <1>6, <1>7 DEF TypeOK, HaltType, BalanceType, world
<1>9. ProductInRange'
  BY <1>1, <1>3, SameProduct
<1> QED
  BY <1>2, <1>8, <1>9 DEF Core

\* cancel_ask keeps it, and rests no more lots for any slot.
LEMMA CoreCancel ==
  ASSUME Core, NEW k \in 1 .. Len(asks), CancelAsk(k)
  PROVE  /\ Core'
         /\ \A i : LotsIn(asks', i) <= LotsIn(asks, i) /\ LotsIn(asks', i) \in Nat
<1>1. /\ asks' = RemoveAt(asks, k)
      /\ UNCHANGED <<pool, slots, seq, totalSold, totalExercised, halt, live, bal,
                     supply, exercises, world>>
  BY DEF CancelAsk
<1>2. TypeOK /\ ProductInRange /\ BookInv /\ asks \in Seq(AskType)
  BY TypeFacts DEF Core
<1>3. Shrinks(asks, asks')
  BY <1>1, <1>2, CancelShrinks
<1>4. TypeOK'
  BY <1>1, <1>2, <1>3 DEF TypeOK, world, Shrinks
<1>5. BookInv'
  <2>1. Len(asks') \in Nat /\ Len(asks) \in Nat /\ MAX_ASKS \in Nat
        /\ MAX_ASKS_PER_WRITER \in Nat
    BY <1>2, <1>3, LenProperties, SeriesConstants DEF Shrinks
  <2>2. Len(asks') <= MAX_ASKS
    BY <1>2, <1>3, <2>1 DEF Shrinks, BookInv
  <2>3. ASSUME NEW i \in SlotIds
        PROVE  Cardinality(AsksIn(asks', i)) <= MAX_ASKS_PER_WRITER
    <3>1. asks \in Asks /\ asks' \in Asks
      BY <1>2, <1>3, AsksAreFilledAsks DEF Shrinks
    <3>2. Cardinality(AsksIn(asks', i)) \in Nat /\ Cardinality(AsksIn(asks, i)) \in Nat
      BY <3>1, LotsFacts, FS_CardinalityType
    <3>3. Cardinality(AsksIn(asks', i)) <= Cardinality(AsksIn(asks, i))
      BY <1>3 DEF Shrinks
    <3>4. Cardinality(AsksIn(asks, i)) <= MAX_ASKS_PER_WRITER
      BY <1>2 DEF BookInv
    <3> QED
      BY <2>1, <3>2, <3>3, <3>4
  <2>4. Ordered(asks') /\ NumberedUpTo(asks', seq')
    BY <1>1, <1>2, <1>3 DEF Shrinks, BookInv
  <2> QED
    BY <2>2, <2>3, <2>4 DEF BookInv
<1>6. ProductInRange'
  BY <1>1, <1>2, SameProduct
<1>7. asks' \in Asks
  BY <1>3, AsksAreFilledAsks DEF Shrinks
<1> QED
  BY <1>3, <1>4, <1>5, <1>6, <1>7, LotsFacts DEF Core, Shrinks

\* withdraw_unsold keeps it: only the withdrawn counter moves.
LEMMA CoreWithdraw ==
  ASSUME Core, NEW i \in SlotIds, NEW lots \in Nat, WithdrawUnsold(i, lots)
  PROVE  /\ Core'
         /\ slots[i].withdrawn + lots \in Nat
         /\ slots' = [slots EXCEPT ![i] = [slots[i] EXCEPT !.withdrawn = slots[i].withdrawn + lots]]
<1> DEFINE d == slots[i].withdrawn + lots
           s == [slots[i] EXCEPT !.withdrawn = d]
<1>1. /\ slots' = [slots EXCEPT ![i] = s]
      /\ bal' = [bal EXCEPT !.collateral = @ - CollateralFloor(lots)]
      /\ CollateralFloor(lots) <= bal.collateral
      /\ UNCHANGED <<pool, asks, seq, totalSold, totalExercised, halt, live,
                     supply, exercises, world>>
  BY DEF WithdrawUnsold
<1>2. TypeOK /\ ProductInRange /\ BookInv
  BY DEF Core
<1>3. slots[i] \in SlotType /\ d \in Nat
  <2>1. slots[i] \in SlotType
    BY <1>2, TypeFacts
  <2>2. slots[i].withdrawn \in Nat
    BY <2>1, SlotFields
  <2> QED
    BY <2>1, <2>2
<1>4. s \in SlotType
  BY <1>3 DEF SlotType
<1>5. slots' \in [SlotIds -> SlotType]
  BY <1>1, <1>2, <1>4, SlotReplaced DEF TypeOK
<1>6. bal' \in BalanceType
  <2>1. bal.collateral - CollateralFloor(lots) \in Nat
    <3>1. bal.collateral \in Nat /\ CollateralFloor(lots) \in Nat
      BY <1>2, TypeFacts, CollateralFacts
    <3> QED
      BY <1>1, <3>1
  <2>2. bal \in BalanceType
    BY <1>2 DEF TypeOK, BalanceType
  <2> QED
    BY <1>1, <2>1, <2>2 DEF BalanceType
<1>7. TypeOK'
  BY <1>1, <1>2, <1>5, <1>6 DEF TypeOK, world, BalanceType
<1> QED
  BY <1>1, <1>2, <1>3, <1>7, SameBook, SameProduct DEF Core

\* claim_premium keeps it: only the premium counter moves.
LEMMA CoreClaim ==
  ASSUME Core, NEW i \in SlotIds, ClaimPremium(i)
  PROVE  /\ Core'
         /\ slots' = [slots EXCEPT ![i] = [slots[i] EXCEPT !.premium = 0]]
<1> DEFINE s == [slots[i] EXCEPT !.premium = 0]
<1>1. /\ slots' = [slots EXCEPT ![i] = s]
      /\ bal' = [bal EXCEPT !.quote = @ - slots[i].premium]
      /\ slots[i].premium <= bal.quote
      /\ UNCHANGED <<pool, asks, seq, totalSold, totalExercised, halt, live,
                     supply, exercises, world>>
  BY DEF ClaimPremium
<1>2. TypeOK /\ ProductInRange /\ BookInv
  BY DEF Core
<1>3. slots[i] \in SlotType /\ slots[i].premium \in Nat
  BY <1>2, TypeFacts, SlotFields
<1>4. s \in SlotType
  BY <1>3 DEF SlotType
<1>5. slots' \in [SlotIds -> SlotType]
  BY <1>1, <1>2, <1>4, SlotReplaced DEF TypeOK
<1>6. bal' \in BalanceType
  <2>1. bal.quote - slots[i].premium \in Nat
    <3>1. bal.quote \in Nat
      BY <1>2, TypeFacts
    <3> QED
      BY <1>1, <1>3, <3>1
  <2>2. bal \in BalanceType
    BY <1>2 DEF TypeOK, BalanceType
  <2> QED
    BY <1>1, <2>1, <2>2 DEF BalanceType
<1>7. TypeOK'
  BY <1>1, <1>2, <1>5, <1>6 DEF TypeOK, world, BalanceType
<1> QED
  BY <1>1, <1>2, <1>7, SameBook, SameProduct DEF Core

\* A purchase: what it leaves of the book, the slots, the balances and the pool.
LEMMA CoreBuy ==
  ASSUME Core, NEW lots \in Nat, NEW limit \in Nat, Buy(lots, limit)
  PROVE  /\ Core'
         /\ \A i : /\ LotsIn(asks', i) + SumOf(i, Taken(lots, limit)) <= LotsIn(asks, i)
                   /\ LotsIn(asks', i) \in Nat /\ LotsIn(asks, i) \in Nat
         /\ pool'.u = pool.u + SumFunction(Taken(lots, limit))
         /\ \A i \in SlotIds : slots'[i] = SoldSlot(i, Taken(lots, limit))
<1> DEFINE take == Taken(lots, limit)
           premium == PremiumsOf(take)
           fee == FeesOf(premium)
           part == SubSeq(Left(take), Cardinality(Emptied(take)) + 1, Len(asks))
<1>1. /\ slots' = [i \in SlotIds |-> SoldSlot(i, take)]
      /\ asks' = part
      /\ totalSold' = totalSold + SumFunction(take)
      /\ pool' = [pool EXCEPT !.u = @ + SumFunction(take)]
      /\ bal' = [bal EXCEPT !.quote = @ + (SumFunction(premium) - SumFunction(fee)),
                            !.fee = @ + SumFunction(fee)]
      /\ supply' = supply + SumFunction(take)
      /\ UNCHANGED <<seq, totalExercised, halt, live, exercises, world>>
  BY DEF Buy, Taken, PremiumsOf, FeesOf, SoldSlot, SumOf, Left, Emptied
<1>2. /\ TypeOK /\ ProductInRange /\ BookInv /\ asks \in Seq(AskType) /\ Ordered(asks)
      /\ NumberedUpTo(asks, seq)
  BY TypeFacts DEF Core, BookInv
<1>3. /\ part \in Seq(AskType) /\ Len(part) <= Len(asks)
      /\ Ordered(part) /\ NumberedUpTo(part, seq)
      /\ \A i : LotsIn(part, i) + SumOf(i, take) <= LotsIn(asks, i)
      /\ \A i : Cardinality(AsksIn(part, i)) <= Cardinality(AsksIn(asks, i))
  BY <1>2, WalkFacts
<1>4. FillsAddUp(take, premium, fee)
  BY <1>2, FillFacts
<1> HIDE DEF part
<1>5. BookInv'
  <2>1. /\ Len(part) \in Nat /\ Len(asks) \in Nat /\ MAX_ASKS \in Nat
        /\ MAX_ASKS_PER_WRITER \in Nat
    BY <1>2, <1>3, LenProperties, SeriesConstants
  <2>2. Len(part) <= MAX_ASKS
    BY <1>2, <1>3, <2>1 DEF BookInv
  <2>3. ASSUME NEW i \in SlotIds
        PROVE  Cardinality(AsksIn(part, i)) <= MAX_ASKS_PER_WRITER
    <3>1. asks \in Asks /\ part \in Asks
      BY <1>2, <1>3, AsksAreFilledAsks
    <3>2. Cardinality(AsksIn(part, i)) \in Nat /\ Cardinality(AsksIn(asks, i)) \in Nat
      BY <3>1, LotsFacts, FS_CardinalityType
    <3>3. Cardinality(AsksIn(asks, i)) <= MAX_ASKS_PER_WRITER
      BY <1>2 DEF BookInv
    <3> QED
      BY <1>3, <2>1, <3>2, <3>3
  <2> QED
    BY <1>1, <1>3, <2>2, <2>3 DEF BookInv
<1>6. ASSUME NEW i \in SlotIds PROVE SoldSlot(i, take) \in SlotType
  BY <1>2, SoldSlotFacts
<1> DEFINE filled == SumFunction(take)
           earned == SumFunction(premium)
           fees == SumFunction(fee)
<1>7. filled \in Nat /\ earned \in Nat /\ fees \in Nat /\ fees <= earned
  BY <1>4 DEF FillsAddUp
<1> HIDE DEF filled, earned, fees
<1>8. /\ pool.u + filled \in Nat /\ bal.quote + (earned - fees) \in Nat
      /\ bal.fee + fees \in Nat /\ totalSold + filled \in Nat /\ supply + filled \in Nat
  <2>1. /\ pool.u \in Nat /\ bal.quote \in Nat /\ bal.fee \in Nat /\ totalSold \in Nat
        /\ supply \in Nat
    BY <1>2, TypeFacts
  <2> QED
    BY <1>7, <2>1
<1>9. pool' \in PoolType /\ pool'.p = pool.p /\ pool'.u = pool.u + filled
  <2>1. pool \in PoolType
    BY <1>2, TypeFacts
  <2> QED
    BY <1>1, <1>8, <2>1 DEF PoolType, filled
<1>10. bal' \in BalanceType
  <2>1. bal' = [bal EXCEPT !.quote = @ + (earned - fees), !.fee = @ + fees]
    BY <1>1 DEF earned, fees
  <2> QED
    BY <1>2, <1>8, <2>1 DEF TypeOK, BalanceType
<1>11. slots' \in [SlotIds -> SlotType]
  <2> HIDE DEF take
  <2> QED
    BY <1>1, <1>6
<1>12. TypeOK'
  <2>1. {seq', totalSold', totalExercised', supply', exercises', now'} \subseteq Nat
    BY <1>1, <1>2, <1>8 DEF TypeOK, world, filled
  <2>2. asks' \in Seq(AskType)
    BY <1>1, <1>3
  <2>3. /\ halt' \in [state : {"open", "halted"}, at : Nat, resumed : Nat]
        /\ {live', trading', mintPaused'} \subseteq BOOLEAN
    BY <1>1, <1>2 DEF TypeOK, world
  <2> QED
    BY <1>9, <1>10, <1>11, <2>1, <2>2, <2>3 DEF TypeOK, BalanceType
<1>13. ASSUME NEW i
       PROVE  /\ LotsIn(asks', i) + SumOf(i, take) <= LotsIn(asks, i)
              /\ LotsIn(asks', i) \in Nat /\ LotsIn(asks, i) \in Nat
  <2>1. asks' \in Asks /\ asks \in Asks
    BY <1>1, <1>2, <1>3, AsksAreFilledAsks
  <2> QED
    BY <1>1, <1>3, <2>1, LotsFacts
<1>14. \A i \in SlotIds : slots'[i] = SoldSlot(i, take)
  BY <1>1
<1>15. ProductInRange'
  BY <1>2, <1>9, SameProduct
<1> QED
  BY <1>5, <1>9, <1>12, <1>13, <1>14, <1>15 DEF Core, filled

\* What exercise_core requires and writes.
LEMMA ExerciseStep ==
  ASSUME NEW q, Exercise(q)
  PROVE  \E paid :
           /\ paid = IF IsCall THEN UsdcOwedCeil(q, Strike) ELSE Delivered(q * RawPerLot)
           /\ live /\ ExerciseOpen /\ q > 0 /\ q <= pool.u /\ q <= supply
           /\ MovesProduct(pool, q)
           /\ CollateralFloor(q) <= bal.collateral
           /\ supply' = supply - q
           /\ bal' = [bal EXCEPT !.settlement = @ + paid,
                                 !.collateral = @ - CollateralFloor(q)]
           /\ pool' = ApplyExercise(pool, q)
           /\ totalExercised' = totalExercised + q
           /\ exercises' = exercises + 1
           /\ UNCHANGED <<slots, asks, seq, totalSold, halt, live, world>>
BY DEF Exercise

\* exercise_core keeps Core and takes its lots from the pool.
LEMMA CoreExercise ==
  ASSUME Core, NEW q \in Nat, Exercise(q)
  PROVE  /\ Core' /\ pool'.u = pool.u - q
         /\ bal'.collateral = bal.collateral - CollateralFloor(q) /\ bal'.quote = bal.quote
<1>1. PICK paid :
        /\ paid = IF IsCall THEN UsdcOwedCeil(q, Strike) ELSE Delivered(q * RawPerLot)
        /\ live /\ ExerciseOpen /\ q > 0 /\ q <= pool.u /\ q <= supply
        /\ MovesProduct(pool, q)
        /\ CollateralFloor(q) <= bal.collateral
        /\ supply' = supply - q
        /\ bal' = [bal EXCEPT !.settlement = @ + paid,
                              !.collateral = @ - CollateralFloor(q)]
        /\ pool' = ApplyExercise(pool, q)
        /\ totalExercised' = totalExercised + q
        /\ exercises' = exercises + 1
        /\ UNCHANGED <<slots, asks, seq, totalSold, halt, live, world>>
  BY ExerciseStep
<1>2. TypeOK /\ ProductInRange /\ BookInv
  BY DEF Core
<1>3. paid \in Nat
  <2>1. UsdcOwedCeil(q, Strike) \in Nat
    BY Constants, PremiumFacts
  <2>2. q * RawPerLot \in Nat
    BY Constants, MulNat
  <2>3. Delivered(q * RawPerLot) \in Nat
    BY <2>2, DeliveredIsNumber
  <2> QED
    BY <1>1, <2>1, <2>3
<1>4. /\ ApplyExercise(pool, q) \in PoolType
      /\ ApplyExercise(pool, q).p \in P_FLOOR .. P_ONE
      /\ ApplyExercise(pool, q).u = pool.u - q
  <2>1. pool \in PoolType /\ pool.p \in P_FLOOR .. P_ONE
    BY <1>2, TypeFacts DEF ProductInRange
  <2> QED
    BY <1>1, <2>1, ApplyExerciseFacts
<1>5. /\ bal.settlement + paid \in Nat /\ bal.collateral - CollateralFloor(q) \in Nat
      /\ supply - q \in Nat /\ totalExercised + q \in Nat /\ exercises + 1 \in Nat
  <2>1. /\ bal.settlement \in Nat /\ bal.collateral \in Nat /\ supply \in Nat
        /\ totalExercised \in Nat /\ exercises \in Nat /\ CollateralFloor(q) \in Nat
    BY <1>2, TypeFacts, CollateralFacts
  <2> QED
    BY <1>1, <1>3, <2>1
<1>6. /\ bal' \in BalanceType /\ bal'.quote = bal.quote
      /\ bal'.collateral = bal.collateral - CollateralFloor(q)
  BY <1>1, <1>2, <1>5 DEF TypeOK, BalanceType
<1>7. TypeOK'
  <2>1. {seq', totalSold', totalExercised', supply', exercises', now'} \subseteq Nat
    BY <1>1, <1>2, <1>5 DEF TypeOK, world
  <2>2. asks' \in Seq(AskType) /\ slots' \in [SlotIds -> SlotType]
    BY <1>1, <1>2 DEF TypeOK
  <2>3. /\ halt' \in [state : {"open", "halted"}, at : Nat, resumed : Nat]
        /\ {live', trading', mintPaused'} \subseteq BOOLEAN
    BY <1>1, <1>2 DEF TypeOK, world
  <2> QED
    BY <1>1, <1>4, <1>6, <2>1, <2>2, <2>3 DEF TypeOK, BalanceType
<1>8. ProductInRange'
  BY <1>1, <1>4 DEF ProductInRange
<1> QED
  BY <1>1, <1>2, <1>4, <1>6, <1>7, <1>8, SameBook DEF Core

\* sell_to_vault keeps it; it burns some lots of the slot, or fails.
LEMMA CoreSell ==
  ASSUME Core, NEW i \in SlotIds, NEW lots \in Nat, SellToVault(i, lots)
  PROVE  /\ Core'
         /\ \E fill \in Nat :
              /\ fill > 0 /\ fill <= supply /\ fill <= FoldedOpen(pool, slots[i])
              /\ live /\ Expiry > now /\ slots[i].writer \in Vaults
              /\ slots' = [slots EXCEPT ![i] = BurnOpen(pool, slots[i], fill)]
              /\ supply' = supply - fill
              /\ pool' = [pool EXCEPT !.u = SatSub(@, fill)]
              /\ pool'.u = SatSub(pool.u, fill)
              /\ totalSold' = SatSub(totalSold, fill)
              /\ UNCHANGED <<asks, seq, totalExercised, halt, live, bal, exercises, world>>
<1> DEFINE fill == LesserOf(lots, FoldedOpen(pool, slots[i]))
           s == BurnOpen(pool, slots[i], fill)
<1>1. /\ live /\ Expiry > now /\ slots[i].writer \in Vaults
      /\ fill > 0 /\ fill <= supply
      /\ supply' = supply - fill
      /\ slots' = [slots EXCEPT ![i] = s]
      /\ pool' = [pool EXCEPT !.u = SatSub(@, fill)]
      /\ totalSold' = SatSub(totalSold, fill)
      /\ UNCHANGED <<asks, seq, totalExercised, halt, live, bal, exercises, world>>
  BY DEF SellToVault
<1>2. TypeOK /\ ProductInRange /\ BookInv
  BY DEF Core
<1>3. slots[i] \in SlotType /\ pool \in PoolType /\ pool.u \in Nat
  BY <1>2, TypeFacts
<1>4. FoldedOpen(pool, slots[i]) \in Nat
  <2>1. FoldedOpen(pool, slots[i]) \in 0 .. slots[i].open /\ slots[i].open \in Nat
    BY <1>3, SlotFold, SlotFields
  <2> QED
    BY <2>1
<1>5. fill \in Nat /\ fill <= FoldedOpen(pool, slots[i])
  BY <1>4 DEF LesserOf
<1> HIDE DEF fill
<1>6. s \in SlotType
  BY <1>3, <1>5, SlotBurnOpen
<1>7. slots' \in [SlotIds -> SlotType]
  <2> HIDE DEF s
  <2> QED
    BY <1>1, <1>2, <1>6, SlotReplaced DEF TypeOK
<1>8. supply - fill \in Nat /\ SatSub(pool.u, fill) \in Nat /\ SatSub(totalSold, fill) \in Nat
  <2>1. supply \in Nat /\ totalSold \in Nat
    BY <1>2, TypeFacts
  <2> QED
    BY <1>1, <1>3, <1>5, <2>1 DEF SatSub
<1>9. pool' \in PoolType /\ pool'.p = pool.p /\ pool'.u = SatSub(pool.u, fill)
  BY <1>1, <1>3, <1>8 DEF PoolType
<1>10. TypeOK'
  <2>1. {seq', totalSold', totalExercised', supply', exercises', now'} \subseteq Nat
    BY <1>1, <1>2, <1>8 DEF TypeOK, world
  <2>2. asks' \in Seq(AskType) /\ bal' \in BalanceType
    BY <1>1, <1>2 DEF TypeOK, BalanceType
  <2>3. /\ halt' \in [state : {"open", "halted"}, at : Nat, resumed : Nat]
        /\ {live', trading', mintPaused'} \subseteq BOOLEAN
    BY <1>1, <1>2 DEF TypeOK, world
  <2> QED
    BY <1>7, <1>9, <2>1, <2>2, <2>3 DEF TypeOK, BalanceType
<1>11. Core'
  BY <1>1, <1>2, <1>9, <1>10, SameBook, SameProduct DEF Core
<1> HIDE DEF s
<1> QED
  BY <1>1, <1>5, <1>9, <1>11 DEF s

\* What a settlement pays is a part of what each vault holds.
LEMMA PaidFacts ==
  ASSUME TypeOK, NEW i \in SlotIds
  PROVE  /\ CollateralPaid(i) \in 0 .. bal.collateral
         /\ SettlementPaid(i) \in 0 .. bal.settlement
<1>1. slots[i] \in SlotType /\ pool \in PoolType
  BY TypeFacts
<1>2. CollateralOwed(i) \in Nat
  <2>1. FoldedOpen(pool, slots[i]) \in Nat
    <3>1. FoldedOpen(pool, slots[i]) \in 0 .. slots[i].open /\ slots[i].open \in Nat
      BY <1>1, SlotFold, SlotFields
    <3> QED
      BY <3>1
  <2>2. SatSub(Deposited(slots[i]), slots[i].sold) \in Nat
    <3>1. slots[i].deposited \in Nat /\ slots[i].withdrawn \in Nat /\ slots[i].sold \in Nat
      BY <1>1, SlotFields
    <3> QED
      BY <3>1 DEF Deposited, SatSub
  <2> DEFINE n == SatSub(Deposited(slots[i]), slots[i].sold) + FoldedOpen(pool, slots[i])
  <2>3. n \in Nat
    BY <2>1, <2>2
  <2>4. CollateralFloor(n) \in Nat
    <3> HIDE DEF n
    <3> QED
      BY <2>3, CollateralFacts
  <2> QED
    BY <2>4 DEF CollateralOwed
<1>3. SettlementOwed(AssignedAt(i)) \in Nat
  <2>1. Fold(pool, slots[i]) \in SlotType
    BY <1>1, SlotFold
  <2>2. AssignedAt(i) \in Nat
    BY <2>1, SlotFields DEF AssignedAt
  <2> QED
    BY <2>2, CollateralFacts
<1>4. bal.collateral \in Nat /\ bal.settlement \in Nat
  BY TypeFacts
<1>5. CollateralPaid(i) \in 0 .. bal.collateral
  BY <1>2, <1>4 DEF CollateralPaid, LesserOf
<1>6. SettlementPaid(i) \in 0 .. bal.settlement
  BY <1>3, <1>4 DEF SettlementPaid, LesserOf
<1> QED
  BY <1>5, <1>6

\* The slot a settlement leaves.
SettledSlot(i) ==
  [Fold(pool, slots[i]) EXCEPT !.settled = TRUE, !.withdrawn = slots[i].deposited,
                               !.open = 0, !.premium = 0]

\* What settle_core leaves of a slot.
LEMMA SettledSlotFacts ==
  ASSUME TypeOK, NEW i \in SlotIds
  PROVE  LET s == SettledSlot(i)
         IN  /\ s \in SlotType /\ s.writer = slots[i].writer
             /\ s.deposited = slots[i].deposited /\ s.withdrawn = slots[i].deposited
             /\ s.sold = slots[i].sold /\ s.premium = 0 /\ s.open = 0 /\ s.settled
             /\ s.assigned = Fold(pool, slots[i]).assigned
             /\ s.p = Fold(pool, slots[i]).p /\ s.scale = Fold(pool, slots[i]).scale
             /\ s.epoch = Fold(pool, slots[i]).epoch
<1> DEFINE f == Fold(pool, slots[i])
           d == slots[i].deposited
<1>1. slots[i] \in SlotType /\ pool \in PoolType
  BY TypeFacts
<1>2. f \in SlotType /\ f.writer = slots[i].writer /\ f.deposited = d /\ f.sold = slots[i].sold
  BY <1>1, SlotFold DEF SameOwner
<1>3. d \in Nat
  BY <1>1, SlotFields
<1>4. SettledSlot(i) = [f EXCEPT !.settled = TRUE, !.withdrawn = d, !.open = 0, !.premium = 0]
  BY DEF SettledSlot
<1> HIDE DEF f, d
<1>5. SettledSlot(i) =
        [writer |-> f.writer, deposited |-> f.deposited, withdrawn |-> d,
         sold |-> f.sold, open |-> 0, assigned |-> f.assigned, premium |-> 0,
         p |-> f.p, scale |-> f.scale, epoch |-> f.epoch, settled |-> TRUE]
  BY <1>2, <1>4 DEF SlotType
<1>6. SettledSlot(i) \in SlotType
  BY <1>2, <1>3, <1>5 DEF SlotType
<1> QED
  BY <1>2, <1>5, <1>6 DEF f, d

\* settle_core keeps Core.
LEMMA CoreSettle ==
  ASSUME Core, NEW i \in SlotIds, Settle(i)
  PROVE  /\ Core'
         /\ slots' = [slots EXCEPT ![i] = SettledSlot(i)]
<1>1. /\ slots[i].premium <= bal.quote
      /\ slots' = [slots EXCEPT ![i] = SettledSlot(i)]
      /\ halt' = Observe(halt, mintPaused).halt
      /\ bal' = [bal EXCEPT !.collateral = @ - CollateralPaid(i),
                            !.settlement = @ - SettlementPaid(i),
                            !.quote = @ - slots[i].premium]
      /\ UNCHANGED <<pool, asks, seq, totalSold, totalExercised, live, supply,
                     exercises, world>>
  BY DEF Settle, SettledSlot
<1>2. TypeOK /\ ProductInRange /\ BookInv
  BY DEF Core
<1>3. SettledSlot(i) \in SlotType
  BY <1>2, SettledSlotFacts
<1>4. slots' \in [SlotIds -> SlotType]
  BY <1>1, <1>2, <1>3, SlotReplaced DEF TypeOK
<1>5. halt' \in HaltType
  <2>1. mintPaused \in BOOLEAN /\ halt \in HaltType /\ now \in Nat
    BY <1>2, TypeFacts DEF HaltType
  <2> QED
    BY <1>1, <2>1, ObserveType
<1>6. bal' \in BalanceType
  <2>1. bal.collateral \in Nat /\ bal.settlement \in Nat /\ bal.quote \in Nat
    BY <1>2, TypeFacts
  <2>2. slots[i].premium \in Nat
    BY <1>2, TypeFacts, SlotFields
  <2>3. /\ CollateralPaid(i) \in 0 .. bal.collateral
        /\ SettlementPaid(i) \in 0 .. bal.settlement
    BY <1>2, PaidFacts
  <2>4. /\ bal.collateral - CollateralPaid(i) \in Nat
        /\ bal.settlement - SettlementPaid(i) \in Nat /\ bal.quote - slots[i].premium \in Nat
    BY <1>1, <2>1, <2>2, <2>3
  <2> QED
    BY <1>1, <1>2, <2>4 DEF TypeOK, BalanceType
<1>7. TypeOK'
  <2>1. {seq', totalSold', totalExercised', supply', exercises', now'} \subseteq Nat
    BY <1>1, <1>2 DEF TypeOK, world
  <2>2. asks' \in Seq(AskType) /\ pool' \in PoolType
    BY <1>1, <1>2 DEF TypeOK
  <2>3. {live', trading', mintPaused'} \subseteq BOOLEAN
    BY <1>1, <1>2 DEF TypeOK, world
  <2> QED
    BY <1>4, <1>5, <1>6, <2>1, <2>2, <2>3 DEF TypeOK, BalanceType, HaltType
<1> QED
  BY <1>1, <1>2, <1>7, SameBook, SameProduct DEF Core

\* close_series keeps it.
LEMMA CoreClose ==
  ASSUME Core, CloseSeries
  PROVE  /\ Core' /\ live' = FALSE
         /\ UNCHANGED <<pool, slots, asks, seq, totalSold, totalExercised, halt,
                        supply, exercises, world>>
<1> DEFINE underlying == IF IsCall THEN bal.collateral ELSE bal.settlement
           usdc == IF IsCall THEN bal.settlement ELSE bal.collateral
           x == bal.fee + usdc + bal.quote
           y == bal.treasury + Arrived(underlying)
<1>1. /\ live' = FALSE
      /\ bal' = [collateral |-> 0, settlement |-> 0, quote |-> 0, fee |-> x, treasury |-> y]
      /\ UNCHANGED <<pool, slots, asks, seq, totalSold, totalExercised, halt,
                     supply, exercises, world>>
  BY DEF CloseSeries
<1>2. TypeOK /\ ProductInRange /\ BookInv
  BY DEF Core
<1>3. x \in Nat /\ y \in Nat
  <2>1. /\ bal.collateral \in Nat /\ bal.settlement \in Nat /\ bal.quote \in Nat
        /\ bal.fee \in Nat /\ bal.treasury \in Nat
    BY <1>2, TypeFacts
  <2>2. underlying \in Nat /\ usdc \in Nat
    BY <2>1
  <2>3. Arrived(underlying) \in Nat
    <3> HIDE DEF underlying
    <3> QED
      BY <2>2, ArrivedIsNumber
  <2> HIDE DEF underlying, usdc
  <2> QED
    BY <2>1, <2>2, <2>3
<1>4. bal' \in BalanceType
  <2> HIDE DEF x, y
  <2> QED
    BY <1>1, <1>3 DEF BalanceType
<1>5. TypeOK'
  <2> HIDE DEF x, y
  <2> QED
    BY <1>1, <1>2, <1>4 DEF TypeOK, BalanceType, world
<1> HIDE DEF x, y
<1> QED
  BY <1>1, <1>2, <1>5, SameBook, SameProduct DEF Core

\* observe_halt keeps it.
LEMMA CoreObserve ==
  ASSUME Core, ObserveHalt
  PROVE  Core'
<1>1. /\ halt' = Observe(halt, mintPaused).halt
      /\ UNCHANGED <<pool, slots, asks, seq, totalSold, totalExercised, live, bal,
                     supply, exercises, world>>
  BY DEF ObserveHalt
<1>2. TypeOK /\ ProductInRange /\ BookInv
  BY DEF Core
<1>3. halt' \in HaltType
  <2>1. mintPaused \in BOOLEAN /\ halt \in HaltType /\ now \in Nat
    BY <1>2, TypeFacts DEF HaltType
  <2> QED
    BY <1>1, <2>1, ObserveType
<1>4. TypeOK'
  BY <1>1, <1>2, <1>3 DEF TypeOK, HaltType, world
<1> QED
  BY <1>1, <1>2, <1>4, SameBook, SameProduct DEF Core

\* Burning option tokens keeps it.
LEMMA CoreBurn ==
  ASSUME Core, NEW n \in Nat, BurnPosition(n)
  PROVE  Core'
<1>1. /\ n <= supply /\ supply' = supply - n
      /\ UNCHANGED <<pool, slots, asks, seq, totalSold, totalExercised, halt, live,
                     bal, exercises, world>>
  BY DEF BurnPosition
<1>2. TypeOK /\ ProductInRange /\ BookInv
  BY DEF Core
<1>3. supply' \in Nat
  <2>1. supply \in Nat
    BY <1>2, TypeFacts
  <2> QED
    BY <1>1, <2>1
<1>4. TypeOK'
  BY <1>1, <1>2, <1>3 DEF TypeOK, world
<1> QED
  BY <1>1, <1>2, <1>4, SameBook, SameProduct DEF Core

\* The world's steps leave the series alone; the clock only goes forward.
LEMMA CoreWorld ==
  ASSUME Core, WorldStep \/ UNCHANGED vars
  PROVE  /\ Core' /\ UNCHANGED ledger /\ now' \in Nat /\ now <= now'
<1>1. TypeOK /\ ProductInRange /\ BookInv /\ now \in Nat
  BY TypeFacts DEF Core
<1>2. UNCHANGED ledger
  BY DEF WorldStep, IssuerPauses, IssuerResumes, SetTrading, Tick, vars
<1>3. /\ trading' \in BOOLEAN /\ mintPaused' \in BOOLEAN /\ now' \in Nat /\ now <= now'
  <2>1. trading \in BOOLEAN /\ mintPaused \in BOOLEAN
    BY <1>1, TypeFacts
  <2>2. CASE IssuerPauses
    BY <1>1, <2>1, <2>2 DEF IssuerPauses
  <2>3. CASE IssuerResumes
    <3>1. mintPaused' \in BOOLEAN
      BY <2>3, Zenon DEF IssuerResumes
    <3>2. trading' = trading /\ now' = now
      BY <2>3, Zenon DEF IssuerResumes
    <3> QED
      BY <1>1, <2>1, <3>1, <3>2
  <2>4. CASE SetTrading
    <3>1. trading' \in BOOLEAN
      BY <2>4, Zenon DEF SetTrading
    <3> QED
      BY <1>1, <2>1, <2>4, <3>1 DEF SetTrading
  <2>5. CASE Tick
    BY <1>1, <2>1, <2>5 DEF Tick
  <2>6. CASE UNCHANGED vars
    BY <1>1, <2>1, <2>6 DEF vars, world
  <2> QED
    BY <2>2, <2>3, <2>4, <2>5, <2>6 DEF WorldStep
<1>4. TypeOK'
  BY <1>1, <1>2, <1>3 DEF TypeOK, ledger
<1>5. UNCHANGED <<asks, seq, pool>>
  BY <1>2 DEF ledger
<1> QED
  BY <1>1, <1>2, <1>3, <1>4, <1>5, SameBook, SameProduct DEF Core

\* Amounts that instructions get are natural numbers.
LEMMA Inputs ==
  Deposits \subseteq Nat /\ QuoteLots \subseteq Nat /\ Prices \subseteq Nat
  /\ BuyLots \subseteq Nat /\ MoveLots \subseteq Nat
BY InputsAreUnsigned

\* Every step keeps Core.
LEMMA CoreStep ==
  ASSUME Core, [Next]_vars
  PROVE  Core'
<1>1. ASSUME NEW w \in Writers, NEW dep \in Deposits, NEW lots \in QuoteLots,
             NEW price \in Prices, Quote(w, dep, lots, price)
      PROVE  Core'
  BY <1>1, Inputs, CoreQuote
<1>2. ASSUME NEW k \in 1 .. Len(asks), CancelAsk(k) PROVE Core'
  BY <1>2, CoreCancel
<1>3. ASSUME NEW i \in SlotIds, NEW lots \in MoveLots, WithdrawUnsold(i, lots) PROVE Core'
  BY <1>3, Inputs, CoreWithdraw
<1>4. ASSUME NEW i \in SlotIds, ClaimPremium(i) PROVE Core'
  BY <1>4, CoreClaim
<1>5. ASSUME NEW lots \in BuyLots, NEW limit \in Prices, Buy(lots, limit) PROVE Core'
  BY <1>5, Inputs, CoreBuy
<1>6. ASSUME NEW q \in MoveLots, Exercise(q) PROVE Core'
  BY <1>6, Inputs, CoreExercise
<1>7. ASSUME NEW i \in SlotIds, NEW lots \in MoveLots, SellToVault(i, lots) PROVE Core'
  BY <1>7, Inputs, CoreSell
<1>8. ASSUME NEW n \in MoveLots, BurnPosition(n) PROVE Core'
  BY <1>8, Inputs, CoreBurn
<1>9. ASSUME NEW i \in SlotIds, Settle(i) PROVE Core'
  BY <1>9, CoreSettle
<1>10. CASE CloseSeries
  BY <1>10, CoreClose
<1>11. CASE ObserveHalt
  BY <1>11, CoreObserve
<1>12. CASE WorldStep \/ UNCHANGED vars
  BY <1>12, CoreWorld
<1> QED
  BY <1>1, <1>2, <1>3, <1>4, <1>5, <1>6, <1>7, <1>8, <1>9, <1>10, <1>11, <1>12
  DEF Next, WriterStep, HolderStep, CrankStep

\* Every counter of a series stays a natural number: no vault, slot or ask is
\* ever overdrawn, whatever is written, bought, exercised and settled.
THEOREM TypeCorrect == Spec => []TypeOK
<1>1. Spec => []Core
  BY CoreInit, CoreStep, PTL DEF Spec
<1>2. Core => TypeOK
  BY DEF Core
<1> QED
  BY <1>1, <1>2, PTL

\* The book stays in price-time order and within its two capacities, whatever
\* quotes, evictions, fills and cancellations produced it.
THEOREM BookStaysOrdered == Spec => []BookOrdered
<1>1. Spec => []Core
  BY CoreInit, CoreStep, PTL DEF Spec
<1>2. Core => BookOrdered
  BY BookNow DEF Core, BookInv, BookOrdered, Ordered, Better
<1> QED
  BY <1>1, <1>2, PTL

-----------------------------------------------------------------------------
(* The halt rule.                                                          *)

\* A series that is open again after a pause was seen thawed at least the
\* grace ago, and after the last pause anybody recorded.
HaltFits(h, t) ==
  /\ t > 0 /\ h.at <= t /\ h.resumed <= t
  /\ h.resumed > 0 => h.at <= h.resumed
  /\ h.state = "open" /\ h.at > 0 => h.resumed > 0 /\ h.resumed + HaltGrace <= t

HaltInv == HaltFits(halt, now)

\* A halt record that fits the clock fits a later clock.
LEMMA HaltFitsLater ==
  ASSUME NEW h \in HaltType, NEW s \in Nat, NEW t \in Nat, s <= t, HaltFits(h, s)
  PROVE  HaltFits(h, t)
<1>1. h.at \in Nat /\ h.resumed \in Nat /\ HaltGrace \in Nat
  BY Constants DEF HaltType
<1> QED
  BY <1>1 DEF HaltFits

\* An observation keeps that.
LEMMA ObserveFits ==
  ASSUME NEW h \in HaltType, now \in Nat, HaltFits(h, now), NEW seen \in BOOLEAN
  PROVE  HaltFits(Observe(h, seen).halt, now)
<1>1. /\ h.at \in Nat /\ h.resumed \in Nat /\ HaltGrace \in Nat
      /\ h.state \in {"open", "halted"}
  BY Constants DEF HaltType
<1> DEFINE seenNow == [state |-> "halted", at |-> now, resumed |-> 0]
           thawed == [h EXCEPT !.resumed = now]
           opened == [h EXCEPT !.state = "open"]
<1>2. Observe(h, seen).halt \in {seenNow, h, thawed, opened}
  BY DEF Observe
<1>3. HaltFits(seenNow, now)
  BY <1>1 DEF HaltFits
<1>4. CASE seen
  BY <1>3, <1>4 DEF Observe
<1>5. CASE ~seen /\ (h.state = "open" \/ (h.resumed > 0 /\ ~(now >= h.resumed + HaltGrace)))
  <2>1. Observe(h, seen).halt = h
    BY <1>1, <1>5 DEF Observe
  <2> QED
    BY <2>1
<1>6. CASE ~seen /\ h.state # "open" /\ h.resumed = 0
  <2>1. Observe(h, seen).halt = thawed
    BY <1>6 DEF Observe
  <2>2. thawed.state = h.state /\ thawed.at = h.at /\ thawed.resumed = now
    BY DEF HaltType
  <2> HIDE DEF thawed
  <2> QED
    BY <1>1, <1>6, <2>1, <2>2 DEF HaltFits
<1>7. CASE ~seen /\ h.state # "open" /\ h.resumed > 0 /\ now >= h.resumed + HaltGrace
  <2>1. Observe(h, seen).halt = opened
    BY <1>1, <1>7 DEF Observe
  <2>2. opened.state = "open" /\ opened.at = h.at /\ opened.resumed = h.resumed
    BY DEF HaltType
  <2> HIDE DEF opened
  <2> QED
    BY <1>1, <1>7, <2>1, <2>2 DEF HaltFits
<1> QED
  BY <1>1, <1>4, <1>5, <1>6, <1>7

\* A new series has seen no halt.
LEMMA HaltInvInit == ASSUME Init PROVE HaltInv
BY DEF Init, HaltInv, HaltFits, OpenHalt

\* A step leaves the halt record alone or observes it, and time does not go back.
LEMMA HaltSteps ==
  ASSUME Core, [Next]_vars
  PROVE  /\ now \in Nat /\ now' \in Nat /\ now <= now'
         /\ \/ halt' = halt
            \/ \E seen \in BOOLEAN : halt' = Observe(halt, seen).halt /\ now' = now
<1> DEFINE Moves == \/ halt' = halt /\ now' = now
                    \/ \E seen \in BOOLEAN : halt' = Observe(halt, seen).halt /\ now' = now
<1>1. now \in Nat /\ mintPaused \in BOOLEAN /\ SeenByQuote \in BOOLEAN
  BY TypeFacts DEF Core, SeenByQuote
<1>2. CASE WorldStep \/ UNCHANGED vars
  <2>1. UNCHANGED ledger /\ now' \in Nat /\ now <= now'
    BY <1>2, CoreWorld
  <2> QED
    BY <1>1, <2>1 DEF ledger
<1>3. ASSUME WriterStep PROVE Moves
  <2>1. ASSUME NEW w, NEW dep, NEW lots, NEW price, Quote(w, dep, lots, price) PROVE Moves
    BY <1>1, <2>1, QuoteStep DEF world
  <2>2. ASSUME NEW k, CancelAsk(k) PROVE Moves
    BY <2>2 DEF CancelAsk, world
  <2>3. ASSUME NEW i, NEW lots, WithdrawUnsold(i, lots) PROVE Moves
    BY <2>3 DEF WithdrawUnsold, world
  <2>4. ASSUME NEW i, ClaimPremium(i) PROVE Moves
    BY <2>4 DEF ClaimPremium, world
  <2> HIDE DEF Moves
  <2> QED
    BY <1>3, <2>1, <2>2, <2>3, <2>4 DEF WriterStep
<1>4. ASSUME HolderStep PROVE Moves
  BY <1>4 DEF HolderStep, Buy, Exercise, SellToVault, BurnPosition, world
<1>5. ASSUME CrankStep PROVE Moves
  BY <1>1, <1>5 DEF CrankStep, Settle, CloseSeries, ObserveHalt, world
<1>6. ASSUME Moves PROVE now' \in Nat /\ now <= now'
  BY <1>1, <1>6
<1> QED
  BY <1>1, <1>2, <1>3, <1>4, <1>5, <1>6 DEF Next

\* Every step keeps the halt record in step with the clock.
LEMMA HaltInvStep ==
  ASSUME Core, HaltInv, [Next]_vars
  PROVE  HaltInv'
<1>1. halt \in HaltType /\ now \in Nat
  BY TypeFacts DEF Core, HaltType
<1>2. HaltFits(halt, now)
  BY DEF HaltInv
<1>3. CASE halt' = halt
  <2>1. now' \in Nat /\ now <= now'
    BY HaltSteps
  <2>2. HaltFits(halt, now')
    BY <1>1, <1>2, <2>1, HaltFitsLater
  <2> QED
    BY <1>3, <2>2 DEF HaltInv
<1>4. CASE \E seen \in BOOLEAN : halt' = Observe(halt, seen).halt /\ now' = now
  <2>1. HaltFits(halt', now')
    BY <1>1, <1>2, <1>4, ObserveFits
  <2> QED
    BY <2>1 DEF HaltInv
<1> QED
  BY <1>3, <1>4, HaltSteps

\* Only a settlement settles a slot, and only a quote gives one to a writer.
LEMMA SlotSteps ==
  ASSUME Core, [Next]_vars, NEW i \in SlotIds
  PROVE  \/ slots'[i].writer = slots[i].writer /\ slots'[i].settled = slots[i].settled
         \/ slots'[i].writer = slots[i].writer /\ Settle(i)
         \/ \E w \in Writers, dep \in Nat, lots \in Nat, price \in Nat :
              /\ Quote(w, dep, lots, price) /\ i = SlotFor(w)
              /\ ~slots'[i].settled \/ slots[i].settled
<1> DEFINE Kept == slots'[i].writer = slots[i].writer /\ slots'[i].settled = slots[i].settled
<1>1. TypeOK /\ ProductInRange /\ BookInv /\ asks \in Seq(AskType) /\ Ordered(asks)
      /\ NumberedUpTo(asks, seq) /\ slots \in [SlotIds -> SlotType]
  BY TypeFacts DEF Core, BookInv, TypeOK
<1>2. ASSUME slots' = slots PROVE Kept
  BY <1>2
<1>3. ASSUME NEW j \in SlotIds, NEW s, slots' = [slots EXCEPT ![j] = s],
             s.settled = slots[j].settled, s.writer = slots[j].writer
      PROVE  Kept
  <2>1. CASE j = i
    BY <1>1, <1>3, <2>1
  <2>2. CASE j # i
    BY <1>1, <1>3, <2>2
  <2> QED
    BY <2>1, <2>2
<1>4. ASSUME NEW w \in Writers, NEW dep \in Deposits, NEW lots \in QuoteLots,
             NEW price \in Prices, Quote(w, dep, lots, price)
      PROVE  \/ Kept
             \/ i = SlotFor(w) /\ (~slots'[i].settled \/ slots[i].settled)
  <2>1. dep \in Nat /\ (SlotsOf(w) # {} \/ Recyclable # {})
        /\ slots' = [slots EXCEPT ![SlotFor(w)] = QuotedSlot(w, dep)]
    BY <1>4, Inputs, QuoteStep
  <2> DEFINE j == SlotFor(w)
             s == QuotedSlot(w, dep)
  <2>2. j \in SlotIds /\ s.settled = SlotRecord(w).settled
    BY <1>1, <2>1, SlotForFacts, QuotedSlotFacts
  <2>3. SlotRecord(w) = slots[j] \/ ~SlotRecord(w).settled
    <3>1. ~ClaimedSlot(w).settled
      BY DEF ClaimedSlot, EmptySlot
    <3> QED
      BY <1>1, <2>1, <3>1, SlotForFacts
  <2> HIDE DEF j, s
  <2>4. slots' = [slots EXCEPT ![j] = s]
    BY <2>1 DEF j, s
  <2>5. CASE j = i
    <3>1. slots'[i] = s
      BY <1>1, <2>4, <2>5
    <3> QED
      BY <2>2, <2>3, <2>5, <3>1 DEF j
  <2>6. CASE j # i
    BY <1>1, <2>2, <2>4, <2>6
  <2> QED
    BY <2>5, <2>6
<1>5. ASSUME NEW j \in SlotIds, NEW lots \in MoveLots, WithdrawUnsold(j, lots) PROVE Kept
  <2> DEFINE s == [slots[j] EXCEPT !.withdrawn = slots[j].withdrawn + lots]
  <2>1. slots' = [slots EXCEPT ![j] = s]
    BY <1>5, Inputs, CoreWithdraw
  <2>2. s.settled = slots[j].settled /\ s.writer = slots[j].writer
    BY <1>1, TypeFacts DEF SlotType
  <2> HIDE DEF s
  <2> QED
    BY <1>3, <2>1, <2>2
<1>6. ASSUME NEW j \in SlotIds, ClaimPremium(j) PROVE Kept
  <2> DEFINE s == [slots[j] EXCEPT !.premium = 0]
  <2>1. slots' = [slots EXCEPT ![j] = s]
    BY <1>6, CoreClaim
  <2>2. s.settled = slots[j].settled /\ s.writer = slots[j].writer
    BY <1>1, TypeFacts DEF SlotType
  <2> HIDE DEF s
  <2> QED
    BY <1>3, <2>1, <2>2
<1>7. ASSUME NEW lots \in BuyLots, NEW limit \in Prices, Buy(lots, limit) PROVE Kept
  <2>1. lots \in Nat /\ limit \in Nat
    BY Inputs
  <2>2. slots'[i] = SoldSlot(i, Taken(lots, limit))
    BY <1>7, <2>1, CoreBuy
  <2>3. SameOwner(SoldSlot(i, Taken(lots, limit)), slots[i])
    BY <1>1, <2>1, SoldSlotFacts
  <2> QED
    BY <2>2, <2>3 DEF SameOwner
<1>8. ASSUME NEW j \in SlotIds, NEW lots \in MoveLots, SellToVault(j, lots) PROVE Kept
  <2>1. lots \in Nat
    BY Inputs
  <2>2. PICK fill \in Nat : /\ fill <= FoldedOpen(pool, slots[j])
                            /\ slots' = [slots EXCEPT ![j] = BurnOpen(pool, slots[j], fill)]
    BY <1>8, <2>1, CoreSell
  <2> DEFINE s == BurnOpen(pool, slots[j], fill)
  <2>3. s.settled = slots[j].settled /\ s.writer = slots[j].writer
    <3>1. slots[j] \in SlotType /\ pool \in PoolType
      BY <1>1, TypeFacts
    <3> QED
      BY <2>2, <3>1, SlotBurnOpen DEF SameOwner
  <2> HIDE DEF s
  <2> QED
    BY <1>3, <2>2, <2>3 DEF s
<1>9. ASSUME NEW j \in SlotIds, Settle(j)
      PROVE  Kept \/ (slots'[i].writer = slots[i].writer /\ Settle(i))
  <2>1. slots' = [slots EXCEPT ![j] = SettledSlot(j)]
    BY <1>9, CoreSettle
  <2>2. SettledSlot(j).writer = slots[j].writer
    BY <1>1, SettledSlotFacts
  <2>3. slots'[i].writer = slots[i].writer
    BY <1>1, <2>1, <2>2
  <2>4. CASE j = i
    BY <1>9, <2>3, <2>4
  <2>5. CASE j # i
    BY <1>1, <2>1, <2>5
  <2> QED
    BY <2>4, <2>5
<1>10. CASE CloseSeries \/ ObserveHalt
  BY <1>2, <1>10 DEF CloseSeries, ObserveHalt
<1>11. CASE WorldStep \/ UNCHANGED vars
  BY <1>2, <1>11, CoreWorld DEF ledger
<1>12. ASSUME NEW k \in 1 .. Len(asks), CancelAsk(k) PROVE Kept
  BY <1>2, <1>12 DEF CancelAsk
<1>13. ASSUME NEW q \in MoveLots, Exercise(q) PROVE Kept
  BY <1>2, <1>13 DEF Exercise
<1>14. ASSUME NEW n \in MoveLots, BurnPosition(n) PROVE Kept
  BY <1>2, <1>14 DEF BurnPosition
<1>15. CASE WriterStep
  <2>1. ASSUME NEW w \in Writers, NEW dep \in Deposits, NEW lots \in QuoteLots,
               NEW price \in Prices, Quote(w, dep, lots, price), ~Kept
        PROVE  \E x \in Writers, d \in Nat, l \in Nat, c \in Nat :
                 /\ Quote(x, d, l, c) /\ i = SlotFor(x)
                 /\ ~slots'[i].settled \/ slots[i].settled
    <3>1. dep \in Nat /\ lots \in Nat /\ price \in Nat
      BY Inputs
    <3>2. i = SlotFor(w) /\ (~slots'[i].settled \/ slots[i].settled)
      BY <1>4, <2>1
    <3> HIDE DEF Kept
    <3> QED
      BY <2>1, <3>1, <3>2
  <2> HIDE DEF Kept
  <2>2. Kept \/ \E x \in Writers, d \in Nat, l \in Nat, c \in Nat :
                 /\ Quote(x, d, l, c) /\ i = SlotFor(x)
                 /\ ~slots'[i].settled \/ slots[i].settled
    BY <1>5, <1>6, <1>12, <1>15, <2>1 DEF WriterStep
  <2> QED
    BY <2>2 DEF Kept
<1>16. CASE HolderStep
  BY <1>7, <1>8, <1>13, <1>14, <1>16 DEF HolderStep
<1>17. CASE CrankStep
  BY <1>9, <1>10, <1>17 DEF CrankStep
<1> HIDE DEF Kept
<1> QED
  BY <1>11, <1>15, <1>16, <1>17 DEF Next, Kept

\* No other step settles a slot.
LEMMA OnlySettleSettles ==
  ASSUME Core, [Next]_vars, NEW i \in SlotIds, Settles(i)
  PROVE  Settle(i)
BY SlotSteps DEF Settles

\* No writer settles during an issuer pause, nor before the grace has run from
\* the first observation after it (settle.rs, observe_halt).
THEOREM SettlementHonoursHalts == Spec => HaltHonoured
<1>1. Core /\ HaltInv /\ [Next]_vars => Core' /\ HaltInv'
  BY CoreStep, HaltInvStep
<1>2. Init => Core /\ HaltInv
  BY CoreInit, HaltInvInit
<1>3. ASSUME Core, HaltInv, [Next]_vars, NEW i \in SlotIds, Settles(i)
      PROVE  /\ ~mintPaused
             /\ halt.at > 0 => halt.resumed >= halt.at /\ now >= halt.resumed + HaltGrace
  <2>1. Settle(i)
    BY <1>3, OnlySettleSettles
  <2>2. ~Observe(halt, mintPaused).halted
    BY <2>1 DEF Settle
  <2>3. halt \in HaltType /\ now \in Nat /\ halt.resumed \in Nat /\ halt.at \in Nat
    BY <1>3, TypeFacts DEF Core, HaltType
  <2>4. ~mintPaused
    BY <2>2 DEF Observe
  <2>5. \/ halt.state = "open"
        \/ halt.resumed # 0 /\ now >= halt.resumed + HaltGrace
    BY <2>2, <2>4 DEF Observe
  <2> QED
    BY <1>3, <2>3, <2>4, <2>5, Constants DEF HaltInv, HaltFits
<1>4. Core /\ HaltInv /\ [Next]_vars
        => [ \A i \in SlotIds :
               Settles(i) =>
                 /\ ~mintPaused
                 /\ halt.at > 0
                      => halt.resumed >= halt.at /\ now >= halt.resumed + HaltGrace ]_vars
  BY <1>3
<1> QED
  BY <1>1, <1>2, <1>4, PTL DEF Spec, HaltHonoured

-----------------------------------------------------------------------------
(* The asks and the collateral behind them.                                *)

\* A slot, with the lots of its resident asks, at a time: nobody settles before
\* expiry, a slot nobody has is blank, and until a slot settles what it
\* withdrew, sold and offers is within what it deposited.
SlotFits(s, n, t) ==
  /\ s.settled => Expiry <= t
  /\ IsEmpty(s) => s = EmptySlot
  /\ ~s.settled => s.withdrawn + s.sold + n <= s.deposited

SlotsFit == \A i \in SlotIds : SlotFits(slots[i], LotsIn(asks, i), now)

\* A change of a slot that sells no more than it takes out of the book.
LEMMA SlotFitsKept ==
  ASSUME NEW s \in SlotType, NEW r \in SlotType, NEW m \in Nat, NEW n \in Nat,
         NEW t \in Nat, NEW u \in Nat, t <= u, SlotFits(s, m, t),
         r.writer = s.writer, r.settled = s.settled, r.deposited = s.deposited,
         r.withdrawn + r.sold + n <= s.withdrawn + s.sold + m,
         IsEmpty(r) => r = EmptySlot
  PROVE  SlotFits(r, n, u)
<1>1. /\ s.deposited \in Nat /\ s.withdrawn \in Nat /\ s.sold \in Nat
      /\ r.withdrawn \in Nat /\ r.sold \in Nat /\ Expiry \in Nat
  BY SlotFields, Constants
<1> QED
  BY <1>1 DEF SlotFits

\* The same slot, when time passes and asks leave the book.
LEMMA SlotFitsLess ==
  ASSUME NEW s \in SlotType, NEW m \in Nat, NEW n \in Nat, n <= m,
         NEW t \in Nat, NEW u \in Nat, t <= u, SlotFits(s, m, t)
  PROVE  SlotFits(s, n, u)
<1>1. s.withdrawn \in Nat /\ s.sold \in Nat
  BY SlotFields
<1>2. s.withdrawn + s.sold + n <= s.withdrawn + s.sold + m
  BY <1>1
<1>3. IsEmpty(s) => s = EmptySlot
  BY DEF SlotFits
<1> QED
  BY <1>2, <1>3, SlotFitsKept

\* The book after the step, as the operators on books see it.
LEMMA BookNext ==
  \A i : AsksOf(i)' = AsksIn(asks', i) /\ Resident(i)' = LotsIn(asks', i)
BY Zenon DEF AsksOf, AsksIn, Resident, LotsIn, Remaining, LotsOf

\* What is known of every slot and its asks in a state that fits.
LEMMA FitFacts ==
  ASSUME Core, SlotsFit, NEW i \in SlotIds
  PROVE  /\ slots[i] \in SlotType /\ LotsIn(asks, i) \in Nat /\ now \in Nat
         /\ Resident(i) = LotsIn(asks, i)
         /\ SlotFits(slots[i], LotsIn(asks, i), now)
         /\ slots[i].settled => Expiry <= now
         /\ IsEmpty(slots[i]) => slots[i] = EmptySlot
         /\ ~slots[i].settled =>
              slots[i].withdrawn + slots[i].sold + Resident(i) <= slots[i].deposited
<1>1. slots[i] \in SlotType /\ now \in Nat /\ asks \in Asks
  BY TypeFacts, AskFacts DEF Core
<1>2. LotsIn(asks, i) \in Nat /\ Resident(i) = LotsIn(asks, i)
  BY <1>1, LotsFacts, BookNow
<1> QED
  BY <1>1, <1>2 DEF SlotsFit, SlotFits

\* A slot that a new writer may claim has no ask in the book.
LEMMA RecyclableHasNoAsks ==
  ASSUME Core, SlotsFit, Expiry > now, NEW i \in SlotIds, IsRecyclable(slots[i])
  PROVE  Resident(i) = 0 /\ AsksOf(i) = {}
<1>1. /\ slots[i] \in SlotType /\ Resident(i) \in Nat
      /\ slots[i].settled => Expiry <= now
      /\ IsEmpty(slots[i]) => slots[i] = EmptySlot
      /\ ~slots[i].settled =>
           slots[i].withdrawn + slots[i].sold + Resident(i) <= slots[i].deposited
      /\ now \in Nat
  BY FitFacts
<1>2. ~slots[i].settled
  BY <1>1, Constants
<1>3. slots[i].withdrawn \in Nat /\ slots[i].sold \in Nat /\ slots[i].deposited \in Nat
  BY <1>1, SlotFields
<1>4. slots[i].deposited = slots[i].withdrawn /\ slots[i].sold = 0
  BY <1>1 DEF IsRecyclable, NothingOwed, EmptySlot
<1>5. Resident(i) = 0
  BY <1>1, <1>2, <1>3, <1>4
<1>6. ASSUME NEW k \in AsksOf(i) PROVE FALSE
  <2>1. asks \in Seq(AskType) /\ asks \in Asks /\ k \in AsksIn(asks, i)
    BY TypeFacts, AskFacts, BookNow DEF Core
  <2>2. LotsOf(asks)[k] <= LotsIn(asks, i)
    BY <2>1, LotsFacts, SumNat DEF LotsIn
  <2>3. k \in 1 .. Len(asks)
    BY <2>1 DEF AsksIn
  <2>4. LotsOf(asks)[k] = asks[k].remaining /\ asks[k].remaining \in Nat
        /\ asks[k].remaining > 0
    BY <2>1, <2>3, AskFacts DEF LotsOf
  <2> QED
    BY <1>5, <2>2, <2>4, BookNow
<1> QED
  BY <1>5, <1>6

\* A quote keeps every slot's ledger in order.
LEMMA FitQuote ==
  ASSUME Core, SlotsFit, NEW w \in Writers, NEW dep \in Nat, NEW lots \in Nat,
         NEW price \in Nat, Quote(w, dep, lots, price)
  PROVE  SlotsFit'
<1> DEFINE i == SlotFor(w)
           s == QuotedSlot(w, dep)
           m == LotsIn(asks, i)
           n == LotsIn(asks', i)
<1>1. /\ Expiry > now /\ lots >= MinLots /\ FreeLots(s, i) >= lots
      /\ SlotsOf(w) # {} \/ Recyclable # {}
      /\ slots' = [slots EXCEPT ![i] = s]
      /\ now' = now
  BY QuoteStep DEF world
<1>2. /\ TypeOK /\ i \in SlotIds /\ s \in SlotType /\ s.writer = w
      /\ s.settled = SlotRecord(w).settled
  BY <1>1, SlotForFacts, QuotedSlotFacts DEF Core
<1>3. /\ m \in Nat /\ now \in Nat /\ Resident(i) = m
      /\ slots[i].settled => Expiry <= now
  BY <1>2, FitFacts
<1>4. n <= m + lots /\ n \in Nat
  BY QuoteBook
<1>5. ~s.settled
  <2>1. SlotRecord(w) = slots[i] \/ ~SlotRecord(w).settled
    <3>1. ~ClaimedSlot(w).settled
      BY DEF ClaimedSlot, EmptySlot
    <3> QED
      BY <1>1, <1>2, <3>1, SlotForFacts
  <2>2. ~slots[i].settled
    BY <1>1, <1>3, Constants
  <2> HIDE DEF i, s
  <2> QED
    BY <1>2, <2>1, <2>2
<1> HIDE DEF i, s, m, n
<1>6. s.withdrawn + s.sold + n <= s.deposited
  <2>1. /\ s.withdrawn \in Nat /\ s.sold \in Nat /\ s.deposited \in Nat
        /\ MinLots \in Nat /\ MinLots > 0
    BY <1>2, SlotFields, Constants
  <2>2. SatSub(SatSub(SatSub(s.deposited, s.withdrawn), s.sold), m) >= lots
    BY <1>1, <1>3 DEF FreeLots, Deposited
  <2>3. s.withdrawn + s.sold + m + lots <= s.deposited
    BY <1>1, <1>3, <2>1, <2>2 DEF SatSub
  <2> QED
    BY <1>3, <1>4, <2>1, <2>3
<1>7. SlotFits(s, n, now')
  <2>1. ~IsEmpty(s)
    BY <1>2, Constants DEF IsEmpty
  <2> QED
    BY <1>5, <1>6, <2>1 DEF SlotFits
<1>8. ASSUME NEW j \in SlotIds, j # i
      PROVE  SlotFits(slots'[j], LotsIn(asks', j), now')
  <2>1. LotsIn(asks', j) <= LotsIn(asks, j) /\ LotsIn(asks', j) \in Nat
        /\ LotsIn(asks, j) \in Nat
    <3>1. LotsIn(asks', j) <= LotsIn(asks, j) + (IF j = i THEN lots ELSE 0)
          /\ LotsIn(asks', j) \in Nat
      BY QuoteBook DEF i
    <3>2. LotsIn(asks, j) \in Nat
      BY FitFacts
    <3> QED
      BY <1>8, <3>1, <3>2
  <2>2. slots'[j] = slots[j] /\ slots[j] \in SlotType
    BY <1>1, <1>2, <1>8, TypeFacts
  <2>3. SlotFits(slots[j], LotsIn(asks, j), now)
    BY DEF SlotsFit
  <2> QED
    BY <1>1, <1>3, <2>1, <2>2, <2>3, SlotFitsLess
<1>9. slots'[i] = s
  BY <1>1, <1>2, TypeFacts
<1> QED
  BY <1>7, <1>8, <1>9 DEF SlotsFit, n

\* A step that changes one slot and leaves the book and the clock alone.
LEMMA FitOneSlot ==
  ASSUME Core, SlotsFit, NEW i \in SlotIds, NEW s \in SlotType,
         slots' = [slots EXCEPT ![i] = s], SlotFits(s, LotsIn(asks, i), now),
         UNCHANGED <<asks, now>>
  PROVE  SlotsFit'
<1>1. DOMAIN slots = SlotIds
  BY TypeFacts DEF Core
<1>2. ASSUME NEW j \in SlotIds PROVE SlotFits(slots'[j], LotsIn(asks, j), now)
  <2>1. CASE j = i
    BY <1>1, <2>1
  <2>2. CASE j # i
    BY <1>1, <2>2 DEF SlotsFit
  <2> QED
    BY <2>1, <2>2
<1> QED
  BY <1>2 DEF SlotsFit

\* So does a withdrawal, which takes only what is neither sold nor resting,
LEMMA FitWithdraw ==
  ASSUME Core, SlotsFit, NEW i \in SlotIds, NEW lots \in Nat, WithdrawUnsold(i, lots)
  PROVE  SlotsFit'
<1> DEFINE d == slots[i].withdrawn + lots
           s == [slots[i] EXCEPT !.withdrawn = d]
           n == LotsIn(asks, i)
<1>1. /\ d \in Nat /\ slots' = [slots EXCEPT ![i] = s]
      /\ ~IsEmpty(slots[i]) /\ lots > 0 /\ FreeLots(slots[i], i) >= lots
      /\ UNCHANGED <<asks, now>>
  BY CoreWithdraw DEF WithdrawUnsold, world
<1>2. /\ slots[i] \in SlotType /\ n \in Nat /\ Resident(i) = n
      /\ slots[i].settled => Expiry <= now
  BY FitFacts
<1>3. /\ slots[i].withdrawn \in Nat /\ slots[i].sold \in Nat /\ slots[i].deposited \in Nat
  BY <1>2, SlotFields
<1> HIDE DEF n
<1>4. d + slots[i].sold + n <= slots[i].deposited
  <2>1. SatSub(SatSub(SatSub(slots[i].deposited, slots[i].withdrawn), slots[i].sold), n) >= lots
    BY <1>1, <1>2 DEF FreeLots, Deposited
  <2> QED
    BY <1>1, <1>2, <1>3, <2>1 DEF SatSub
<1> HIDE DEF d
<1>5. /\ s \in SlotType /\ s.withdrawn = d /\ s.sold = slots[i].sold
      /\ s.deposited = slots[i].deposited /\ s.settled = slots[i].settled
      /\ s.writer = slots[i].writer
  BY <1>1, <1>2 DEF SlotType
<1> HIDE DEF s
<1>6. SlotFits(s, n, now)
  BY <1>1, <1>2, <1>4, <1>5 DEF SlotFits, IsEmpty
<1> QED
  BY <1>1, <1>5, <1>6, FitOneSlot DEF n

\* a claim of premium, which touches no lots,
LEMMA FitClaim ==
  ASSUME Core, SlotsFit, NEW i \in SlotIds, ClaimPremium(i)
  PROVE  SlotsFit'
<1> DEFINE s == [slots[i] EXCEPT !.premium = 0]
<1>1. /\ slots' = [slots EXCEPT ![i] = s] /\ slots[i].premium > 0 /\ UNCHANGED <<asks, now>>
  BY CoreClaim DEF ClaimPremium, world
<1>2. /\ slots[i] \in SlotType /\ SlotFits(slots[i], LotsIn(asks, i), now)
      /\ IsEmpty(slots[i]) => slots[i] = EmptySlot
  BY FitFacts
<1>3. /\ s \in SlotType /\ s.withdrawn = slots[i].withdrawn /\ s.sold = slots[i].sold
      /\ s.deposited = slots[i].deposited /\ s.settled = slots[i].settled
      /\ s.writer = slots[i].writer
  BY <1>2 DEF SlotType
<1>4. ~IsEmpty(slots[i])
  BY <1>1, <1>2 DEF EmptySlot
<1> HIDE DEF s
<1>5. SlotFits(s, LotsIn(asks, i), now)
  BY <1>2, <1>3, <1>4 DEF SlotFits, IsEmpty
<1> QED
  BY <1>1, <1>3, <1>5, FitOneSlot

\* a purchase, which sells what rested,
LEMMA FitBuy ==
  ASSUME Core, SlotsFit, NEW lots \in Nat, NEW limit \in Nat, Buy(lots, limit)
  PROVE  SlotsFit'
<1> DEFINE take == Taken(lots, limit)
<1>1. /\ TypeOK /\ Ordered(asks) /\ NumberedUpTo(asks, seq) /\ now' = now
  BY DEF Core, BookInv, Buy, world
<1>2. ASSUME NEW i \in SlotIds
      PROVE  SlotFits(slots'[i], LotsIn(asks', i), now')
  <2> DEFINE m == LotsIn(asks, i)
             n == LotsIn(asks', i)
             x == SumOf(i, take)
             s == SoldSlot(i, take)
  <2>1. /\ slots[i] \in SlotType /\ m \in Nat /\ now \in Nat
        /\ SlotFits(slots[i], m, now)
        /\ IsEmpty(slots[i]) => slots[i] = EmptySlot
        /\ ~slots[i].settled => slots[i].withdrawn + slots[i].sold + m <= slots[i].deposited
    BY FitFacts
  <2>2. n + x <= m /\ n \in Nat /\ slots'[i] = s
    BY CoreBuy
  <2>3. s \in SlotType /\ SameOwner(s, slots[i]) /\ s.sold = slots[i].sold + x
    BY <1>1, SoldSlotFacts
  <2>4. x \in Nat
    <3>1. FillsAddUp(take, PremiumsOf(take), FeesOf(PremiumsOf(take)))
      BY <1>1, FillFacts, TypeFacts
    <3> QED
      BY <3>1 DEF FillsAddUp
  <2>5. slots[i].withdrawn \in Nat /\ slots[i].sold \in Nat /\ slots[i].deposited \in Nat
    BY <2>1, SlotFields
  <2>6. IsEmpty(s) => s = EmptySlot
    <3>1. ASSUME IsEmpty(s) PROVE s = EmptySlot
      <4>1. slots[i] = EmptySlot
        <5> HIDE DEF s, x, m, n, take
        <5>1. s.writer = NoWriter /\ s.writer = slots[i].writer
          BY <2>3, <3>1 DEF IsEmpty, SameOwner
        <5>2. IsEmpty(slots[i])
          BY <5>1 DEF IsEmpty
        <5> QED
          BY <2>1, <5>2
      <4>2. m = 0
        <5>1. /\ ~slots[i].settled /\ slots[i].deposited = 0 /\ slots[i].withdrawn = 0
              /\ slots[i].sold = 0
          BY <4>1 DEF EmptySlot
        <5> HIDE DEF m
        <5> QED
          BY <2>1, <5>1
      <4>3. x = 0
        <5> HIDE DEF m, n, x
        <5> QED
          BY <2>2, <2>4, <4>2
      <4> QED
        BY <4>1, <4>3 DEF SoldSlot
    <3> QED
      BY <3>1
  <2> HIDE DEF m, n, x, s, take
  <2>7. s.withdrawn + s.sold + n <= slots[i].withdrawn + slots[i].sold + m
    BY <2>1, <2>2, <2>3, <2>4, <2>5 DEF SameOwner
  <2>8. s.writer = slots[i].writer /\ s.settled = slots[i].settled
        /\ s.deposited = slots[i].deposited
    BY <2>3 DEF SameOwner
  <2>9. SlotFits(s, n, now)
    <3>1. now <= now /\ SlotFits(slots[i], m, now) /\ m \in Nat /\ n \in Nat
      BY <2>1, <2>2
    <3>2. now \in Nat /\ slots[i] \in SlotType /\ s \in SlotType
      BY <2>1, <2>3
    <3> QED
      BY <2>6, <2>7, <2>8, <3>1, <3>2, SlotFitsKept
  <2> QED
    BY <1>1, <2>2, <2>9 DEF n
<1> QED
  BY <1>2 DEF SlotsFit

\* a sale to a vault, which takes back sold lots,
LEMMA FitSell ==
  ASSUME Core, SlotsFit, NEW i \in SlotIds, NEW lots \in Nat, SellToVault(i, lots)
  PROVE  SlotsFit'
<1>1. PICK fill \in Nat :
        /\ fill <= FoldedOpen(pool, slots[i]) /\ slots[i].writer \in Vaults
        /\ slots' = [slots EXCEPT ![i] = BurnOpen(pool, slots[i], fill)]
        /\ UNCHANGED <<asks, world>>
  BY CoreSell
<1> DEFINE s == BurnOpen(pool, slots[i], fill)
           n == LotsIn(asks, i)
<1>2. /\ slots[i] \in SlotType /\ n \in Nat /\ now \in Nat /\ SlotFits(slots[i], n, now)
      /\ pool \in PoolType
  BY FitFacts, TypeFacts DEF Core
<1>3. s \in SlotType /\ SameOwner(s, slots[i]) /\ s.sold = SatSub(slots[i].sold, fill)
  BY <1>1, <1>2, SlotBurnOpen
<1>4. /\ slots[i].withdrawn \in Nat /\ slots[i].sold \in Nat
  BY <1>2, SlotFields
<1> HIDE DEF s, n
<1>5. s.withdrawn + s.sold + n <= slots[i].withdrawn + slots[i].sold + n
  BY <1>2, <1>3, <1>4 DEF SatSub, SameOwner
<1>6. /\ s.writer = slots[i].writer /\ s.settled = slots[i].settled
      /\ s.deposited = slots[i].deposited
  BY <1>3 DEF SameOwner
<1>7. ~IsEmpty(s)
  BY <1>1, <1>6, Constants DEF IsEmpty
<1>8. SlotFits(s, n, now)
  BY <1>2, <1>3, <1>5, <1>6, <1>7, SlotFitsKept
<1>9. slots' = [slots EXCEPT ![i] = s] /\ UNCHANGED <<asks, now>>
  BY <1>1 DEF s, world
<1> QED
  BY <1>3, <1>8, <1>9, FitOneSlot DEF n

\* a settlement, which returns what is left,
LEMMA FitSettle ==
  ASSUME Core, SlotsFit, NEW i \in SlotIds, Settle(i)
  PROVE  SlotsFit'
<1> DEFINE s == SettledSlot(i)
           o == Observe(halt, mintPaused)
<1>1. /\ ~o.halted /\ now >= EffectiveExpiry(o.halt) /\ ~IsEmpty(slots[i])
      /\ slots' = [slots EXCEPT ![i] = s] /\ UNCHANGED <<asks, now>>
  BY CoreSettle DEF Settle, world
<1>2. Expiry <= now
  <2>1. halt.state \in {"open", "halted"} /\ halt \in HaltType
    BY TypeFacts DEF Core, HaltType
  <2>2. o.halt.state = "open"
    BY <1>1, <2>1 DEF Observe, HaltType
  <2> HIDE DEF o
  <2> QED
    BY <1>1, <2>2 DEF EffectiveExpiry
<1>3. s \in SlotType /\ s.writer = slots[i].writer /\ s.settled
  BY SettledSlotFacts DEF Core
<1>4. SlotFits(s, LotsIn(asks, i), now)
  BY <1>1, <1>2, <1>3 DEF SlotFits, IsEmpty
<1> HIDE DEF s, o
<1> QED
  BY <1>1, <1>3, <1>4, FitOneSlot

\* A step that leaves the slots alone and takes nothing into the book.
LEMMA FitSameSlots ==
  ASSUME Core, SlotsFit, slots' = slots, now' \in Nat, now <= now',
         \A i : LotsIn(asks', i) <= LotsIn(asks, i) /\ LotsIn(asks', i) \in Nat
  PROVE  SlotsFit'
<1>1. ASSUME NEW i \in SlotIds PROVE SlotFits(slots'[i], LotsIn(asks', i), now')
  <2>1. /\ slots[i] \in SlotType /\ LotsIn(asks, i) \in Nat /\ now \in Nat
        /\ SlotFits(slots[i], LotsIn(asks, i), now)
    BY FitFacts
  <2> QED
    BY <2>1, SlotFitsLess
<1> QED
  BY <1>1 DEF SlotsFit

\* and every step that leaves the slots and the book alone.
LEMMA FitSameLedger ==
  ASSUME Core, SlotsFit, UNCHANGED <<slots, asks>>, now' \in Nat, now <= now'
  PROVE  SlotsFit'
<1>1. asks \in Asks
  BY TypeFacts, AskFacts DEF Core
<1>2. \A i : LotsIn(asks, i) \in Nat
  BY <1>1, LotsFacts
<1>3. \A i : LotsIn(asks', i) <= LotsIn(asks, i) /\ LotsIn(asks', i) \in Nat
  BY <1>2
<1> QED
  BY <1>3, FitSameSlots

\* The slots of a new series are in order,
LEMMA FitInit == ASSUME Init PROVE SlotsFit
<1>1. asks = <<>> /\ \A i \in SlotIds : slots[i] = EmptySlot
  BY DEF Init
<1>2. ASSUME NEW i PROVE LotsIn(asks, i) = 0
  <2>1. AsksIn(asks, i) = {}
    BY <1>1 DEF AsksIn
  <2> QED
    BY <2>1, SumOfNone DEF LotsIn
<1>3. ASSUME NEW i \in SlotIds PROVE SlotFits(slots[i], LotsIn(asks, i), now)
  <2>1. LotsIn(asks, i) = 0 /\ slots[i] = EmptySlot
    BY <1>1, <1>2
  <2>2. /\ EmptySlot.settled = FALSE /\ EmptySlot.withdrawn = 0 /\ EmptySlot.sold = 0
        /\ EmptySlot.deposited = 0
    BY DEF EmptySlot
  <2>3. SlotFits(EmptySlot, 0, now)
    BY <2>2 DEF SlotFits
  <2> QED
    BY <2>1, <2>3
<1> QED
  BY <1>3 DEF SlotsFit

\* every step keeps them so,
LEMMA FitStep ==
  ASSUME Core, SlotsFit, [Next]_vars
  PROVE  SlotsFit'
<1>0. now \in Nat
  BY TypeFacts DEF Core
<1>1. ASSUME NEW w \in Writers, NEW dep \in Deposits, NEW lots \in QuoteLots,
             NEW price \in Prices, Quote(w, dep, lots, price)
      PROVE  SlotsFit'
  BY <1>1, Inputs, FitQuote
<1>2. ASSUME NEW k \in 1 .. Len(asks), CancelAsk(k) PROVE SlotsFit'
  <2>1. slots' = slots /\ now' = now
    BY <1>2 DEF CancelAsk, world
  <2>2. \A i : LotsIn(asks', i) <= LotsIn(asks, i) /\ LotsIn(asks', i) \in Nat
    BY <1>2, CoreCancel
  <2> QED
    BY <1>0, <2>1, <2>2, FitSameSlots
<1>3. ASSUME NEW i \in SlotIds, NEW lots \in MoveLots, WithdrawUnsold(i, lots)
      PROVE  SlotsFit'
  BY <1>3, Inputs, FitWithdraw
<1>4. ASSUME NEW i \in SlotIds, ClaimPremium(i) PROVE SlotsFit'
  BY <1>4, FitClaim
<1>5. ASSUME NEW lots \in BuyLots, NEW limit \in Prices, Buy(lots, limit) PROVE SlotsFit'
  BY <1>5, Inputs, FitBuy
<1>6. ASSUME NEW q \in MoveLots, Exercise(q) PROVE SlotsFit'
  BY <1>0, <1>6, FitSameLedger DEF Exercise, world
<1>7. ASSUME NEW i \in SlotIds, NEW lots \in MoveLots, SellToVault(i, lots) PROVE SlotsFit'
  BY <1>7, Inputs, FitSell
<1>8. ASSUME NEW n \in MoveLots, BurnPosition(n) PROVE SlotsFit'
  BY <1>0, <1>8, FitSameLedger DEF BurnPosition, world
<1>9. ASSUME NEW i \in SlotIds, Settle(i) PROVE SlotsFit'
  BY <1>9, FitSettle
<1>10. CASE CloseSeries
  BY <1>0, <1>10, FitSameLedger DEF CloseSeries, world
<1>11. CASE ObserveHalt
  BY <1>0, <1>11, FitSameLedger DEF ObserveHalt, world
<1>12. CASE WorldStep \/ UNCHANGED vars
  BY <1>0, <1>12, CoreWorld, FitSameLedger DEF ledger
<1> QED
  BY <1>1, <1>2, <1>3, <1>4, <1>5, <1>6, <1>7, <1>8, <1>9, <1>10, <1>11, <1>12
  DEF Next, WriterStep, HolderStep, CrankStep

\* and they stay so.
LEMMA FitAlways ==
  /\ Init => Core /\ SlotsFit
  /\ Core /\ SlotsFit /\ [Next]_vars => Core' /\ SlotsFit'
BY CoreInit, CoreStep, FitInit, FitStep

\* A resident ask is always backed by its slot's own free collateral, whatever
\* was withdrawn, sold, bought back or posted from that slot before.
THEOREM AsksStayBacked == Spec => []AsksBacked
<1>1. ASSUME Core, SlotsFit PROVE AsksBacked
  <2> SUFFICES ASSUME NEW i \in SlotIds, ~slots[i].settled
               PROVE  /\ slots[i].withdrawn + slots[i].sold + Resident(i) <= slots[i].deposited
                      /\ IsEmpty(slots[i]) => Resident(i) = 0
    BY DEF AsksBacked
  <2>1. /\ slots[i] \in SlotType /\ Resident(i) \in Nat
        /\ IsEmpty(slots[i]) => slots[i] = EmptySlot
        /\ slots[i].withdrawn + slots[i].sold + Resident(i) <= slots[i].deposited
    BY <1>1, FitFacts
  <2>2. ASSUME IsEmpty(slots[i]) PROVE Resident(i) = 0
    <3>1. slots[i].withdrawn = 0 /\ slots[i].sold = 0 /\ slots[i].deposited = 0
      BY <2>1, <2>2 DEF EmptySlot
    <3> QED
      BY <2>1, <3>1
  <2> QED
    BY <2>1, <2>2
<1>2. Core /\ SlotsFit => AsksBacked
  BY <1>1
<1> QED
  BY <1>2, FitAlways, PTL DEF Spec

\* A slot given to a new writer brings no ask of the old one: asks name slots by
\* index, and the proceeds would go to the wrong writer (book.rs,
\* find_or_claim_slot).
THEOREM AsksKeepTheirWriter == Spec => NoAskChangesHands
<1>1. ASSUME Core, SlotsFit, [Next]_vars, NEW i \in SlotIds,
             slots'[i].writer # slots[i].writer
      PROVE  AsksOf(i) = {}
  <2>1. PICK w \in Writers, dep \in Nat, lots \in Nat, price \in Nat :
          Quote(w, dep, lots, price) /\ i = SlotFor(w)
    BY <1>1, SlotSteps
  <2>2. /\ Expiry > now /\ (SlotsOf(w) # {} \/ Recyclable # {})
        /\ slots' = [slots EXCEPT ![SlotFor(w)] = QuotedSlot(w, dep)]
    BY <2>1, QuoteStep
  <2>3. QuotedSlot(w, dep).writer = w
    BY <1>1, <2>2, QuotedSlotFacts DEF Core
  <2>4. slots'[i].writer = w
    <3>1. DOMAIN slots = SlotIds
      BY <1>1, TypeFacts DEF Core
    <3> QED
      BY <2>1, <2>2, <2>3, <3>1
  <2>5. IsRecyclable(slots[i])
    BY <1>1, <2>1, <2>2, <2>4, SlotForFacts DEF Core
  <2> QED
    BY <1>1, <2>2, <2>5, RecyclableHasNoAsks
<1>2. Core /\ SlotsFit /\ [Next]_vars
        => [ \A i \in SlotIds : slots'[i].writer # slots[i].writer => AsksOf(i) = {} ]_vars
  BY <1>1
<1> QED
  BY <1>2, FitAlways, PTL DEF Spec, NoAskChangesHands

-----------------------------------------------------------------------------
(* The tokens and the vaults.                                              *)

\* A new series has no tokens out.
LEMMA TokensInit == ASSUME Init PROVE TokensBacked
BY DEF Init, TokensBacked, FreshPool

\* Every step takes as many tokens out as lots, and at most that many back.
LEMMA TokensStep ==
  ASSUME Core, TokensBacked, [Next]_vars
  PROVE  TokensBacked'
<1>1. /\ supply \in Nat /\ pool.u \in Nat /\ totalSold \in Nat /\ totalExercised \in Nat
      /\ supply <= pool.u /\ totalSold = totalExercised + pool.u
  BY TypeFacts DEF Core, TokensBacked
<1>2. ASSUME UNCHANGED <<supply, pool, totalSold, totalExercised>> PROVE TokensBacked'
  BY <1>2 DEF TokensBacked
<1>3. ASSUME NEW lots \in Nat, NEW limit \in Nat, Buy(lots, limit) PROVE TokensBacked'
  <2> DEFINE filled == SumFunction(Taken(lots, limit))
  <2>1. /\ supply' = supply + filled /\ totalSold' = totalSold + filled
        /\ totalExercised' = totalExercised
    BY <1>3, BuyStep
  <2>2. pool'.u = pool.u + filled
    BY <1>3, CoreBuy
  <2>3. filled \in Nat
    <3> DEFINE take == Taken(lots, limit)
    <3>1. FillsAddUp(take, PremiumsOf(take), FeesOf(PremiumsOf(take)))
      BY FillFacts, TypeFacts DEF Core, BookInv
    <3> QED
      BY <3>1 DEF FillsAddUp
  <2> HIDE DEF filled
  <2> QED
    BY <1>1, <2>1, <2>2, <2>3 DEF TokensBacked
<1>4. ASSUME NEW q \in Nat, Exercise(q) PROVE TokensBacked'
  <2>1. /\ q <= pool.u /\ q <= supply /\ supply' = supply - q
        /\ totalExercised' = totalExercised + q /\ totalSold' = totalSold
    BY <1>4 DEF Exercise
  <2>2. pool'.u = pool.u - q
    BY <1>4, CoreExercise
  <2> QED
    BY <1>1, <2>1, <2>2 DEF TokensBacked
<1>5. ASSUME NEW i \in SlotIds, NEW lots \in Nat, SellToVault(i, lots) PROVE TokensBacked'
  <2>1. PICK fill \in Nat :
          /\ fill <= supply /\ supply' = supply - fill
          /\ pool'.u = SatSub(pool.u, fill) /\ totalSold' = SatSub(totalSold, fill)
          /\ totalExercised' = totalExercised
    BY <1>5, CoreSell
  <2> QED
    BY <1>1, <2>1 DEF TokensBacked, SatSub
<1>6. ASSUME NEW n \in Nat, BurnPosition(n) PROVE TokensBacked'
  BY <1>1, <1>6 DEF BurnPosition, TokensBacked
<1>7. CASE WriterStep
  <2>1. ASSUME NEW w, NEW dep, NEW lots, NEW price, Quote(w, dep, lots, price)
        PROVE  UNCHANGED <<supply, pool, totalSold, totalExercised>>
    BY <2>1, QuoteStep
  <2>2. ASSUME NEW k, CancelAsk(k)
        PROVE  UNCHANGED <<supply, pool, totalSold, totalExercised>>
    BY <2>2 DEF CancelAsk
  <2>3. ASSUME NEW i, NEW lots, WithdrawUnsold(i, lots)
        PROVE  UNCHANGED <<supply, pool, totalSold, totalExercised>>
    BY <2>3 DEF WithdrawUnsold
  <2>4. ASSUME NEW i, ClaimPremium(i)
        PROVE  UNCHANGED <<supply, pool, totalSold, totalExercised>>
    BY <2>4 DEF ClaimPremium
  <2>5. UNCHANGED <<supply, pool, totalSold, totalExercised>>
    BY <1>7, <2>1, <2>2, <2>3, <2>4 DEF WriterStep
  <2> QED
    BY <1>2, <2>5
<1>8. CASE HolderStep
  BY <1>3, <1>4, <1>5, <1>6, <1>8, Inputs DEF HolderStep
<1>9. CASE CrankStep
  BY <1>2, <1>9 DEF CrankStep, Settle, CloseSeries, ObserveHalt
<1>10. CASE WorldStep \/ UNCHANGED vars
  BY <1>2, <1>10, CoreWorld DEF ledger
<1> QED
  BY <1>7, <1>8, <1>9, <1>10 DEF Next

\* A position token in somebody's wallet can always be exercised against the
\* pool: the pool never forgets a contract before its token is gone.
THEOREM TokensStayBacked == Spec => []TokensBacked
<1>1. Init => Core /\ TokensBacked
  BY CoreInit, TokensInit
<1>2. Core /\ TokensBacked /\ [Next]_vars => Core' /\ TokensBacked'
  BY CoreStep, TokensStep
<1> QED
  BY <1>1, <1>2, PTL DEF Spec

\* Sums over the slots.
SlotTerms(f) == DOMAIN f = SlotIds /\ \A i \in SlotIds : f[i] \in Nat

\* A series has finitely many slots.
LEMMA SlotsAreFinite == IsFiniteSet(SlotIds)
<1>1. 1 \in Int /\ MAX_WRITERS \in Int
  BY Constants
<1> QED
  BY <1>1, FS_Interval DEF SlotIds

\* A sum over the slots is a number.
LEMMA SlotSum ==
  ASSUME NEW f, SlotTerms(f)
  PROVE  /\ SumFunction(f) = SumFunctionOnSet(f, SlotIds) /\ SumFunction(f) \in Nat
         /\ NatTerms(f, SlotIds) /\ IntTerms(f, SlotIds)
<1>1. NatTerms(f, SlotIds)
  BY DEF SlotTerms, NatTerms
<1>2. SumFunction(f) = SumFunctionOnSet(f, SlotIds)
  BY DEF SumFunction, SlotTerms
<1>3. SumFunctionOnSet(f, SlotIds) \in Nat
  BY <1>1, SlotsAreFinite, SumNat
<1> QED
  BY <1>1, <1>2, <1>3, NatTermsAreInts

\* A step that changes one slot changes the sum by what it changes there;
LEMMA SlotSumChanged ==
  ASSUME NEW f, NEW g, SlotTerms(f), SlotTerms(g), NEW i \in SlotIds,
         \A j \in SlotIds \ {i} : g[j] = f[j]
  PROVE  /\ SumFunction(g) = SumFunction(f) - f[i] + g[i]
         /\ f[i] \in Nat /\ g[i] \in Nat /\ f[i] <= SumFunction(f)
<1>1. SumFunctionOnSet(g, SlotIds) = SumFunctionOnSet(f, SlotIds) - f[i] + g[i]
  BY SlotSum, SlotsAreFinite, SumUpdate
<1>2. f[i] <= SumFunctionOnSet(f, SlotIds)
  BY SlotSum, SlotsAreFinite, SumNat
<1> QED
  BY <1>1, <1>2, SlotSum DEF SlotTerms

\* one that changes none leaves the sum.
LEMMA SlotSumSame ==
  ASSUME NEW f, NEW g, SlotTerms(f), SlotTerms(g), \A j \in SlotIds : g[j] = f[j]
  PROVE  SumFunction(g) = SumFunction(f)
BY SlotSum, SlotsAreFinite, SumAgree

UnsoldOf(s) == SatSub(Deposited(s), s.sold)

\* What a slot has left to sell is never negative.
LEMMA UnsoldNat == ASSUME NEW s \in SlotType PROVE UnsoldOf(s) \in Nat
<1>1. s.deposited \in Nat /\ s.withdrawn \in Nat /\ s.sold \in Nat
  BY SlotFields
<1> QED
  BY <1>1 DEF UnsoldOf, Deposited, SatSub

\* The premiums and the unsold lots of the slots are numbers,
LEMMA SlotTermsNow ==
  ASSUME Core
  PROVE  /\ SlotTerms(Premiums) /\ SlotTerms(Unsold)
         /\ \A i \in SlotIds : Premiums[i] = slots[i].premium
                               /\ Unsold[i] = UnsoldOf(slots[i])
         /\ SumFunction(Premiums) \in Nat /\ SumFunction(Unsold) \in Nat
<1>1. ASSUME NEW i \in SlotIds
      PROVE  /\ Premiums[i] = slots[i].premium /\ Unsold[i] = UnsoldOf(slots[i])
             /\ Premiums[i] \in Nat /\ Unsold[i] \in Nat
  <2>1. slots[i] \in SlotType
    BY TypeFacts DEF Core
  <2>2. Premiums[i] = slots[i].premium /\ Unsold[i] = UnsoldOf(slots[i])
    BY DEF Premiums, Unsold, UnsoldOf
  <2> QED
    BY <2>1, <2>2, SlotFields, UnsoldNat
<1>2. DOMAIN Premiums = SlotIds /\ DOMAIN Unsold = SlotIds
  BY DEF Premiums, Unsold
<1>3. SlotTerms(Premiums) /\ SlotTerms(Unsold)
  BY <1>1, <1>2 DEF SlotTerms
<1> QED
  BY <1>1, <1>3, SlotSum

\* and they are after a step.
LEMMA SlotTermsNext ==
  ASSUME Core'
  PROVE  /\ SlotTerms(Premiums') /\ SlotTerms(Unsold')
         /\ \A i \in SlotIds : Premiums'[i] = slots'[i].premium
                               /\ Unsold'[i] = UnsoldOf(slots'[i])
         /\ SumFunction(Premiums') \in Nat /\ SumFunction(Unsold') \in Nat
<1>1. ASSUME NEW i \in SlotIds
      PROVE  /\ Premiums'[i] = slots'[i].premium /\ Unsold'[i] = UnsoldOf(slots'[i])
             /\ Premiums'[i] \in Nat /\ Unsold'[i] \in Nat
  <2>1. slots'[i] \in SlotType
    BY DEF Core, TypeOK
  <2>2. Premiums'[i] = slots'[i].premium /\ Unsold'[i] = UnsoldOf(slots'[i])
    BY DEF Premiums, Unsold, UnsoldOf
  <2> QED
    BY <2>1, <2>2, SlotFields, UnsoldNat
<1>2. DOMAIN Premiums' = SlotIds /\ DOMAIN Unsold' = SlotIds
  BY DEF Premiums, Unsold
<1>3. SlotTerms(Premiums') /\ SlotTerms(Unsold')
  BY <1>1, <1>2 DEF SlotTerms
<1> QED
  BY <1>1, <1>3, SlotSum

\* Collateral that covers more lots covers fewer.
LEMMA FloorMonotone ==
  ASSUME NEW m \in Nat, NEW n \in Nat, m <= n
  PROVE  CollateralFloor(m) <= CollateralFloor(n) /\ CollateralFloor(m) \in Nat
         /\ CollateralFloor(n) \in Nat
<1> DEFINE d == n - m
<1>1. d \in Nat /\ m + d = n
  OBVIOUS
<1> HIDE DEF d
<1>2. /\ CollateralFloor(m) \in Nat /\ CollateralFloor(d) \in Nat
      /\ CollateralFloor(n) \in Nat
      /\ CollateralFloor(m) + CollateralFloor(d) <= CollateralFloor(m + d)
  BY <1>1, CollateralFacts
<1> QED
  BY <1>1, <1>2

\* No slot of a series that still trades has settled.
LEMMA NoneSettledYet ==
  ASSUME Core, SlotsFit, Expiry > now
  PROVE  ~SomeSettled
<1>1. ASSUME NEW i \in SlotIds, slots[i].settled PROVE FALSE
  BY <1>1, FitFacts, Constants
<1> QED
  BY <1>1 DEF SomeSettled

Covered == Core /\ SlotsFit /\ TokensBacked /\ VaultsCover

\* What the two promises say while the series is live.
LEMMA CoverFacts ==
  ASSUME Covered
  PROVE  /\ bal.collateral \in Nat /\ bal.quote \in Nat /\ pool.u \in Nat /\ now \in Nat
         /\ SumFunction(Unsold) \in Nat /\ SumFunction(Premiums) \in Nat
         /\ live /\ ~SomeSettled =>
              bal.collateral >= CollateralFloor(SumFunction(Unsold) + pool.u)
         /\ live => bal.quote = SumFunction(Premiums)
         /\ supply <= pool.u
<1>1. Core /\ VaultsCover /\ TokensBacked
  BY DEF Covered
<1>2. SumFunction(Unsold) \in Nat /\ SumFunction(Premiums) \in Nat
  BY <1>1, SlotTermsNow
<1> QED
  BY <1>1, <1>2, TypeFacts DEF Core, VaultsCover, Solvent, QuoteVaultExact, TokensBacked

\* A step that changes one slot, and not what it can claim of the premiums.
LEMMA OneSlotSums ==
  ASSUME Core, Core', NEW i \in SlotIds, NEW s \in SlotType,
         slots' = [slots EXCEPT ![i] = s]
  PROVE  /\ SumFunction(Unsold') = SumFunction(Unsold) - UnsoldOf(slots[i]) + UnsoldOf(s)
         /\ SumFunction(Premiums') = SumFunction(Premiums) - slots[i].premium + s.premium
         /\ UnsoldOf(slots[i]) <= SumFunction(Unsold) /\ UnsoldOf(slots[i]) \in Nat
         /\ UnsoldOf(s) \in Nat
         /\ slots[i].premium <= SumFunction(Premiums) /\ slots[i].premium \in Nat
         /\ s.premium \in Nat
<1>1. DOMAIN slots = SlotIds /\ slots[i] \in SlotType
  BY TypeFacts DEF Core
<1>2. slots'[i] = s /\ \A j \in SlotIds \ {i} : slots'[j] = slots[j]
  BY <1>1
<1>3. /\ SlotTerms(Unsold) /\ SlotTerms(Unsold')
      /\ SlotTerms(Premiums) /\ SlotTerms(Premiums')
      /\ Unsold[i] = UnsoldOf(slots[i]) /\ Unsold'[i] = UnsoldOf(s)
      /\ Premiums[i] = slots[i].premium /\ Premiums'[i] = s.premium
  BY <1>2, SlotTermsNow, SlotTermsNext
<1>4. \A j \in SlotIds \ {i} : Unsold'[j] = Unsold[j] /\ Premiums'[j] = Premiums[j]
  BY <1>2, SlotTermsNow, SlotTermsNext
<1> DEFINE a == Unsold
           b == Unsold'
           c == Premiums
           d == Premiums'
<1>5. /\ SlotTerms(a) /\ SlotTerms(b) /\ SlotTerms(c) /\ SlotTerms(d)
      /\ \A j \in SlotIds \ {i} : b[j] = a[j]
      /\ \A j \in SlotIds \ {i} : d[j] = c[j]
  BY <1>3, <1>4
<1> HIDE DEF a, b, c, d
<1>6. /\ SumFunction(b) = SumFunction(a) - a[i] + b[i]
      /\ a[i] \in Nat /\ b[i] \in Nat /\ a[i] <= SumFunction(a)
  BY <1>5, SlotSumChanged
<1>7. /\ SumFunction(d) = SumFunction(c) - c[i] + d[i]
      /\ c[i] \in Nat /\ d[i] \in Nat /\ c[i] <= SumFunction(c)
  BY <1>5, SlotSumChanged
<1> QED
  BY <1>3, <1>6, <1>7 DEF a, b, c, d

\* Slots left alone owe the same.
LEMMA SameSlotSums ==
  ASSUME Core, Core', slots' = slots
  PROVE  /\ SumFunction(Unsold') = SumFunction(Unsold)
         /\ SumFunction(Premiums') = SumFunction(Premiums)
BY DEF Unsold, Premiums

\* What is left to show of a step: the collateral for what is unsold or
\* unassigned, and the quote vault for the premiums.
LEMMA CoverFrom ==
  ASSUME live' /\ ~SomeSettled' =>
           bal'.collateral >= CollateralFloor(SumFunction(Unsold') + pool'.u),
         live' => bal'.quote = SumFunction(Premiums')
  PROVE  VaultsCover'
BY DEF VaultsCover, Solvent, QuoteVaultExact

\* A step that keeps the slots, the pool, the vaults and the account.
LEMMA CoverSame ==
  ASSUME Covered, Core', UNCHANGED <<slots, pool, bal, live>>
  PROVE  VaultsCover'
<1>1. SomeSettled' <=> SomeSettled
  BY DEF SomeSettled
<1> QED
  BY <1>1, CoverFacts, SameSlotSums, CoverFrom DEF Covered

\* What a quote does to the slot's unsold collateral and its premiums.
LEMMA QuotedSums ==
  ASSUME Core, SlotsFit, NEW w \in Writers, SlotsOf(w) # {} \/ Recyclable # {},
         NEW dep \in Nat
  PROVE  /\ UnsoldOf(QuotedSlot(w, dep)) <= UnsoldOf(slots[SlotFor(w)]) + CreditedFor(dep)
         /\ QuotedSlot(w, dep).premium = slots[SlotFor(w)].premium
<1> DEFINE i == SlotFor(w)
           s == QuotedSlot(w, dep)
           r == SlotRecord(w)
           c == CreditedFor(dep)
<1>1. i \in SlotIds /\ slots[i] \in SlotType /\ r \in SlotType /\ c \in Nat
      /\ (IsEmpty(slots[i]) => slots[i] = EmptySlot)
  BY SlotForFacts, CreditFacts, FitFacts DEF Core
<1>2. /\ s.deposited = r.deposited + c /\ s.withdrawn = r.withdrawn /\ s.sold = r.sold
      /\ s.premium = r.premium
  BY QuotedSlotFacts DEF Core
<1>3. \/ r = slots[i]
      \/ r = ClaimedSlot(w) /\ IsRecyclable(slots[i])
  BY SlotForFacts DEF Core
<1>4. CASE r = slots[i]
  <2> HIDE DEF i, s, r, c
  <2>1. r.deposited \in Nat /\ r.withdrawn \in Nat /\ r.sold \in Nat
    BY <1>1, SlotFields
  <2>2. UnsoldOf(s) <= UnsoldOf(r) + c
    BY <1>1, <1>2, <2>1 DEF UnsoldOf, Deposited, SatSub
  <2>3. UnsoldOf(s) <= UnsoldOf(slots[i]) + c /\ s.premium = slots[i].premium
    BY <1>2, <1>4, <2>2
  <2> QED
    BY <2>3 DEF i, s, c
<1>5. CASE r = ClaimedSlot(w) /\ IsRecyclable(slots[i])
  <2>1. r.deposited = 0 /\ r.withdrawn = 0 /\ r.sold = 0 /\ r.premium = 0
    BY <1>5 DEF ClaimedSlot, EmptySlot
  <2>2. slots[i].premium = 0
    BY <1>1, <1>5 DEF IsRecyclable, NothingOwed, EmptySlot
  <2>3. UnsoldOf(slots[i]) \in Nat
    BY <1>1, UnsoldNat
  <2> HIDE DEF i, s, r, c
  <2>4. UnsoldOf(s) <= c
    BY <1>1, <1>2, <2>1 DEF UnsoldOf, Deposited, SatSub
  <2>5. UnsoldOf(s) \in Nat
    BY <1>1, <1>2, <2>1 DEF UnsoldOf, Deposited, SatSub
  <2>6. UnsoldOf(s) <= UnsoldOf(slots[i]) + c /\ s.premium = slots[i].premium
    BY <1>1, <1>2, <2>1, <2>2, <2>3, <2>4, <2>5
  <2> QED
    BY <2>6 DEF i, s, c
<1> QED
  BY <1>3, <1>4, <1>5

\* A quote brings the collateral of the lots it adds.
LEMMA CoverQuote ==
  ASSUME Covered, Core', NEW w \in Writers, NEW dep \in Nat, NEW lots \in Nat,
         NEW price \in Nat, Quote(w, dep, lots, price)
  PROVE  VaultsCover'
<1> DEFINE i == SlotFor(w)
           s == QuotedSlot(w, dep)
           c == CreditedFor(dep)
           z == ArrivedFor(dep)
           m == SumFunction(Unsold)
           n == SumFunction(Unsold')
<1>1. /\ live /\ Expiry > now /\ (SlotsOf(w) # {} \/ Recyclable # {})
      /\ slots' = [slots EXCEPT ![i] = s]
      /\ bal' = [bal EXCEPT !.collateral = @ + z]
      /\ UNCHANGED <<pool, live>>
  BY QuoteStep
<1>2. Core /\ SlotsFit
  BY DEF Covered
<1>3. i \in SlotIds /\ s \in SlotType
  BY <1>1, <1>2, SlotForFacts, QuotedSlotFacts DEF Core
<1>4. ~SomeSettled
  BY <1>1, <1>2, NoneSettledYet
<1>5. /\ bal.collateral \in Nat /\ pool.u \in Nat /\ m \in Nat /\ SumFunction(Premiums) \in Nat
      /\ bal.collateral >= CollateralFloor(m + pool.u)
      /\ bal.quote = SumFunction(Premiums)
  BY <1>1, <1>4, CoverFacts
<1>6. UnsoldOf(s) <= UnsoldOf(slots[i]) + c /\ s.premium = slots[i].premium
  BY <1>1, <1>2, QuotedSums
<1>7. c \in Nat /\ z \in Nat
  BY CreditFacts
<1>8. /\ n = m - UnsoldOf(slots[i]) + UnsoldOf(s)
      /\ SumFunction(Premiums') = SumFunction(Premiums) - slots[i].premium + s.premium
      /\ UnsoldOf(slots[i]) \in Nat /\ UnsoldOf(s) \in Nat /\ slots[i].premium \in Nat
      /\ UnsoldOf(slots[i]) <= m
  BY <1>1, <1>2, <1>3, OneSlotSums
<1>9. bal'.collateral = bal.collateral + z /\ bal'.quote = bal.quote
  BY <1>1, <1>2, TypeFacts DEF Core
<1>10. /\ CollateralFloor(m + pool.u + c) <= CollateralFloor(m + pool.u) + z
       /\ CollateralFloor(m + pool.u) \in Nat
  <2> HIDE DEF c, z, m
  <2>1. m + pool.u \in Nat
    BY <1>5
  <2> QED
    BY <2>1, CreditFacts, CollateralFacts DEF c, z
<1> HIDE DEF i, s, c, z, m, n
<1>11. n + pool.u \in Nat /\ m + pool.u + c \in Nat /\ n + pool.u <= m + pool.u + c
  BY <1>5, <1>6, <1>7, <1>8
<1>12. /\ CollateralFloor(n + pool.u) <= CollateralFloor(m + pool.u + c)
       /\ CollateralFloor(n + pool.u) \in Nat /\ CollateralFloor(m + pool.u + c) \in Nat
  BY <1>11, FloorMonotone
<1>13. bal'.collateral >= CollateralFloor(n + pool.u)
  BY <1>5, <1>7, <1>9, <1>10, <1>12
<1>14. bal'.quote = SumFunction(Premiums')
  BY <1>5, <1>6, <1>8, <1>9
<1> QED
  BY <1>1, <1>13, <1>14, CoverFrom DEF n

\* A withdrawal takes no more collateral than its lots needed.
LEMMA CoverWithdraw ==
  ASSUME Covered, Core', NEW i \in SlotIds, NEW lots \in Nat, WithdrawUnsold(i, lots)
  PROVE  VaultsCover'
<1> DEFINE d == slots[i].withdrawn + lots
           s == [slots[i] EXCEPT !.withdrawn = d]
           m == SumFunction(Unsold)
           n == SumFunction(Unsold')
           x == CollateralFloor(lots)
<1>1. Core /\ SlotsFit
  BY DEF Covered
<1>2. /\ live /\ d \in Nat /\ slots' = [slots EXCEPT ![i] = s]
      /\ FreeLots(slots[i], i) >= lots
      /\ bal' = [bal EXCEPT !.collateral = @ - x]
      /\ UNCHANGED <<pool, live>>
  BY <1>1, CoreWithdraw DEF WithdrawUnsold
<1>3. slots[i] \in SlotType /\ Resident(i) \in Nat
  BY <1>1, FitFacts
<1>4. slots[i].deposited \in Nat /\ slots[i].withdrawn \in Nat /\ slots[i].sold \in Nat
  BY <1>3, SlotFields
<1>5. /\ s \in SlotType /\ s.deposited = slots[i].deposited /\ s.withdrawn = d
      /\ s.sold = slots[i].sold /\ s.premium = slots[i].premium
      /\ s.settled = slots[i].settled
  BY <1>2, <1>3 DEF SlotType
<1>6. UnsoldOf(s) = UnsoldOf(slots[i]) - lots \/ lots = 0
  <2> HIDE DEF s
  <2> DEFINE y == Resident(i)
  <2>1. SatSub(UnsoldOf(slots[i]), y) >= lots /\ y \in Nat
    BY <1>2, <1>3 DEF FreeLots, UnsoldOf
  <2> HIDE DEF y
  <2> QED
    BY <1>4, <1>5, <2>1 DEF UnsoldOf, Deposited, SatSub
<1>7. /\ n = m - UnsoldOf(slots[i]) + UnsoldOf(s)
      /\ SumFunction(Premiums') = SumFunction(Premiums) - slots[i].premium + s.premium
      /\ UnsoldOf(slots[i]) \in Nat /\ UnsoldOf(s) \in Nat /\ slots[i].premium \in Nat
      /\ UnsoldOf(slots[i]) <= m
  <2> HIDE DEF s
  <2> QED
    BY <1>1, <1>2, <1>5, OneSlotSums
<1>8. lots > 0
  BY DEF WithdrawUnsold
<1>9. bal'.collateral = bal.collateral - x /\ bal'.quote = bal.quote
  BY <1>1, <1>2, TypeFacts DEF Core
<1>10. /\ bal.collateral \in Nat /\ pool.u \in Nat /\ m \in Nat
       /\ SumFunction(Premiums) \in Nat
       /\ ~SomeSettled => bal.collateral >= CollateralFloor(m + pool.u)
       /\ bal.quote = SumFunction(Premiums)
  BY <1>2, CoverFacts
<1>11. SomeSettled => SomeSettled'
  <2>1. ASSUME NEW j \in SlotIds, slots[j].settled PROVE slots'[j].settled
    <3>1. DOMAIN slots = SlotIds
      BY <1>1, TypeFacts DEF Core
    <3> HIDE DEF s
    <3> QED
      BY <1>2, <1>5, <2>1, <3>1
  <2> QED
    BY <2>1 DEF SomeSettled
<1> HIDE DEF s, m, n, d, x
<1>12. n + lots = m /\ n \in Nat /\ n + pool.u \in Nat
  BY <1>6, <1>7, <1>8, <1>10
<1>13. CollateralFloor(n + pool.u) + CollateralFloor(lots) <= CollateralFloor(m + pool.u)
       /\ x \in Nat /\ CollateralFloor(n + pool.u) \in Nat /\ x = CollateralFloor(lots)
  <2>1. n + pool.u + lots = m + pool.u
    BY <1>10, <1>12
  <2> QED
    BY <1>12, <2>1, CollateralFacts DEF x
<1>14. m + pool.u \in Nat
  BY <1>10
<1>15. CollateralFloor(m + pool.u) \in Nat
  BY <1>14, CollateralFacts
<1>16. ~SomeSettled' => bal'.collateral >= CollateralFloor(n + pool.u)
  BY <1>9, <1>10, <1>11, <1>13, <1>15
<1>17. bal'.quote = SumFunction(Premiums')
  BY <1>5, <1>7, <1>9, <1>10
<1> QED
  BY <1>2, <1>16, <1>17, CoverFrom DEF n

\* A claim takes from the quote vault the premium the slot was owed.
LEMMA CoverClaim ==
  ASSUME Covered, Core', NEW i \in SlotIds, ClaimPremium(i)
  PROVE  VaultsCover'
<1> DEFINE s == [slots[i] EXCEPT !.premium = 0]
<1>1. Core /\ SlotsFit
  BY DEF Covered
<1>2. /\ live /\ slots' = [slots EXCEPT ![i] = s]
      /\ bal' = [bal EXCEPT !.quote = @ - slots[i].premium]
      /\ UNCHANGED <<pool, live>>
  BY <1>1, CoreClaim DEF ClaimPremium
<1>3. slots[i] \in SlotType
  BY <1>1, FitFacts
<1>4. /\ s \in SlotType /\ s.deposited = slots[i].deposited
      /\ s.withdrawn = slots[i].withdrawn /\ s.sold = slots[i].sold /\ s.premium = 0
      /\ s.settled = slots[i].settled
  BY <1>3 DEF SlotType
<1>5. DOMAIN slots = SlotIds /\ bal'.collateral = bal.collateral
      /\ bal'.quote = bal.quote - slots[i].premium
  BY <1>1, <1>2, TypeFacts DEF Core
<1> HIDE DEF s
<1>6. UnsoldOf(s) = UnsoldOf(slots[i])
  BY <1>4 DEF UnsoldOf, Deposited
<1>7. /\ SumFunction(Unsold') = SumFunction(Unsold) - UnsoldOf(slots[i]) + UnsoldOf(s)
      /\ SumFunction(Premiums') = SumFunction(Premiums) - slots[i].premium + s.premium
      /\ UnsoldOf(slots[i]) \in Nat /\ slots[i].premium \in Nat
  BY <1>1, <1>2, <1>4, OneSlotSums
<1>8. SomeSettled => SomeSettled'
  <2>1. ASSUME NEW j \in SlotIds, slots[j].settled PROVE slots'[j].settled
    BY <1>2, <1>4, <1>5, <2>1
  <2> QED
    BY <2>1 DEF SomeSettled
<1> DEFINE m == SumFunction(Unsold)
           n == SumFunction(Unsold')
           y == SumFunction(Premiums)
           q == SumFunction(Premiums')
<1>9. /\ m \in Nat /\ y \in Nat /\ bal.quote = y
      /\ ~SomeSettled => bal.collateral >= CollateralFloor(m + pool.u)
  BY <1>2, CoverFacts
<1> HIDE DEF m, n, y, q
<1>10. n = m /\ q = y - slots[i].premium
  BY <1>4, <1>6, <1>7, <1>9 DEF m, n, y, q
<1>11. ~SomeSettled' => bal'.collateral >= CollateralFloor(n + pool.u)
  BY <1>5, <1>8, <1>9, <1>10
<1> QED
  BY <1>2, <1>5, <1>9, <1>10, <1>11, CoverFrom DEF n, q

\* A purchase moves lots from unsold to unassigned and pays each writer in full.
LEMMA BuySums ==
  ASSUME Core, SlotsFit, Core', NEW lots \in Nat, NEW limit \in Nat, Buy(lots, limit),
         NEW take, take = Taken(lots, limit)
  PROVE  /\ SumFunction(take) \in Nat
         /\ SumFunction(Unsold) = SumFunction(Unsold') + SumFunction(take)
         /\ SumFunction(Premiums')
              = SumFunction(Premiums)
                  + (SumFunction(PremiumsOf(take)) - SumFunction(FeesOf(PremiumsOf(take))))
<1> DEFINE premium == PremiumsOf(take)
           fee == FeesOf(premium)
           T == [i \in SlotIds |-> SumOf(i, take)]
           X == [i \in SlotIds |-> SumOf(i, premium)]
           Y == [i \in SlotIds |-> SumOf(i, fee)]
           N == [i \in SlotIds |-> SumOf(i, premium) - SumOf(i, fee)]
           S(f) == SumFunctionOnSet(f, SlotIds)
<1>1. /\ TypeOK /\ Ordered(asks) /\ NumberedUpTo(asks, seq) /\ asks \in Seq(AskType)
      /\ Expiry > now
  BY TypeFacts DEF Core, BookInv, Buy
<1>2. FillsAddUp(take, premium, fee)
  BY <1>1, FillFacts
<1>3. ~SomeSettled
  BY <1>1, NoneSettledYet
<1>4. ASSUME NEW i \in SlotIds
      PROVE  /\ Unsold[i] = Unsold'[i] + T[i]
             /\ Premiums'[i] = Premiums[i] + N[i]
             /\ X[i] = Y[i] + N[i]
             /\ T[i] \in Int /\ X[i] \in Int /\ Y[i] \in Int /\ N[i] \in Int
  <2> DEFINE s == SoldSlot(i, take)
             t == SumOf(i, take)
             x == SumOf(i, premium)
             y == SumOf(i, fee)
  <2>1. /\ t \in Nat /\ x \in Nat /\ y \in Nat /\ y <= x
        /\ t <= Resident(i) /\ Resident(i) \in Nat
    BY <1>2 DEF FillsAddUp
  <2>2. /\ s \in SlotType /\ SameOwner(s, slots[i]) /\ s.sold = slots[i].sold + t
        /\ s.premium = slots[i].premium + (x - y)
    BY <1>1, SoldSlotFacts
  <2>3. slots'[i] = s
    BY CoreBuy
  <2>4. /\ slots[i] \in SlotType
        /\ slots[i].withdrawn + slots[i].sold + Resident(i) <= slots[i].deposited
    BY <1>3, FitFacts DEF SomeSettled
  <2>5. slots[i].deposited \in Nat /\ slots[i].withdrawn \in Nat /\ slots[i].sold \in Nat
    BY <2>4, SlotFields
  <2>6. T[i] = t /\ X[i] = x /\ Y[i] = y /\ N[i] = x - y
    OBVIOUS
  <2> HIDE DEF s, t, x, y, T, X, Y, N
  <2>7. s.deposited = slots[i].deposited /\ s.withdrawn = slots[i].withdrawn
    BY <2>2 DEF SameOwner
  <2> DEFINE r == Resident(i)
  <2>8. t <= r /\ r \in Nat
        /\ slots[i].withdrawn + slots[i].sold + r <= slots[i].deposited
    BY <2>1, <2>4
  <2> HIDE DEF r
  <2>9. UnsoldOf(slots[i]) = UnsoldOf(s) + t
    BY <2>1, <2>2, <2>5, <2>7, <2>8 DEF UnsoldOf, Deposited, SatSub
  <2>10. /\ Unsold[i] = UnsoldOf(slots[i]) /\ Unsold'[i] = UnsoldOf(s)
         /\ Premiums[i] = slots[i].premium /\ Premiums'[i] = s.premium
    BY <2>3, SlotTermsNow, SlotTermsNext
  <2> QED
    BY <2>1, <2>2, <2>6, <2>9, <2>10
<1>5. /\ SlotTerms(Unsold) /\ SlotTerms(Unsold')
      /\ SlotTerms(Premiums) /\ SlotTerms(Premiums')
  BY SlotTermsNow, SlotTermsNext
<1>6. /\ SumFunction(take) \in Nat /\ SumFunction(premium) \in Nat
      /\ SumFunction(fee) \in Nat
      /\ S(T) = SumFunction(take) /\ S(X) = SumFunction(premium) /\ S(Y) = SumFunction(fee)
  BY <1>2 DEF FillsAddUp
<1> DEFINE a == Unsold
           b == Unsold'
           c == Premiums
           d == Premiums'
<1>7. /\ IntTerms(a, SlotIds) /\ IntTerms(b, SlotIds)
      /\ IntTerms(c, SlotIds) /\ IntTerms(d, SlotIds)
      /\ SumFunction(a) = S(a) /\ SumFunction(b) = S(b)
      /\ SumFunction(c) = S(c) /\ SumFunction(d) = S(d)
  BY <1>5, SlotSum
<1>8. /\ \A i \in SlotIds : a[i] = b[i] + T[i]
      /\ \A i \in SlotIds : d[i] = c[i] + N[i]
      /\ \A i \in SlotIds : X[i] = Y[i] + N[i]
  <2> HIDE DEF T, X, Y, N
  <2> QED
    BY <1>4
<1>9. IntTerms(T, SlotIds) /\ IntTerms(X, SlotIds) /\ IntTerms(Y, SlotIds)
      /\ IntTerms(N, SlotIds)
  <2> HIDE DEF T, X, Y, N
  <2> QED
    BY <1>4 DEF IntTerms
<1> HIDE DEF T, X, Y, N, a, b, c, d
<1>10. S(a) = S(b) + S(T)
  BY <1>7, <1>8, <1>9, SlotsAreFinite, SumPlus
<1>11. S(d) = S(c) + S(N)
  BY <1>7, <1>8, <1>9, SlotsAreFinite, SumPlus
<1>12. S(X) = S(Y) + S(N)
  BY <1>7, <1>8, <1>9, SlotsAreFinite, SumPlus
<1>13. S(c) \in Int /\ S(N) \in Int
  BY <1>7, <1>9, SlotsAreFinite, SumInt
<1> QED
  BY <1>6, <1>7, <1>10, <1>11, <1>12, <1>13 DEF a, b, c, d

\* A purchase moves lots from unsold to unassigned and pays its premium in.
LEMMA CoverBuy ==
  ASSUME Covered, Core', NEW lots \in Nat, NEW limit \in Nat, Buy(lots, limit)
  PROVE  VaultsCover'
<1> DEFINE take == Taken(lots, limit)
           m == SumFunction(Unsold)
           n == SumFunction(Unsold')
           filled == SumFunction(take)
           x == SumFunction(PremiumsOf(take))
           y == SumFunction(FeesOf(PremiumsOf(take)))
<1>1. Core /\ SlotsFit
  BY DEF Covered
<1>2. /\ live /\ Expiry > now /\ UNCHANGED live
      /\ bal' = [bal EXCEPT !.quote = @ + (x - y), !.fee = @ + y]
  BY BuyStep
<1>3. pool'.u = pool.u + filled
  BY <1>1, CoreBuy
<1>4. /\ filled \in Nat /\ m = n + filled
      /\ SumFunction(Premiums') = SumFunction(Premiums) + (x - y)
  BY <1>1, BuySums
<1>5. ~SomeSettled
  BY <1>1, <1>2, NoneSettledYet
<1>6. /\ bal.collateral \in Nat /\ pool.u \in Nat /\ m \in Nat
      /\ bal.collateral >= CollateralFloor(m + pool.u)
      /\ bal.quote = SumFunction(Premiums)
  BY <1>2, <1>5, CoverFacts
<1>7. n \in Nat
  BY SlotTermsNext
<1> HIDE DEF filled, take, m, n, x, y
<1>8. bal'.collateral = bal.collateral /\ bal'.quote = bal.quote + (x - y)
  BY <1>1, <1>2, TypeFacts DEF Core
<1>9. n + pool'.u = m + pool.u
  BY <1>3, <1>4, <1>6, <1>7
<1>10. bal'.collateral >= CollateralFloor(n + pool'.u)
  BY <1>6, <1>8, <1>9
<1>11. bal'.quote = SumFunction(Premiums')
  BY <1>4, <1>6, <1>8
<1> QED
  BY <1>10, <1>11, CoverFrom DEF n

\* An exercise pays out the collateral of the lots it takes from the pool.
LEMMA CoverExercise ==
  ASSUME Covered, Core', NEW q \in Nat, Exercise(q)
  PROVE  VaultsCover'
<1> DEFINE m == SumFunction(Unsold)
<1>1. Core /\ SlotsFit
  BY DEF Covered
<1>2. /\ live /\ q <= pool.u /\ slots' = slots
  BY DEF Exercise
<1>3. /\ pool'.u = pool.u - q
      /\ bal'.collateral = bal.collateral - CollateralFloor(q) /\ bal'.quote = bal.quote
  BY <1>1, CoreExercise
<1>4. SomeSettled' <=> SomeSettled
  BY <1>2 DEF SomeSettled
<1>5. /\ bal.collateral \in Nat /\ pool.u \in Nat /\ m \in Nat
      /\ ~SomeSettled => bal.collateral >= CollateralFloor(m + pool.u)
      /\ bal.quote = SumFunction(Premiums)
  BY <1>2, CoverFacts
<1>6. SumFunction(Unsold') = m /\ SumFunction(Premiums') = SumFunction(Premiums)
  BY <1>1, <1>2, SameSlotSums
<1> HIDE DEF m
<1>7. m + pool'.u \in Nat /\ m + pool'.u + q = m + pool.u /\ m + pool.u \in Nat
  BY <1>2, <1>3, <1>5
<1>8. /\ CollateralFloor(m + pool'.u) + CollateralFloor(q) <= CollateralFloor(m + pool.u)
      /\ CollateralFloor(m + pool'.u) \in Nat /\ CollateralFloor(q) \in Nat
      /\ CollateralFloor(m + pool.u) \in Nat
  BY <1>7, CollateralFacts
<1>9. ~SomeSettled' => bal'.collateral >= CollateralFloor(m + pool'.u)
  BY <1>3, <1>4, <1>5, <1>8
<1> QED
  BY <1>3, <1>5, <1>6, <1>9, CoverFrom

\* A sale to a vault frees collateral and takes none.
LEMMA CoverSell ==
  ASSUME Covered, Core', NEW i \in SlotIds, NEW lots \in Nat, SellToVault(i, lots)
  PROVE  VaultsCover'
<1>1. Core /\ SlotsFit /\ TokensBacked
  BY DEF Covered
<1>2. PICK fill \in Nat :
        /\ fill <= supply /\ fill <= FoldedOpen(pool, slots[i])
        /\ live /\ Expiry > now
        /\ slots' = [slots EXCEPT ![i] = BurnOpen(pool, slots[i], fill)]
        /\ pool'.u = SatSub(pool.u, fill)
        /\ UNCHANGED <<live, bal>>
  BY <1>1, CoreSell
<1> DEFINE s == BurnOpen(pool, slots[i], fill)
           m == SumFunction(Unsold)
           n == SumFunction(Unsold')
<1>3. slots[i] \in SlotType /\ pool \in PoolType /\ supply \in Nat
  BY <1>1, TypeFacts DEF Core
<1>4. /\ s \in SlotType /\ SameOwner(s, slots[i]) /\ s.sold = SatSub(slots[i].sold, fill)
      /\ s.premium = slots[i].premium
  BY <1>2, <1>3, SlotBurnOpen
<1>5. slots[i].deposited \in Nat /\ slots[i].withdrawn \in Nat /\ slots[i].sold \in Nat
  BY <1>3, SlotFields
<1>6. slots' = [slots EXCEPT ![i] = s]
  BY <1>2
<1> HIDE DEF s
<1>7. UnsoldOf(s) <= UnsoldOf(slots[i]) + fill
  BY <1>4, <1>5 DEF UnsoldOf, Deposited, SatSub, SameOwner
<1>8. /\ n = m - UnsoldOf(slots[i]) + UnsoldOf(s)
      /\ SumFunction(Premiums') = SumFunction(Premiums) - slots[i].premium + s.premium
      /\ UnsoldOf(slots[i]) \in Nat /\ UnsoldOf(s) \in Nat /\ slots[i].premium \in Nat
      /\ UnsoldOf(slots[i]) <= m
  BY <1>1, <1>4, <1>6, OneSlotSums
<1>9. ~SomeSettled
  BY <1>1, <1>2, NoneSettledYet
<1>10. /\ bal.collateral \in Nat /\ pool.u \in Nat /\ m \in Nat
       /\ bal.collateral >= CollateralFloor(m + pool.u)
       /\ bal.quote = SumFunction(Premiums) /\ SumFunction(Premiums) \in Nat
       /\ supply <= pool.u
  BY <1>2, <1>9, CoverFacts
<1> HIDE DEF m, n
<1>11. n + pool'.u \in Nat /\ m + pool.u \in Nat /\ n + pool'.u <= m + pool.u
  BY <1>2, <1>3, <1>7, <1>8, <1>10 DEF SatSub
<1>12. /\ CollateralFloor(n + pool'.u) <= CollateralFloor(m + pool.u)
       /\ CollateralFloor(n + pool'.u) \in Nat /\ CollateralFloor(m + pool.u) \in Nat
  BY <1>11, FloorMonotone
<1>13. bal'.collateral >= CollateralFloor(n + pool'.u)
  BY <1>2, <1>10, <1>12
<1>14. bal'.quote = SumFunction(Premiums')
  BY <1>2, <1>4, <1>8, <1>10
<1> QED
  BY <1>13, <1>14, CoverFrom DEF n

\* From the first settlement on only the quote vault has to cover.
LEMMA CoverSettle ==
  ASSUME Covered, Core', NEW i \in SlotIds, Settle(i)
  PROVE  VaultsCover'
<1> DEFINE s == SettledSlot(i)
<1>1. Core /\ SlotsFit
  BY DEF Covered
<1>2. /\ live /\ slots' = [slots EXCEPT ![i] = s]
      /\ bal' = [bal EXCEPT !.collateral = @ - CollateralPaid(i),
                            !.settlement = @ - SettlementPaid(i),
                            !.quote = @ - slots[i].premium]
  BY <1>1, CoreSettle DEF Settle
<1>3. s \in SlotType /\ s.settled /\ s.premium = 0
  BY <1>1, SettledSlotFacts DEF Core
<1>4. DOMAIN slots = SlotIds /\ bal'.quote = bal.quote - slots[i].premium
  BY <1>1, <1>2, TypeFacts DEF Core
<1> HIDE DEF s
<1>5. SomeSettled'
  <2>1. slots'[i].settled
    BY <1>2, <1>3, <1>4
  <2> QED
    BY <2>1 DEF SomeSettled
<1>6. /\ SumFunction(Premiums') = SumFunction(Premiums) - slots[i].premium + s.premium
      /\ slots[i].premium \in Nat
  BY <1>1, <1>2, <1>3, OneSlotSums
<1>7. bal.quote = SumFunction(Premiums) /\ SumFunction(Premiums) \in Nat
  BY <1>2, CoverFacts
<1>8. bal'.quote = SumFunction(Premiums')
  BY <1>3, <1>4, <1>6, <1>7
<1> QED
  BY <1>5, <1>8, CoverFrom

\* A new series owes nothing.
LEMMA CoverInit == ASSUME Init PROVE VaultsCover
<1>1. Core
  BY CoreInit
<1>2. \A i \in SlotIds : slots[i] = EmptySlot
  BY DEF Init
<1>3. UnsoldOf(EmptySlot) = 0 /\ EmptySlot.premium = 0
  BY DEF UnsoldOf, Deposited, SatSub, EmptySlot
<1>4. \A i \in SlotIds : Unsold[i] = 0 /\ Premiums[i] = 0
  BY <1>1, <1>2, <1>3, SlotTermsNow
<1>5. SumFunction(Unsold) = 0 /\ SumFunction(Premiums) = 0
  <2> DEFINE a == Unsold
             c == Premiums
  <2>1. /\ SumFunction(a) = SumFunctionOnSet(a, SlotIds)
        /\ SumFunction(c) = SumFunctionOnSet(c, SlotIds)
        /\ \A i \in SlotIds : a[i] = 0
        /\ \A i \in SlotIds : c[i] = 0
    BY <1>1, <1>4, SlotTermsNow, SlotSum
  <2> HIDE DEF a, c
  <2>2. SumFunction(a) = 0 /\ SumFunction(c) = 0
    BY <2>1, SlotsAreFinite, SumOfZeros
  <2> QED
    BY <2>2 DEF a, c
<1>6. pool.u = 0 /\ bal.quote = 0 /\ bal.collateral = 0
  BY DEF Init, FreshPool
<1>7. CollateralFloor(0) = 0
  <2>1. /\ 0 * RawPerLot = 0 /\ 0 * Strike = 0 /\ LOT6 \in Nat /\ LOT6 > 0
    BY Constants
  <2>2. 0 \div LOT6 = 0
    BY <2>1
  <2> QED
    BY <2>1, <2>2 DEF CollateralFloor, UsdcPaidFloor
<1> QED
  BY <1>5, <1>6, <1>7 DEF VaultsCover, Solvent, QuoteVaultExact

\* Every step keeps the vaults covering.
LEMMA CoverStep ==
  ASSUME Covered, [Next]_vars
  PROVE  Covered'
<1>0. Core /\ SlotsFit /\ TokensBacked /\ Core' /\ SlotsFit' /\ TokensBacked'
  BY CoreStep, FitStep, TokensStep DEF Covered
<1> SUFFICES VaultsCover'
  BY <1>0 DEF Covered
<1>1. CASE WriterStep
  <2>1. ASSUME NEW w \in Writers, NEW dep \in Deposits, NEW lots \in QuoteLots,
               NEW price \in Prices, Quote(w, dep, lots, price)
        PROVE  VaultsCover'
    BY <1>0, <2>1, Inputs, CoverQuote
  <2>2. ASSUME NEW k, CancelAsk(k) PROVE VaultsCover'
    BY <1>0, <2>2, CoverSame DEF CancelAsk
  <2>3. ASSUME NEW i \in SlotIds, NEW lots \in MoveLots, WithdrawUnsold(i, lots)
        PROVE  VaultsCover'
    BY <1>0, <2>3, Inputs, CoverWithdraw
  <2>4. ASSUME NEW i \in SlotIds, ClaimPremium(i) PROVE VaultsCover'
    BY <1>0, <2>4, CoverClaim
  <2> QED
    BY <1>1, <2>1, <2>2, <2>3, <2>4 DEF WriterStep
<1>2. CASE HolderStep
  <2>1. ASSUME NEW lots \in BuyLots, NEW limit \in Prices, Buy(lots, limit)
        PROVE  VaultsCover'
    BY <1>0, <2>1, Inputs, CoverBuy
  <2>2. ASSUME NEW q \in MoveLots, Exercise(q) PROVE VaultsCover'
    BY <1>0, <2>2, Inputs, CoverExercise
  <2>3. ASSUME NEW i \in SlotIds, NEW lots \in MoveLots, SellToVault(i, lots)
        PROVE  VaultsCover'
    BY <1>0, <2>3, Inputs, CoverSell
  <2>4. ASSUME NEW n \in MoveLots, BurnPosition(n) PROVE VaultsCover'
    BY <1>0, <2>4, CoverSame DEF BurnPosition
  <2> QED
    BY <1>2, <2>1, <2>2, <2>3, <2>4 DEF HolderStep
<1>3. CASE CrankStep
  <2>1. ASSUME NEW i \in SlotIds, Settle(i) PROVE VaultsCover'
    BY <1>0, <2>1, CoverSettle
  <2>2. CASE CloseSeries
    BY <2>2, CoverFrom DEF CloseSeries
  <2>3. CASE ObserveHalt
    BY <1>0, <2>3, CoverSame DEF ObserveHalt
  <2> QED
    BY <1>3, <2>1, <2>2, <2>3 DEF CrankStep
<1>4. CASE WorldStep \/ UNCHANGED vars
  <2>1. UNCHANGED ledger
    BY <1>0, <1>4, CoreWorld
  <2> QED
    BY <1>0, <2>1, CoverSame DEF ledger
<1> QED
  BY <1>1, <1>2, <1>3, <1>4 DEF Next

\* Until settlement the collateral vault covers every unassigned contract and
\* all the collateral that is not sold, and the quote vault holds exactly the
\* premium that can be claimed, whatever was rounded on the way.
THEOREM VaultsStayCovered == Spec => []VaultsCover
<1>1. Init => Covered
  BY CoreInit, FitInit, TokensInit, CoverInit DEF Covered
<1>2. Covered /\ [Next]_vars => Covered'
  BY CoverStep
<1>3. Covered => VaultsCover
  BY DEF Covered
<1> QED
  BY <1>1, <1>2, <1>3, PTL DEF Spec

-----------------------------------------------------------------------------
(* Timely halts.                                                           *)

\* Once a writer has settled, the last pause anybody recorded is at least the
\* grace old, and nothing keeps exercise open any more.
TimelyInv ==
  SomeSettled =>
    /\ halt.at > 0 => halt.at + HaltGrace <= now
    /\ halt.state = "halted" => HaltGrace = 0

\* A step that records no new halt after the first settlement keeps TimelyInv.
LEMMA TimelyStep ==
  ASSUME Core, HaltInv, HaltInv', TimelyInv, [Next]_vars,
         SomeSettled => halt'.at = halt.at
  PROVE  TimelyInv'
<1>1. /\ halt \in HaltType /\ halt.at \in Nat /\ halt.resumed \in Nat
      /\ halt.state \in {"open", "halted"} /\ HaltGrace \in Nat
      /\ now \in Nat /\ now > 0
  BY TypeFacts, Constants DEF Core, HaltType, HaltInv, HaltFits
<1>2. /\ halt' \in HaltType /\ halt'.at \in Nat /\ halt'.resumed \in Nat
      /\ now' \in Nat /\ now <= now'
  <2>1. TypeOK'
    BY CoreStep DEF Core
  <2>2. halt' \in HaltType
    BY <2>1 DEF TypeOK, HaltType
  <2> QED
    BY <2>2, HaltSteps DEF HaltType
<1>3. CASE SomeSettled
  <2>1. /\ halt.at > 0 => halt.at + HaltGrace <= now
        /\ halt.state = "halted" => HaltGrace = 0
        /\ halt'.at = halt.at
    BY <1>3 DEF TimelyInv
  <2>2. halt'.at > 0 => halt'.at + HaltGrace <= now'
    BY <1>1, <1>2, <2>1
  <2>3. halt'.state = "halted" => HaltGrace = 0
    <3>1. CASE halt' = halt
      BY <2>1, <3>1
    <3>2. ASSUME NEW seen \in BOOLEAN, halt' = Observe(halt, seen).halt
          PROVE  (halt'.state = "halted") => HaltGrace = 0
      <4>1. CASE seen
        <5>1. halt'.at = now
          BY <3>2, <4>1 DEF Observe
        <5> QED
          BY <1>1, <2>1, <5>1
      <4>2. CASE ~seen
        <5>1. halt'.state \in {halt.state, "open"}
          BY <1>1, <3>2, <4>2 DEF Observe, HaltType
        <5> QED
          BY <2>1, <5>1
      <4> QED
        BY <4>1, <4>2
    <3> QED
      BY <3>1, <3>2, HaltSteps
  <2> QED
    BY <2>2, <2>3 DEF TimelyInv
<1>4. CASE ~SomeSettled
  <2> SUFFICES ASSUME NEW i \in SlotIds, slots'[i].settled
               PROVE  /\ halt'.at > 0 => halt'.at + HaltGrace <= now'
                      /\ halt'.state # "halted"
    BY DEF TimelyInv, SomeSettled
  <2>1. Settle(i)
    BY <1>4, OnlySettleSettles DEF Settles, SomeSettled
  <2>2. /\ ~Observe(halt, mintPaused).halted
        /\ halt' = Observe(halt, mintPaused).halt /\ now' = now
    BY <2>1 DEF Settle, world
  <2>3. halt'.state = "open"
    BY <1>1, <2>2 DEF Observe, HaltType
  <2>4. /\ halt'.resumed > 0 => halt'.at <= halt'.resumed
        /\ halt'.at > 0 => halt'.resumed > 0 /\ halt'.resumed + HaltGrace <= now'
    BY <2>3 DEF HaltInv, HaltFits
  <2> QED
    BY <1>1, <1>2, <2>3, <2>4
<1> QED
  BY <1>3, <1>4

Timely == Core /\ SlotsFit /\ HaltInv /\ TimelyInv

\* And so does every behaviour in which the halts are timely.
LEMMA TimelyAlways ==
  /\ Init => Timely
  /\ Timely /\ [TimelyNext]_vars => Timely'
<1>1. ASSUME Init PROVE Timely
  <2>1. ~SomeSettled
    BY <1>1 DEF Init, SomeSettled, EmptySlot
  <2> QED
    BY <1>1, <2>1, CoreInit, FitInit, HaltInvInit DEF Timely, TimelyInv
<1>2. ASSUME Timely, [TimelyNext]_vars PROVE Timely'
  <2>1. [Next]_vars /\ (SomeSettled => halt'.at = halt.at)
    BY <1>2 DEF TimelyNext, vars, ledger
  <2>2. Core' /\ SlotsFit' /\ HaltInv'
    BY <1>2, <2>1, CoreStep, FitStep, HaltInvStep DEF Timely
  <2>3. TimelyInv'
    BY <1>2, <2>1, <2>2, TimelyStep DEF Timely
  <2> QED
    BY <2>2, <2>3 DEF Timely
<1> QED
  BY <1>1, <1>2

\* While a contract can be exercised no writer has settled.
LEMMA ExerciseBeforeSettlement ==
  ASSUME Timely, ExerciseOpen
  PROVE  ~SomeSettled
<1> SUFFICES ASSUME SomeSettled PROVE FALSE
  OBVIOUS
<1>1. /\ halt.at \in Nat /\ halt.resumed \in Nat /\ halt.state \in {"open", "halted"}
      /\ HaltGrace \in Nat /\ Expiry \in Nat /\ now \in Nat
      /\ halt.at <= now /\ halt.resumed <= now
  BY TypeFacts, Constants DEF Timely, Core, HaltType, HaltInv, HaltFits
<1>2. Expiry <= now
  <2>1. PICK i \in SlotIds : slots[i].settled
    BY DEF SomeSettled
  <2> QED
    BY <2>1, FitFacts DEF Timely
<1>3. halt.state = "halted" => HaltGrace = 0
  BY DEF Timely, TimelyInv
<1>4. EffectiveExpiry(halt) > now
  BY DEF ExerciseOpen
<1> QED
  BY <1>1, <1>2, <1>3, <1>4 DEF EffectiveExpiry, GreaterOf

\* Once a writer has been paid out no contract is exercised any more: its share
\* of the collateral is gone.
THEOREM NoLateExercise == TimelySpec => NoExerciseAfterSettlement
<1>1. ASSUME Timely, [TimelyNext]_vars, totalExercised' > totalExercised
      PROVE  ~SomeSettled
  <2>1. totalExercised \in Nat /\ [Next]_vars
    BY <1>1, TypeFacts DEF Timely, Core, TimelyNext
  <2>2. totalExercised' # totalExercised
    BY <1>1, <2>1
  <2>3. \E q \in MoveLots : Exercise(q)
    <3>1. CASE WriterStep
      <4>1. ASSUME NEW w, NEW dep, NEW lots, NEW price, Quote(w, dep, lots, price)
            PROVE  FALSE
        BY <2>2, <4>1, QuoteStep
      <4> QED
        BY <2>2, <3>1, <4>1 DEF WriterStep, CancelAsk, WithdrawUnsold, ClaimPremium
    <3>2. CASE HolderStep
      <4>1. ASSUME NEW lots, NEW limit, Buy(lots, limit) PROVE FALSE
        BY <2>2, <4>1, BuyStep
      <4> QED
        BY <2>2, <3>2, <4>1 DEF HolderStep, SellToVault, BurnPosition
    <3>3. CASE CrankStep
      BY <2>2, <3>3 DEF CrankStep, Settle, CloseSeries, ObserveHalt
    <3>4. CASE WorldStep \/ UNCHANGED vars
      BY <1>1, <2>2, <3>4, CoreWorld DEF ledger, Timely
    <3> QED
      BY <2>1, <3>1, <3>2, <3>3, <3>4 DEF Next
  <2> QED
    BY <1>1, <2>3, ExerciseBeforeSettlement DEF Exercise
<1>2. Timely /\ [TimelyNext]_vars
        => [ totalExercised' > totalExercised => ~SomeSettled ]_vars
  BY <1>1
<1> QED
  BY <1>2, TimelyAlways, PTL DEF TimelySpec, NoExerciseAfterSettlement
=============================================================================
