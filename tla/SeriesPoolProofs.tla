-------------------------- MODULE SeriesPoolProofs --------------------------
(***************************************************************************)
(* The refinement theorem of module Series: with timely halts a series     *)
(* implements the pooled-assignment promise of module AssignmentPool, for  *)
(* any writers, capacities, prices, fees, sizes and clock.  What is proved *)
(* of the pool then holds of the series, and with it that settlement pays  *)
(* every writer its assigned lots in full and trims its collateral by no   *)
(* more than rounding dust.  Last, every step stays within the accounts    *)
(* its instruction declares (module SeriesAccess).                         *)
(***************************************************************************)
EXTENDS SeriesProofs, SeriesAccess

-----------------------------------------------------------------------------
(* The abstraction of a slot.                                              *)

\* The operators of the instance are those of the series.
LEMMA PoolOperators ==
  /\ Pool!FreshPool = FreshPool
  /\ \A pl, w : Pool!SnapshotCurrent(pl, w) = SnapshotCurrent(pl, w)
  /\ \A pl, w : Pool!FoldedOpen(pl, w) = FoldedOpen(pl, w)
  /\ \A pl, w : Pool!Fold(pl, w) = Fold(pl, w)
  /\ \A pl, w, n : Pool!AddOpen(pl, w, n) = AddOpen(pl, w, n)
  /\ \A pl, w, n : Pool!BurnOpen(pl, w, n) = BurnOpen(pl, w, n)
  /\ \A pl, q : Pool!MovesProduct(pl, q) = MovesProduct(pl, q)
  /\ \A pl, q : Pool!ApplyExercise(pl, q) = ApplyExercise(pl, q)
  /\ \A a, b : Pool!SatSub(a, b) = SatSub(a, b)
<1>1. \A a, b : Pool!SatSub(a, b) = SatSub(a, b)
  BY DEF Pool!SatSub, SatSub
<1>2. \A a, b : Pool!CeilDiv(a, b) = CeilDiv(a, b)
  BY DEF Pool!CeilDiv, CeilDiv
<1>3. \A a, b : Pool!LesserOf(a, b) = LesserOf(a, b)
  BY DEF Pool!LesserOf, LesserOf
<1>4. \A d : Pool!RescaleFactor(d) = RescaleFactor(d)
  BY DEF Pool!RescaleFactor, RescaleFactor
<1>5. \A pl, w : Pool!SnapshotCurrent(pl, w) = SnapshotCurrent(pl, w)
  BY DEF Pool!SnapshotCurrent, SnapshotCurrent
<1>6. \A pl, w : Pool!Unassigned(pl, w) = Unassigned(pl, w)
  BY <1>2, <1>3, <1>4, Zenon DEF Pool!Unassigned, Unassigned
<1>7. \A pl, w : Pool!FoldedOpen(pl, w) = FoldedOpen(pl, w)
  BY <1>5, <1>6, Zenon DEF Pool!FoldedOpen, FoldedOpen
<1>8. \A pl, w : Pool!Fold(pl, w) = Fold(pl, w)
  BY <1>5, <1>7, Zenon DEF Pool!Fold, Fold
<1>9. \A pl, w, n : Pool!AddOpen(pl, w, n) = AddOpen(pl, w, n)
  BY <1>8, Zenon DEF Pool!AddOpen, AddOpen
<1>10. \A pl, w, n : Pool!BurnOpen(pl, w, n) = BurnOpen(pl, w, n)
  BY <1>1, <1>8, Zenon DEF Pool!BurnOpen, BurnOpen
<1>11. \A pl, q : Pool!MovesProduct(pl, q) = MovesProduct(pl, q)
  BY DEF Pool!MovesProduct, MovesProduct
<1>12. \A pl, q : Pool!NextProduct(pl, q) = NextProduct(pl, q)
  BY <1>2, Zenon DEF Pool!NextProduct, NextProduct
<1>13. \A pl, q : Pool!Rescale(pl, q) = Rescale(pl, q)
  BY <1>12, Zenon DEF Pool!Rescale, Rescale
<1>14. \A pl : Pool!ConsumePool(pl) = ConsumePool(pl)
  BY DEF Pool!ConsumePool, ConsumePool
<1>15. \A pl, q : Pool!ApplyExercise(pl, q) = ApplyExercise(pl, q)
  BY <1>13, <1>14, Zenon DEF Pool!ApplyExercise, ApplyExercise
<1>16. Pool!FreshPool = FreshPool
  BY DEF Pool!FreshPool, FreshPool
<1> QED
  BY <1>1, <1>5, <1>7, <1>8, <1>9, <1>10, <1>11, <1>15, <1>16

\* A slot in use is seen by the pool with its own snapshot.
LEMMA UsedSlot ==
  ASSUME NEW s \in SlotType, ~IsEmpty(s)
  PROVE  PoolSlot(s) = [p |-> s.p, scale |-> s.scale, epoch |-> s.epoch, open |-> s.open,
                        assigned |-> s.assigned, sold |-> s.sold, settled |-> s.settled]
BY DEF PoolSlot

\* The pool only sees these fields of a slot.
LEMMA SameView ==
  ASSUME NEW s \in SlotType, NEW r \in SlotType, r.writer = s.writer,
         r.p = s.p, r.scale = s.scale, r.epoch = s.epoch, r.open = s.open,
         r.assigned = s.assigned, r.sold = s.sold, r.settled = s.settled
  PROVE  PoolSlot(r) = PoolSlot(s)
BY DEF PoolSlot, IsEmpty

\* A slot in use folds in the series as it does in the pool.
LEMMA FoldSeen ==
  ASSUME NEW pl \in PoolType, NEW s \in SlotType, ~IsEmpty(s)
  PROVE  /\ FoldedOpen(pl, PoolSlot(s)) = FoldedOpen(pl, s)
         /\ PoolSlot(Fold(pl, s)) = Fold(pl, PoolSlot(s))
<1> DEFINE v == PoolSlot(s)
<1>1. v = [p |-> s.p, scale |-> s.scale, epoch |-> s.epoch, open |-> s.open,
           assigned |-> s.assigned, sold |-> s.sold, settled |-> s.settled]
  BY UsedSlot
<1>2. /\ v.p = s.p /\ v.scale = s.scale /\ v.epoch = s.epoch /\ v.open = s.open
      /\ v.assigned = s.assigned /\ v.sold = s.sold /\ v.settled = s.settled
  BY <1>1
<1> HIDE DEF v
<1>3. SnapshotCurrent(pl, v) = SnapshotCurrent(pl, s)
  BY <1>2 DEF SnapshotCurrent
<1>4. FoldedOpen(pl, v) = FoldedOpen(pl, s)
  BY <1>2, <1>3, Zenon DEF FoldedOpen, Unassigned
<1>5. CASE SnapshotCurrent(pl, s)
  BY <1>3, <1>4, <1>5 DEF Fold, v
<1>6. CASE ~SnapshotCurrent(pl, s)
  <2> DEFINE o == FoldedOpen(pl, s)
             a == s.assigned + (s.open - o)
             r == Fold(pl, s)
  <2>1. r = [s EXCEPT !.assigned = a, !.open = o,
                      !.p = pl.p, !.scale = pl.scale, !.epoch = pl.epoch]
    BY <1>6 DEF Fold
  <2>2. Fold(pl, v) = [v EXCEPT !.assigned = a, !.open = o,
                                !.p = pl.p, !.scale = pl.scale, !.epoch = pl.epoch]
    BY <1>2, <1>3, <1>4, <1>6 DEF Fold
  <2>3. r \in SlotType /\ r.writer = s.writer
    BY SlotFold DEF SameOwner
  <2> HIDE DEF o, a
  <2>4. /\ r.p = pl.p /\ r.scale = pl.scale /\ r.epoch = pl.epoch /\ r.open = o
        /\ r.assigned = a /\ r.sold = s.sold /\ r.settled = s.settled
    BY <2>1 DEF SlotType
  <2>5. Fold(pl, v) = [p |-> pl.p, scale |-> pl.scale, epoch |-> pl.epoch, open |-> o,
                       assigned |-> a, sold |-> s.sold, settled |-> s.settled]
    BY <1>1, <2>2
  <2> HIDE DEF r
  <2>6. PoolSlot(r) = Fold(pl, v)
    BY <2>3, <2>4, <2>5, UsedSlot DEF IsEmpty
  <2> QED
    BY <1>4, <2>6 DEF r, v
<1> QED
  BY <1>5, <1>6

\* Lots sold to a slot in use, and premium with them, enter it as in the pool.
LEMMA SaleSeen ==
  ASSUME NEW pl \in PoolType, NEW s \in SlotType, ~IsEmpty(s), NEW n \in Nat,
         NEW r \in SlotType, NEW c, r = [AddOpen(pl, s, n) EXCEPT !.premium = c]
  PROVE  PoolSlot(r) = AddOpen(pl, PoolSlot(s), n)
<1> DEFINE f == Fold(pl, s)
           o == f.open + n
           d == f.sold + n
<1>1. f \in SlotType /\ f.writer = s.writer /\ PoolSlot(f) = Fold(pl, PoolSlot(s))
  BY SlotFold, FoldSeen DEF SameOwner
<1>2. r = [[f EXCEPT !.open = o, !.sold = d] EXCEPT !.premium = c]
  BY DEF AddOpen
<1>3. PoolSlot(f) = [p |-> f.p, scale |-> f.scale, epoch |-> f.epoch, open |-> f.open,
                     assigned |-> f.assigned, sold |-> f.sold, settled |-> f.settled]
  BY <1>1, UsedSlot DEF IsEmpty
<1>4. AddOpen(pl, PoolSlot(s), n) = [PoolSlot(f) EXCEPT !.open = @ + n, !.sold = @ + n]
  BY <1>1 DEF AddOpen
<1>5. AddOpen(pl, PoolSlot(s), n)
        = [p |-> f.p, scale |-> f.scale, epoch |-> f.epoch, open |-> o,
           assigned |-> f.assigned, sold |-> d, settled |-> f.settled]
  <2> DEFINE v == PoolSlot(f)
  <2>1. v = [p |-> f.p, scale |-> f.scale, epoch |-> f.epoch, open |-> f.open,
             assigned |-> f.assigned, sold |-> f.sold, settled |-> f.settled]
    BY <1>3
  <2>2. AddOpen(pl, PoolSlot(s), n) = [v EXCEPT !.open = v.open + n, !.sold = v.sold + n]
    BY <1>4
  <2> HIDE DEF v, f
  <2>3. v.open + n = o /\ v.sold + n = d
    BY <2>1
  <2> HIDE DEF o, d
  <2> DEFINE x == [v EXCEPT !.open = o]
  <2>4. x = [p |-> f.p, scale |-> f.scale, epoch |-> f.epoch, open |-> o,
             assigned |-> f.assigned, sold |-> f.sold, settled |-> f.settled]
    BY <2>1
  <2>5. [v EXCEPT !.open = o, !.sold = d] = [x EXCEPT !.sold = d]
    OBVIOUS
  <2> HIDE DEF x
  <2>6. [x EXCEPT !.sold = d]
          = [p |-> f.p, scale |-> f.scale, epoch |-> f.epoch, open |-> o,
             assigned |-> f.assigned, sold |-> d, settled |-> f.settled]
    BY <2>4
  <2> QED
    BY <2>2, <2>3, <2>5, <2>6
<1> HIDE DEF f, o, d
<1>6. /\ r.writer = f.writer /\ r.p = f.p /\ r.scale = f.scale /\ r.epoch = f.epoch
      /\ r.open = o /\ r.assigned = f.assigned /\ r.sold = d /\ r.settled = f.settled
  BY <1>1, <1>2 DEF SlotType
<1> QED
  BY <1>1, <1>5, <1>6, UsedSlot DEF IsEmpty

\* Lots bought back from a slot in use leave it as in the pool.
LEMMA BurnSeen ==
  ASSUME NEW pl \in PoolType, NEW s \in SlotType, ~IsEmpty(s), NEW n \in Nat,
         n <= FoldedOpen(pl, s)
  PROVE  PoolSlot(BurnOpen(pl, s, n)) = BurnOpen(pl, PoolSlot(s), n)
<1> DEFINE f == Fold(pl, s)
           r == BurnOpen(pl, s, n)
           o == f.open - n
           d == SatSub(f.sold, n)
<1>1. f \in SlotType /\ f.writer = s.writer /\ PoolSlot(f) = Fold(pl, PoolSlot(s))
  BY SlotFold, FoldSeen DEF SameOwner
<1>2. r = [f EXCEPT !.open = o, !.sold = d]
  BY DEF BurnOpen
<1>3. PoolSlot(f) = [p |-> f.p, scale |-> f.scale, epoch |-> f.epoch, open |-> f.open,
                     assigned |-> f.assigned, sold |-> f.sold, settled |-> f.settled]
  BY <1>1, UsedSlot DEF IsEmpty
<1>4. BurnOpen(pl, PoolSlot(s), n)
        = [PoolSlot(f) EXCEPT !.open = @ - n, !.sold = SatSub(@, n)]
  BY <1>1 DEF BurnOpen
<1>5. BurnOpen(pl, PoolSlot(s), n)
        = [p |-> f.p, scale |-> f.scale, epoch |-> f.epoch, open |-> o,
           assigned |-> f.assigned, sold |-> d, settled |-> f.settled]
  <2> DEFINE v == PoolSlot(f)
  <2>1. v = [p |-> f.p, scale |-> f.scale, epoch |-> f.epoch, open |-> f.open,
             assigned |-> f.assigned, sold |-> f.sold, settled |-> f.settled]
    BY <1>3
  <2>2. BurnOpen(pl, PoolSlot(s), n)
          = [v EXCEPT !.open = v.open - n, !.sold = SatSub(v.sold, n)]
    BY <1>4
  <2> HIDE DEF v, f
  <2>3. v.open - n = o /\ SatSub(v.sold, n) = d
    BY <2>1
  <2> HIDE DEF o, d
  <2> DEFINE x == [v EXCEPT !.open = o]
  <2>4. x = [p |-> f.p, scale |-> f.scale, epoch |-> f.epoch, open |-> o,
             assigned |-> f.assigned, sold |-> f.sold, settled |-> f.settled]
    BY <2>1
  <2>5. [v EXCEPT !.open = o, !.sold = d] = [x EXCEPT !.sold = d]
    OBVIOUS
  <2> HIDE DEF x
  <2>6. [x EXCEPT !.sold = d]
          = [p |-> f.p, scale |-> f.scale, epoch |-> f.epoch, open |-> o,
             assigned |-> f.assigned, sold |-> d, settled |-> f.settled]
    BY <2>4
  <2> QED
    BY <2>2, <2>3, <2>5, <2>6
<1>6. r \in SlotType
  BY SlotBurnOpen
<1> HIDE DEF f, o, d
<1>7. /\ r.writer = f.writer /\ r.p = f.p /\ r.scale = f.scale /\ r.epoch = f.epoch
      /\ r.open = o /\ r.assigned = f.assigned /\ r.sold = d /\ r.settled = f.settled
  BY <1>1, <1>2 DEF SlotType
<1> HIDE DEF r
<1>8. PoolSlot(r) = BurnOpen(pl, PoolSlot(s), n)
  BY <1>1, <1>5, <1>6, <1>7, UsedSlot DEF IsEmpty
<1> QED
  BY <1>8 DEF r

\* A settled slot is left folded and emptied as in the pool.
LEMMA SettlementSeen ==
  ASSUME TypeOK, NEW i \in SlotIds, ~IsEmpty(slots[i])
  PROVE  PoolSlot(SettledSlot(i)) = Pool!SettledSlot(pool, PoolSlot(slots[i]))
<1> DEFINE f == Fold(pool, slots[i])
           r == SettledSlot(i)
<1>1. /\ slots[i] \in SlotType /\ pool \in PoolType
  BY TypeFacts
<1>2. /\ f \in SlotType /\ f.writer = slots[i].writer /\ f.sold = slots[i].sold
      /\ PoolSlot(f) = Fold(pool, PoolSlot(slots[i]))
  BY <1>1, SlotFold, FoldSeen DEF SameOwner
<1>3. /\ r \in SlotType /\ r.writer = slots[i].writer /\ r.sold = slots[i].sold
      /\ r.open = 0 /\ r.settled /\ r.assigned = f.assigned
      /\ r.p = f.p /\ r.scale = f.scale /\ r.epoch = f.epoch
  BY SettledSlotFacts
<1>4. Pool!SettledSlot(pool, PoolSlot(slots[i]))
        = [PoolSlot(f) EXCEPT !.open = 0, !.settled = TRUE]
  BY <1>2, PoolOperators DEF Pool!SettledSlot
<1> HIDE DEF f, r
<1>5. PoolSlot(f) = [p |-> f.p, scale |-> f.scale, epoch |-> f.epoch, open |-> f.open,
                     assigned |-> f.assigned, sold |-> f.sold, settled |-> f.settled]
  BY <1>2, UsedSlot DEF IsEmpty
<1>6. PoolSlot(r) = [p |-> r.p, scale |-> r.scale, epoch |-> r.epoch, open |-> r.open,
                     assigned |-> r.assigned, sold |-> r.sold, settled |-> r.settled]
  BY <1>3, UsedSlot DEF IsEmpty
<1>7. r.settled = TRUE
  BY <1>3, SlotFields
<1>8. PoolSlot(r) = Pool!SettledSlot(pool, PoolSlot(slots[i]))
  <2> DEFINE v == PoolSlot(f)
  <2>1. v = [p |-> f.p, scale |-> f.scale, epoch |-> f.epoch, open |-> f.open,
             assigned |-> f.assigned, sold |-> f.sold, settled |-> f.settled]
    BY <1>5
  <2>2. Pool!SettledSlot(pool, PoolSlot(slots[i])) = [v EXCEPT !.open = 0, !.settled = r.settled]
    BY <1>4, <1>7
  <2> HIDE DEF v
  <2> DEFINE x == [v EXCEPT !.open = 0]
  <2>3. x = [p |-> f.p, scale |-> f.scale, epoch |-> f.epoch, open |-> 0,
             assigned |-> f.assigned, sold |-> f.sold, settled |-> f.settled]
    BY <2>1
  <2>4. [v EXCEPT !.open = 0, !.settled = r.settled] = [x EXCEPT !.settled = r.settled]
    OBVIOUS
  <2> HIDE DEF x
  <2>5. [x EXCEPT !.settled = r.settled]
          = [p |-> f.p, scale |-> f.scale, epoch |-> f.epoch, open |-> 0,
             assigned |-> f.assigned, sold |-> f.sold, settled |-> r.settled]
    BY <2>3
  <2> QED
    BY <1>2, <1>3, <1>6, <1>7, <2>2, <2>4, <2>5
<1> QED
  BY <1>8 DEF r

-----------------------------------------------------------------------------
(* The bounds of the pool.                                                 *)

\* One ask of the walk: m lots of it are left, the r lots of the asks before it
\* gave s so far.
LEMMA OneTake ==
  ASSUME NEW s \in Nat, NEW r \in Nat, NEW m \in Nat, NEW lots \in Nat,
         s <= lots, s <= r, NEW t, t = 0 \/ t = LesserOf(m, SatSub(lots, r))
  PROVE  t \in Nat /\ t + s \in Nat /\ t + s <= lots /\ t + s <= r + m
BY DEF LesserOf, SatSub

\* A purchase is never filled beyond the lots it asked for: each step of the
\* walk only takes what the asks before it could not give.
LEMMA FilledAtMost ==
  ASSUME asks \in Seq(AskType), NEW lots \in Nat, NEW limit
  PROVE  SumFunction(Taken(lots, limit)) <= lots
<1> DEFINE take == Taken(lots, limit)
           L == Len(asks)
           S(n) == SumFunctionOnSet(take, 1 .. n)
           R(n) == SumFunctionOnSet(Remaining, 1 .. n)
           T == {n \in Nat : n <= L => S(n) \in Nat /\ S(n) <= lots /\ S(n) <= R(n)}
<1>1. L \in Nat
  BY AskFacts
<1>2. ASSUME NEW k \in 1 .. L
      PROVE  /\ R(k - 1) \in Nat /\ R(k) = R(k - 1) + asks[k].remaining
             /\ asks[k].remaining \in Nat
             /\ \/ take[k] = 0
                \/ take[k] = LesserOf(asks[k].remaining, SatSub(lots, R(k - 1)))
  <2>1. /\ R(k - 1) \in Nat /\ R(k) = R(k - 1) + asks[k].remaining
        /\ asks[k].remaining \in Nat
    BY RemainingBefore, AskFacts
  <2>2. take[k] = Take(k, lots, limit)
    BY DEF Taken
  <2> QED
    BY <2>1, <2>2 DEF Take
<1>3. ASSUME NEW k \in 1 .. L PROVE take[k] \in Nat
  <2>1. /\ R(k - 1) \in Nat /\ asks[k].remaining \in Nat
        /\ \/ take[k] = 0
           \/ take[k] = LesserOf(asks[k].remaining, SatSub(lots, R(k - 1)))
    BY <1>2
  <2> HIDE DEF R, take, L
  <2>2. 0 \in Nat /\ 0 <= lots /\ 0 <= R(k - 1)
    BY <2>1
  <2> QED
    BY <2>1, <2>2, OneTake
<1> HIDE DEF take, L
<1>4. 0 \in T
  <2>1. 1 .. 0 = {}
    OBVIOUS
  <2>2. S(0) = 0 /\ R(0) = 0
    BY <2>1, SumOfNone
  <2> HIDE DEF S, R
  <2> QED
    BY <2>2
<1>5. ASSUME NEW n \in T PROVE n + 1 \in T
  <2> SUFFICES ASSUME n + 1 <= L
               PROVE  S(n + 1) \in Nat /\ S(n + 1) <= lots /\ S(n + 1) <= R(n + 1)
    OBVIOUS
  <2> DEFINE k == n + 1
  <2>1. n \in Nat /\ k \in 1 .. L /\ n <= L /\ k - 1 = n
    BY <1>1
  <2>2. S(n) \in Nat /\ S(n) <= lots /\ S(n) <= R(n)
    BY <2>1
  <2>3. S(k) = take[k] + S(n)
    <3> HIDE DEF S, R
    <3>1. 1 .. k = (1 .. n) \cup {k} /\ k \notin 1 .. n
      BY <2>1
    <3>4. IsFiniteSet(1 .. n)
      BY <2>1, FS_Interval
    <3>2. IntTerms(take, 1 .. n) /\ take[k] \in Int
      BY <1>1, <1>3, <2>1 DEF IntTerms
    <3>3. SumFunctionOnSet(take, (1 .. n) \cup {k}) = take[k] + SumFunctionOnSet(take, 1 .. n)
      BY <3>1, <3>2, <3>4, SumAdd
    <3> QED
      BY <3>1, <3>3 DEF S
  <2>4. /\ R(n) \in Nat /\ R(k) = R(n) + asks[k].remaining
        /\ asks[k].remaining \in Nat
        /\ \/ take[k] = 0
           \/ take[k] = LesserOf(asks[k].remaining, SatSub(lots, R(n)))
    BY <1>2, <2>1
  <2> HIDE DEF S, R
  <2>5. S(k) \in Nat /\ S(k) <= lots /\ S(k) <= R(k)
    <3> DEFINE t == take[k]
               m == asks[k].remaining
    <3>1. S(k) = t + S(n) /\ R(k) = R(n) + m
      BY <2>3, <2>4
    <3>2. m \in Nat /\ R(n) \in Nat /\ (t = 0 \/ t = LesserOf(m, SatSub(lots, R(n))))
      BY <2>4
    <3> HIDE DEF t, m, T, k
    <3>3. /\ t \in Nat /\ t + S(n) \in Nat /\ t + S(n) <= lots
          /\ t + S(n) <= R(n) + m
      BY <2>2, <3>2, OneTake
    <3> QED
      BY <3>1, <3>3
  <2> QED
    BY <2>5
<1>6. T = Nat
  <2> HIDE DEF S, R
  <2>1. T \in SUBSET Nat
    OBVIOUS
  <2> HIDE DEF T
  <2> QED
    BY <1>4, <1>5, <2>1, EveryNat
<1>7. S(L) <= lots
  BY <1>1, <1>6
<1>8. SumFunction(take) = S(L)
  <2>1. DOMAIN take = 1 .. L
    BY DEF take, L, Taken
  <2> QED
    BY <2>1 DEF SumFunction
<1> QED
  BY <1>7, <1>8 DEF take

\* All the lots resident in a book.
BookLots(bk) == SumFunctionOnSet([i \in SlotIds |-> LotsIn(bk, i)], SlotIds)

\* Everything sold was posted first, a quote's lots at a time.
Posted == seq <= MaxQuotes /\ totalSold + BookLots(asks) <= seq * MaxLots

\* A book that holds no more of any slot holds no more in all.
LEMMA BookLotsLess ==
  ASSUME NEW bk \in Asks, NEW part \in Asks, \A i : LotsIn(part, i) <= LotsIn(bk, i)
  PROVE  BookLots(part) <= BookLots(bk) /\ BookLots(part) \in Nat /\ BookLots(bk) \in Nat
<1> DEFINE f == [i \in SlotIds |-> LotsIn(bk, i)]
           g == [i \in SlotIds |-> LotsIn(part, i)]
<1>1. SlotTerms(f) /\ SlotTerms(g)
  BY LotsFacts DEF SlotTerms
<1>2. \A i \in SlotIds : g[i] <= f[i]
  OBVIOUS
<1> HIDE DEF f, g
<1>3. IntTerms(f, SlotIds) /\ IntTerms(g, SlotIds) /\ IsFiniteSet(SlotIds)
      /\ NatTerms(f, SlotIds) /\ NatTerms(g, SlotIds)
  BY <1>1, SlotSum, SlotsAreFinite
<1>4. /\ SumFunctionOnSet(g, SlotIds) <= SumFunctionOnSet(f, SlotIds)
      /\ SumFunctionOnSet(g, SlotIds) \in Nat /\ SumFunctionOnSet(f, SlotIds) \in Nat
  BY <1>2, <1>3, SumMonotone, SumNat
<1> QED
  BY <1>4 DEF f, g, BookLots

\* A quote adds its lots to the book at most.
LEMMA BookLotsMore ==
  ASSUME NEW bk \in Asks, NEW more \in Asks, NEW i \in SlotIds, NEW n \in Nat,
         \A j : LotsIn(more, j) <= LotsIn(bk, j) + (IF j = i THEN n ELSE 0)
  PROVE  BookLots(more) <= BookLots(bk) + n /\ BookLots(more) \in Nat
<1> DEFINE f == [j \in SlotIds |-> LotsIn(bk, j)]
           g == [j \in SlotIds |-> LotsIn(more, j)]
           h == [j \in SlotIds |-> LotsIn(bk, j) + (IF j = i THEN n ELSE 0)]
<1>1. \A j : LotsIn(bk, j) \in Nat /\ LotsIn(more, j) \in Nat
  BY LotsFacts
<1>2. SlotTerms(f) /\ SlotTerms(g) /\ SlotTerms(h)
  BY <1>1 DEF SlotTerms
<1>3. /\ \A j \in SlotIds : g[j] <= h[j]
      /\ \A j \in SlotIds \ {i} : h[j] = f[j]
      /\ h[i] = f[i] + n /\ f[i] \in Nat
  BY <1>1
<1> HIDE DEF f, g, h
<1>4. /\ IntTerms(f, SlotIds) /\ IntTerms(g, SlotIds) /\ IntTerms(h, SlotIds)
      /\ NatTerms(f, SlotIds) /\ NatTerms(g, SlotIds) /\ IsFiniteSet(SlotIds)
  BY <1>2, SlotSum, SlotsAreFinite
<1>5. /\ SumFunctionOnSet(g, SlotIds) <= SumFunctionOnSet(h, SlotIds)
      /\ SumFunctionOnSet(h, SlotIds) = SumFunctionOnSet(f, SlotIds) - f[i] + h[i]
  BY <1>3, <1>4, SumMonotone, SumUpdate
<1>6. SumFunctionOnSet(f, SlotIds) \in Nat /\ SumFunctionOnSet(g, SlotIds) \in Nat
  BY <1>4, SumNat
<1>7. SumFunctionOnSet(g, SlotIds) <= SumFunctionOnSet(f, SlotIds) + n
  BY <1>3, <1>5, <1>6
<1> QED
  BY <1>6, <1>7 DEF f, g, BookLots

\* What a purchase sold was in the book before it and is not there after it.
LEMMA BookLotsSold ==
  ASSUME Core, NEW lots \in Nat, NEW limit \in Nat, Buy(lots, limit)
  PROVE  /\ BookLots(asks') + SumFunction(Taken(lots, limit)) <= BookLots(asks)
         /\ BookLots(asks') \in Nat /\ BookLots(asks) \in Nat
         /\ SumFunction(Taken(lots, limit)) \in Nat
<1> DEFINE take == Taken(lots, limit)
           f == [j \in SlotIds |-> LotsIn(asks, j)]
           g == [j \in SlotIds |-> LotsIn(asks', j)]
           x == [j \in SlotIds |-> SumOf(j, take)]
           h == [j \in SlotIds |-> LotsIn(asks', j) + SumOf(j, take)]
<1>1. FillsAddUp(take, PremiumsOf(take), FeesOf(PremiumsOf(take)))
  BY FillFacts, TypeFacts DEF Core, BookInv
<1>2. /\ SumFunction(take) \in Nat /\ \A j : SumOf(j, take) \in Nat
      /\ SumFunctionOnSet(x, SlotIds) = SumFunction(take)
  BY <1>1 DEF FillsAddUp
<1>3. \A j : /\ LotsIn(asks', j) + SumOf(j, take) <= LotsIn(asks, j)
             /\ LotsIn(asks', j) \in Nat /\ LotsIn(asks, j) \in Nat
  BY CoreBuy
<1> HIDE DEF take
<1>4. /\ NatTerms(f, SlotIds) /\ NatTerms(g, SlotIds) /\ NatTerms(x, SlotIds)
      /\ NatTerms(h, SlotIds) /\ \A j \in SlotIds : h[j] = g[j] + x[j] /\ h[j] <= f[j]
  BY <1>2, <1>3 DEF NatTerms
<1> HIDE DEF f, g, x, h
<1>5. /\ IntTerms(f, SlotIds) /\ IntTerms(g, SlotIds) /\ IntTerms(x, SlotIds)
      /\ IntTerms(h, SlotIds) /\ IsFiniteSet(SlotIds)
  BY <1>4, NatTermsAreInts, SlotsAreFinite
<1>6. SumFunctionOnSet(h, SlotIds)
        = SumFunctionOnSet(g, SlotIds) + SumFunctionOnSet(x, SlotIds)
  BY <1>4, <1>5, SumPlus
<1>7. SumFunctionOnSet(h, SlotIds) <= SumFunctionOnSet(f, SlotIds)
  BY <1>4, <1>5, SumMonotone
<1>8. SumFunctionOnSet(f, SlotIds) \in Nat /\ SumFunctionOnSet(g, SlotIds) \in Nat
  BY <1>4, <1>5, SumNat
<1> QED
  BY <1>2, <1>6, <1>7, <1>8 DEF f, g, take, BookLots

\* Nothing is posted on a new series.
LEMMA PostedInit == ASSUME Init PROVE Posted
<1>1. asks \in Asks
  BY CoreInit, TypeFacts, AskFacts DEF Core
<1>2. \A i : LotsIn(asks, i) = 0
  <2>1. \A i : AsksIn(asks, i) = {}
    BY DEF Init, AsksIn
  <2> QED
    BY <2>1, SumOfNone DEF LotsIn
<1>3. BookLots(asks) = 0
  BY <1>2, SlotsAreFinite, SumOfZeros DEF BookLots
<1>4. MaxLots \in Nat /\ MaxQuotes \in Nat
  BY Constants
<1>5. 0 * MaxLots = 0
  BY <1>4
<1> QED
  BY <1>3, <1>4, <1>5 DEF Posted, Init

\* No step makes a slot owe lots it did not post.
LEMMA PostedStep ==
  ASSUME Core, Posted, [Next]_vars
  PROVE  Posted'
<1>1. /\ seq \in Nat /\ totalSold \in Nat /\ asks \in Asks /\ asks' \in Asks
      /\ MaxLots \in Nat /\ MaxQuotes \in Nat
      /\ seq <= MaxQuotes /\ totalSold + BookLots(asks) <= seq * MaxLots
      /\ BookLots(asks) \in Nat /\ BookLots(asks') \in Nat
  <2>1. asks \in Seq(AskType) /\ asks' \in Seq(AskType)
    <3>1. Core'
      BY CoreStep
    <3> QED
      BY <3>1 DEF Core, TypeOK
  <2>2. asks \in Asks /\ asks' \in Asks
    BY <2>1, AsksAreFilledAsks
  <2>3. \A i : LotsIn(asks, i) \in Nat /\ LotsIn(asks', i) \in Nat
    BY <2>2, LotsFacts
  <2>4. BookLots(asks) \in Nat /\ BookLots(asks') \in Nat
    <3>1. /\ \A i : LotsIn(asks, i) <= LotsIn(asks, i)
          /\ \A i : LotsIn(asks', i) <= LotsIn(asks', i)
      BY <2>3
    <3> QED
      BY <2>2, <3>1, BookLotsLess
  <2> QED
    BY <2>2, <2>4, TypeFacts, Constants DEF Core, Posted
<1>2. ASSUME seq' = seq, totalSold' \in Nat, totalSold' <= totalSold,
             BookLots(asks') <= BookLots(asks)
      PROVE  Posted'
  <2>1. totalSold' + BookLots(asks') <= totalSold + BookLots(asks)
    BY <1>1, <1>2
  <2>2. seq * MaxLots \in Nat
    BY <1>1
  <2>3. totalSold' + BookLots(asks') <= seq * MaxLots
    BY <1>1, <1>2, <2>1, <2>2
  <2> QED
    BY <1>1, <1>2, <2>3 DEF Posted
<1>3. ASSUME NEW w \in Writers, NEW dep \in Nat, NEW lots \in Nat, NEW price \in Nat,
             Quote(w, dep, lots, price)
      PROVE  Posted'
  <2>1. /\ lots <= MaxLots /\ seq < MaxQuotes /\ seq' = seq + 1 /\ totalSold' = totalSold
        /\ SlotFor(w) \in SlotIds
    BY <1>3, QuoteStep, SlotForFacts DEF Core
  <2>2. \A i : LotsIn(asks', i) <= LotsIn(asks, i) + (IF i = SlotFor(w) THEN lots ELSE 0)
    BY <1>3, QuoteBook
  <2>3. BookLots(asks') <= BookLots(asks) + lots
    BY <1>1, <2>1, <2>2, BookLotsMore
  <2>4. (seq + 1) * MaxLots = seq * MaxLots + MaxLots /\ seq * MaxLots \in Nat
    BY <1>1
  <2>5. totalSold' + BookLots(asks') <= (seq + 1) * MaxLots
    BY <1>1, <2>1, <2>3, <2>4
  <2> QED
    BY <1>1, <2>1, <2>5 DEF Posted
<1>4. ASSUME NEW lots \in Nat, NEW limit \in Nat, Buy(lots, limit) PROVE Posted'
  <2> DEFINE filled == SumFunction(Taken(lots, limit))
  <2>1. /\ BookLots(asks') + filled <= BookLots(asks) /\ filled \in Nat
        /\ totalSold' = totalSold + filled /\ seq' = seq
    BY <1>4, BookLotsSold, BuyStep
  <2> HIDE DEF filled
  <2>2. totalSold' + BookLots(asks') <= totalSold + BookLots(asks)
    BY <1>1, <2>1
  <2>3. seq * MaxLots \in Nat /\ totalSold' \in Nat
    BY <1>1, <2>1
  <2>4. totalSold' + BookLots(asks') <= seq * MaxLots
    BY <1>1, <2>2, <2>3
  <2> QED
    BY <1>1, <2>1, <2>4 DEF Posted
<1>5. ASSUME NEW k \in 1 .. Len(asks), CancelAsk(k) PROVE Posted'
  <2>1. BookLots(asks') <= BookLots(asks)
    BY <1>1, <1>5, CoreCancel, BookLotsLess
  <2>2. seq' = seq /\ totalSold' = totalSold
    BY <1>5 DEF CancelAsk
  <2> QED
    BY <1>1, <1>2, <2>1, <2>2
<1>6. ASSUME UNCHANGED <<asks, seq, totalSold>> PROVE Posted'
  BY <1>1, <1>2, <1>6
<1>7. ASSUME NEW i \in SlotIds, NEW lots \in Nat, SellToVault(i, lots) PROVE Posted'
  <2>1. PICK fill \in Nat : /\ totalSold' = SatSub(totalSold, fill)
                            /\ UNCHANGED <<asks, seq>>
    BY <1>7, CoreSell
  <2>2. totalSold' \in Nat /\ totalSold' <= totalSold
    BY <1>1, <2>1 DEF SatSub
  <2> QED
    BY <1>1, <1>2, <2>1, <2>2
<1>8. CASE WriterStep
  <2>1. ASSUME NEW i, NEW lots, WithdrawUnsold(i, lots) PROVE UNCHANGED <<asks, seq, totalSold>>
    BY <2>1 DEF WithdrawUnsold
  <2>2. ASSUME NEW i, ClaimPremium(i) PROVE UNCHANGED <<asks, seq, totalSold>>
    BY <2>2 DEF ClaimPremium
  <2> QED
    BY <1>3, <1>5, <1>6, <1>8, <2>1, <2>2, Inputs DEF WriterStep
<1>9. CASE HolderStep
  <2>1. ASSUME NEW q, Exercise(q) PROVE UNCHANGED <<asks, seq, totalSold>>
    BY <2>1 DEF Exercise
  <2>2. ASSUME NEW n, BurnPosition(n) PROVE UNCHANGED <<asks, seq, totalSold>>
    BY <2>2 DEF BurnPosition
  <2> QED
    BY <1>4, <1>6, <1>7, <1>9, <2>1, <2>2, Inputs DEF HolderStep
<1>10. CASE CrankStep
  BY <1>6, <1>10 DEF CrankStep, Settle, CloseSeries, ObserveHalt
<1>11. CASE WorldStep \/ UNCHANGED vars
  BY <1>6, <1>11, CoreWorld DEF ledger
<1> QED
  BY <1>8, <1>9, <1>10, <1>11 DEF Next

-----------------------------------------------------------------------------
(* Every step of the series is a step of the pool or leaves it alone.      *)

\* The pool sees a slot's counters as they are.
LEMMA ViewFields ==
  ASSUME NEW s
  PROVE  /\ PoolSlot(s).open = s.open /\ PoolSlot(s).assigned = s.assigned
         /\ PoolSlot(s).sold = s.sold /\ PoolSlot(s).settled = s.settled
BY DEF PoolSlot

\* The pool only knows that settlement has begun from its slots.
LEMMA SettlingSeen == ASSUME ~SomeSettled PROVE ~Pool!settling
BY ViewFields DEF Pool!settling, SomeSettled

\* A step that moves no counter the pool sees is a stutter of the pool.
LEMMA PoolStutters ==
  ASSUME UNCHANGED <<pool, totalSold, totalExercised>>,
         \A i \in SlotIds : PoolSlot(slots'[i]) = PoolSlot(slots[i])
  PROVE  UNCHANGED Pool!vars
BY DEF Pool!vars

\* One slot replaced is one slot replaced in the pool.
LEMMA OneSlotSeen ==
  ASSUME slots \in [SlotIds -> SlotType], NEW i \in SlotIds, NEW s,
         slots' = [slots EXCEPT ![i] = s]
  PROVE  [j \in SlotIds |-> PoolSlot(slots'[j])]
           = [[j \in SlotIds |-> PoolSlot(slots[j])] EXCEPT ![i] = PoolSlot(s)]
<1>1. slots'[i] = s /\ \A j \in SlotIds : j # i => slots'[j] = slots[j]
  OBVIOUS
<1> QED
  BY <1>1

\* A quote claims a slot nothing was sold from, or leaves the pool alone.
LEMMA QuoteSeen ==
  ASSUME Timely, NEW w \in Writers, NEW dep \in Nat, NEW lots \in Nat, NEW price \in Nat,
         Quote(w, dep, lots, price)
  PROVE  (\E i \in SlotIds : Pool!Claim(i)) \/ UNCHANGED Pool!vars
<1> DEFINE i == SlotFor(w)
           s == QuotedSlot(w, dep)
           r == SlotRecord(w)
<1>1. /\ TypeOK /\ SlotsFit /\ Core
      /\ slots \in [SlotIds -> SlotType]
  BY DEF Timely, Core, TypeOK
<1>2. /\ Expiry > now
      /\ SlotsOf(w) # {} \/ Recyclable # {}
      /\ slots' = [slots EXCEPT ![i] = s]
      /\ UNCHANGED <<pool, totalSold, totalExercised>>
  BY QuoteStep
<1>3. /\ i \in SlotIds /\ r \in SlotType /\ r.writer = w
      /\ \/ r = slots[i]
         \/ r = ClaimedSlot(w) /\ IsRecyclable(slots[i])
  BY <1>1, <1>2, SlotForFacts
<1>4. /\ s \in SlotType /\ s.writer = w /\ s.p = r.p /\ s.scale = r.scale
      /\ s.epoch = r.epoch /\ s.open = r.open /\ s.assigned = r.assigned
      /\ s.sold = r.sold /\ s.settled = r.settled
  BY <1>1, <1>2, QuotedSlotFacts
<1> HIDE DEF i, s, r
<1>5. PoolSlot(s) = PoolSlot(r)
  BY <1>3, <1>4, SameView
<1>6. CASE r = slots[i]
  <2>1. \A j \in SlotIds : PoolSlot(slots'[j]) = PoolSlot(slots[j])
    BY <1>1, <1>2, <1>3, <1>5, <1>6
  <2> QED
    BY <1>2, <2>1, PoolStutters
<1>7. CASE r = ClaimedSlot(w) /\ IsRecyclable(slots[i])
  <2>1. slots[i].sold = 0
    <3>1. IsEmpty(slots[i]) => slots[i] = EmptySlot
      BY <1>1, <1>3, FitFacts
    <3> QED
      BY <1>7, <3>1 DEF IsRecyclable, NothingOwed, EmptySlot
  <2>2. PoolSlot(s) = Pool!FreshSlot(pool)
    <3>1. w # NoWriter
      BY Constants
    <3>2. /\ r.p = pool.p /\ r.scale = pool.scale /\ r.epoch = pool.epoch
          /\ r.open = 0 /\ r.assigned = 0 /\ r.sold = 0 /\ r.settled = FALSE
      BY <1>7 DEF ClaimedSlot, EmptySlot
    <3>3. PoolSlot(r) = [p |-> r.p, scale |-> r.scale, epoch |-> r.epoch, open |-> r.open,
                         assigned |-> r.assigned, sold |-> r.sold, settled |-> r.settled]
      BY <1>3, <3>1, UsedSlot DEF IsEmpty
    <3> QED
      BY <1>5, <3>2, <3>3 DEF Pool!FreshSlot
  <2>3. ~Pool!settling
    <3>1. ~SomeSettled
      BY <1>1, <1>2, NoneSettledYet
    <3> QED
      BY <3>1, SettlingSeen
  <2>4. Pool!Claim(i)
    BY <1>1, <1>2, <1>3, <2>1, <2>2, <2>3, OneSlotSeen, ViewFields DEF Pool!Claim
  <2> QED
    BY <1>3, <2>4
<1> QED
  BY <1>3, <1>6, <1>7

\* A purchase is one sale of the pool, of the lots it took from each slot.
LEMMA BuySeen ==
  ASSUME Timely, Posted, Posted', NEW lots \in Nat, NEW limit \in Nat, Buy(lots, limit)
  PROVE  \E fill \in [SlotIds -> 0 .. MaxLots], filled \in 1 .. MaxQuotes * MaxLots :
           Pool!Sell(fill, filled)
<1> DEFINE take == Taken(lots, limit)
           fill == [i \in SlotIds |-> SumOf(i, take)]
           filled == SumFunction(take)
<1>1. /\ TypeOK /\ SlotsFit /\ Core /\ asks \in Seq(AskType)
      /\ slots \in [SlotIds -> SlotType] /\ pool \in PoolType
  BY TypeFacts DEF Timely, Core, TypeOK
<1>2. /\ Expiry > now /\ lots <= MaxLots /\ filled > 0
      /\ totalSold' = totalSold + filled
      /\ pool' = [pool EXCEPT !.u = @ + filled]
      /\ totalExercised' = totalExercised
  BY BuyStep
<1>3. /\ filled \in Nat /\ SumFunctionOnSet(fill, SlotIds) = filled
      /\ \A i : SumOf(i, take) \in Nat /\ SumOf(i, take) <= Resident(i)
  <2>1. FillsAddUp(take, PremiumsOf(take), FeesOf(PremiumsOf(take)))
    BY <1>1, FillFacts DEF Core, BookInv
  <2> QED
    BY <2>1 DEF FillsAddUp
<1>4. filled <= lots
  BY <1>1, FilledAtMost
<1>5. /\ MaxLots \in Nat /\ MaxQuotes \in Nat /\ seq \in Nat /\ seq' \in Nat
      /\ totalSold \in Nat
  BY <1>1, Constants, TypeFacts, BuyStep
<1>6. totalSold + filled <= MaxQuotes * MaxLots /\ filled <= MaxQuotes * MaxLots
  <2>1. BookLots(asks') \in Nat
    BY <1>1, BookLotsSold
  <2>2. seq' <= MaxQuotes /\ totalSold' + BookLots(asks') <= seq' * MaxLots
    BY DEF Posted
  <2>3. seq' * MaxLots <= MaxQuotes * MaxLots /\ seq' * MaxLots \in Nat
        /\ MaxQuotes * MaxLots \in Nat
    BY <1>5, <2>2, MulMono, MulNat
  <2> HIDE DEF filled
  <2> QED
    BY <1>2, <1>3, <1>5, <2>1, <2>2, <2>3
<1>7. SlotTerms(fill)
  BY <1>3 DEF SlotTerms
<1>8. ASSUME NEW i \in SlotIds
      PROVE  /\ fill[i] \in 0 .. MaxLots
             /\ PoolSlot(slots'[i]) = IF fill[i] > 0
                                      THEN AddOpen(pool, PoolSlot(slots[i]), fill[i])
                                      ELSE PoolSlot(slots[i])
  <2> DEFINE n == SumOf(i, take)
             s == SoldSlot(i, take)
  <2>1. n \in Nat /\ fill[i] = n /\ n <= Resident(i)
    BY <1>3
  <2>2. slots'[i] = s
    BY <1>1, CoreBuy
  <2>3. n <= filled
    <3>1. NatTerms(fill, SlotIds) /\ IsFiniteSet(SlotIds)
      BY <1>7, SlotSum, SlotsAreFinite
    <3> HIDE DEF fill, filled, n
    <3>2. fill[i] <= SumFunctionOnSet(fill, SlotIds)
      BY <3>1, SumNat
    <3> QED
      BY <1>3, <2>1, <3>2
  <2>4. n \in 0 .. MaxLots
    <3> HIDE DEF n, filled
    <3> QED
      BY <1>2, <1>3, <1>4, <1>5, <2>1, <2>3
  <2>5. CASE n = 0
    <3>1. s = slots[i]
      BY <2>5 DEF SoldSlot
    <3> QED
      BY <2>1, <2>2, <2>4, <2>5, <3>1
  <2>6. CASE n > 0
    <3>1. slots[i] \in SlotType /\ ~IsEmpty(slots[i])
      <4>1. /\ slots[i] \in SlotType
            /\ IsEmpty(slots[i]) => slots[i] = EmptySlot
            /\ ~slots[i].settled =>
                 slots[i].withdrawn + slots[i].sold + Resident(i) <= slots[i].deposited
            /\ Resident(i) \in Nat
        BY <1>1, FitFacts
      <4>2. ASSUME IsEmpty(slots[i]) PROVE FALSE
        <5>1. /\ ~slots[i].settled /\ slots[i].withdrawn = 0 /\ slots[i].sold = 0
              /\ slots[i].deposited = 0
          BY <4>1, <4>2 DEF EmptySlot
        <5>2. Resident(i) <= 0
          BY <4>1, <5>1
        <5> HIDE DEF n
        <5> QED
          BY <2>1, <2>6, <4>1, <5>2
      <4> QED
        BY <4>1, <4>2
    <3>2. s \in SlotType
      BY <1>1, SoldSlotFacts DEF Core, BookInv
    <3>3. \E c : s = [AddOpen(pool, slots[i], n) EXCEPT !.premium = c]
      <4>1. n # 0
        BY <2>6
      <4> QED
        BY <4>1 DEF SoldSlot
    <3> HIDE DEF n, s
    <3>4. PoolSlot(s) = AddOpen(pool, PoolSlot(slots[i]), n)
      BY <1>1, <2>1, <3>1, <3>2, <3>3, SaleSeen
    <3> QED
      BY <2>1, <2>2, <2>4, <2>6, <3>4
  <2> QED
    BY <2>1, <2>5, <2>6
<1>9. filled = SumFunction(fill)
  BY <1>3, <1>7, SlotSum
<1>10. ~Pool!settling
  <2>1. ~SomeSettled
    BY <1>1, <1>2, NoneSettledYet
  <2> QED
    BY <2>1, SettlingSeen
<1>11. fill \in [SlotIds -> 0 .. MaxLots]
  BY <1>8
<1>12. filled \in 1 .. MaxQuotes * MaxLots
  <2> HIDE DEF filled
  <2>1. MaxQuotes * MaxLots \in Nat
    BY <1>5, MulNat
  <2> QED
    BY <1>2, <1>3, <1>6, <2>1
<1> HIDE DEF fill, filled
<1>13. filled = Pool!SumFunction(fill)
  <2>1. Pool!SumFunctionOnSet(fill, DOMAIN fill) = SumFunctionOnSet(fill, DOMAIN fill)
    BY Zenon DEF Pool!SumFunctionOnSet, Pool!FoldFunctionOnSet, Pool!MapThenFoldSet,
                 SumFunctionOnSet, FoldFunctionOnSet, MapThenFoldSet
  <2> QED
    BY <1>9, <2>1, Zenon DEF Pool!SumFunction, SumFunction
<1>14. [i \in SlotIds |-> PoolSlot(slots'[i])]
         = [i \in SlotIds |-> IF fill[i] > 0
                              THEN Pool!AddOpen(pool, PoolSlot(slots[i]), fill[i])
                              ELSE PoolSlot(slots[i])]
  BY <1>8, PoolOperators
<1>15. Pool!Sell(fill, filled)
  BY <1>2, <1>6, <1>10, <1>13, <1>14 DEF Pool!Sell
<1> QED
  BY <1>11, <1>12, <1>15

\* The lots the pool holds are within its bound.
LEMMA PoolIsBounded ==
  ASSUME Core, TokensBacked, Posted
  PROVE  pool.u \in Nat /\ pool.u <= MaxQuotes * MaxLots /\ MaxQuotes * MaxLots \in Nat
<1>1. /\ pool.u \in Nat /\ totalSold \in Nat /\ totalExercised \in Nat /\ seq \in Nat
      /\ totalSold = totalExercised + pool.u /\ asks \in Asks
      /\ MaxLots \in Nat /\ MaxQuotes \in Nat
  BY TypeFacts, AskFacts, Constants DEF Core, TokensBacked
<1>2. BookLots(asks) \in Nat
  <2>1. \A i : LotsIn(asks, i) <= LotsIn(asks, i)
    BY <1>1, LotsFacts
  <2> QED
    BY <1>1, <2>1, BookLotsLess
<1>3. seq <= MaxQuotes /\ totalSold + BookLots(asks) <= seq * MaxLots
  BY DEF Posted
<1>4. /\ seq * MaxLots <= MaxQuotes * MaxLots
      /\ seq * MaxLots \in Nat /\ MaxQuotes * MaxLots \in Nat
  BY <1>1, <1>3, MulMono, MulNat
<1> QED
  BY <1>1, <1>2, <1>3, <1>4

\* exercise_core is an exercise of the pool.
LEMMA ExerciseSeen ==
  ASSUME Timely, TokensBacked, Posted, NEW q \in Nat, Exercise(q)
  PROVE  \E n \in 1 .. MaxQuotes * MaxLots : Pool!Exercise(n)
<1>1. /\ ExerciseOpen /\ q > 0 /\ q <= pool.u /\ MovesProduct(pool, q)
      /\ pool' = ApplyExercise(pool, q) /\ totalExercised' = totalExercised + q
      /\ UNCHANGED <<slots, totalSold>>
  BY ExerciseStep
<1>2. /\ pool.u \in Nat /\ pool.u <= MaxQuotes * MaxLots /\ MaxQuotes * MaxLots \in Nat
  BY PoolIsBounded DEF Timely
<1>3. q \in 1 .. MaxQuotes * MaxLots
  BY <1>1, <1>2
<1>4. ~Pool!settling
  <2>1. ~SomeSettled
    BY <1>1, ExerciseBeforeSettlement
  <2> QED
    BY <2>1, SettlingSeen
<1>5. Pool!Exercise(q)
  BY <1>1, <1>4, PoolOperators DEF Pool!Exercise
<1> QED
  BY <1>3, <1>5

\* A sale to a vault is a buy-back of the pool.
LEMMA SellSeen ==
  ASSUME Timely, TokensBacked, Posted, NEW i \in SlotIds, NEW lots \in Nat,
         SellToVault(i, lots)
  PROVE  \E s \in SlotIds, n \in 1 .. MaxQuotes * MaxLots : Pool!BuyBack(s, n)
<1>1. /\ Core /\ SlotsFit /\ pool \in PoolType /\ slots[i] \in SlotType
      /\ slots \in [SlotIds -> SlotType] /\ supply \in Nat /\ supply <= pool.u
  BY TypeFacts DEF Timely, Core, TypeOK, TokensBacked
<1>2. PICK fill \in Nat :
        /\ fill > 0 /\ fill <= supply /\ fill <= FoldedOpen(pool, slots[i])
        /\ Expiry > now /\ slots[i].writer \in Vaults
        /\ slots' = [slots EXCEPT ![i] = BurnOpen(pool, slots[i], fill)]
        /\ pool' = [pool EXCEPT !.u = SatSub(@, fill)]
        /\ totalSold' = SatSub(totalSold, fill)
        /\ UNCHANGED totalExercised
  BY <1>1, CoreSell
<1>3. /\ pool.u \in Nat /\ pool.u <= MaxQuotes * MaxLots /\ MaxQuotes * MaxLots \in Nat
  BY <1>1, PoolIsBounded
<1>4. fill \in 1 .. MaxQuotes * MaxLots /\ fill <= pool.u
  BY <1>1, <1>2, <1>3
<1>5. ~IsEmpty(slots[i])
  BY <1>2, Constants DEF IsEmpty
<1>6. /\ PoolSlot(BurnOpen(pool, slots[i], fill)) = BurnOpen(pool, PoolSlot(slots[i]), fill)
      /\ FoldedOpen(pool, PoolSlot(slots[i])) = FoldedOpen(pool, slots[i])
  BY <1>1, <1>2, <1>5, BurnSeen, FoldSeen
<1>7. ~Pool!settling
  <2>1. ~SomeSettled
    BY <1>1, <1>2, NoneSettledYet
  <2> QED
    BY <2>1, SettlingSeen
<1>8. [j \in SlotIds |-> PoolSlot(slots'[j])]
        = [[j \in SlotIds |-> PoolSlot(slots[j])] EXCEPT
             ![i] = Pool!BurnOpen(pool, PoolSlot(slots[i]), fill)]
  BY <1>1, <1>2, <1>6, OneSlotSeen, PoolOperators
<1>9. /\ [j \in SlotIds |-> PoolSlot(slots[j])][i] = PoolSlot(slots[i])
      /\ Pool!FoldedOpen(pool, PoolSlot(slots[i])) = FoldedOpen(pool, slots[i])
  BY <1>6, PoolOperators
<1>10. pool' = [pool EXCEPT !.u = Pool!SatSub(@, fill)] /\ totalSold' = Pool!SatSub(totalSold, fill)
  BY <1>2, PoolOperators
<1>11. Pool!BuyBack(i, fill)
  BY <1>2, <1>4, <1>7, <1>8, <1>9, <1>10 DEF Pool!BuyBack
<1> QED
  BY <1>4, <1>11

\* Settling a slot settles it in the pool.
LEMMA SettleSeen ==
  ASSUME Timely, NEW i \in SlotIds, Settle(i)
  PROVE  Pool!Settle(i)
<1>1. /\ Core /\ TypeOK /\ slots \in [SlotIds -> SlotType]
  BY DEF Timely, Core, TypeOK
<1>2. /\ ~IsEmpty(slots[i]) /\ ~slots[i].settled
      /\ UNCHANGED <<pool, totalSold, totalExercised>>
  BY DEF Settle
<1>3. slots' = [slots EXCEPT ![i] = SettledSlot(i)]
  BY <1>1, CoreSettle
<1>4. PoolSlot(SettledSlot(i)) = Pool!SettledSlot(pool, PoolSlot(slots[i]))
  BY <1>1, <1>2, SettlementSeen
<1>5. [j \in SlotIds |-> PoolSlot(slots'[j])]
        = [[j \in SlotIds |-> PoolSlot(slots[j])] EXCEPT
             ![i] = Pool!SettledSlot(pool, PoolSlot(slots[i]))]
  BY <1>1, <1>3, <1>4, OneSlotSeen
<1>6. ~[j \in SlotIds |-> PoolSlot(slots[j])][i].settled
  BY <1>2, ViewFields
<1>7. [j \in SlotIds |-> PoolSlot(slots[j])][i] = PoolSlot(slots[i])
  OBVIOUS
<1> QED
  BY <1>2, <1>5, <1>6, <1>7 DEF Pool!Settle

\* Every other step leaves the pool alone.
LEMMA OthersUnseen ==
  ASSUME Core,
         \/ \E k : CancelAsk(k)
         \/ \E i \in SlotIds, lots \in Nat : WithdrawUnsold(i, lots)
         \/ \E i \in SlotIds : ClaimPremium(i)
         \/ \E n : BurnPosition(n)
         \/ CloseSeries
         \/ ObserveHalt
         \/ WorldStep
         \/ UNCHANGED vars
  PROVE  UNCHANGED Pool!vars
<1>1. slots \in [SlotIds -> SlotType]
  BY DEF Core, TypeOK
<1>2. ASSUME UNCHANGED <<slots, pool, totalSold, totalExercised>> PROVE UNCHANGED Pool!vars
  BY <1>2, PoolStutters
<1>3. ASSUME NEW i \in SlotIds, NEW s, slots' = [slots EXCEPT ![i] = s],
             PoolSlot(s) = PoolSlot(slots[i]),
             UNCHANGED <<pool, totalSold, totalExercised>>
      PROVE  UNCHANGED Pool!vars
  BY <1>1, <1>3, PoolStutters
<1>4. ASSUME NEW i \in SlotIds, NEW lots \in Nat, WithdrawUnsold(i, lots)
      PROVE  UNCHANGED Pool!vars
  <2> DEFINE c == slots[i].withdrawn + lots
             s == [slots[i] EXCEPT !.withdrawn = c]
  <2>1. slots' = [slots EXCEPT ![i] = s] /\ c \in Nat
    BY <1>4, CoreWithdraw
  <2>2. UNCHANGED <<pool, totalSold, totalExercised>>
    BY <1>4 DEF WithdrawUnsold
  <2>3. slots[i] \in SlotType
    BY <1>1
  <2> HIDE DEF c
  <2>4. PoolSlot(s) = PoolSlot(slots[i])
    BY <2>3 DEF PoolSlot, IsEmpty, SlotType
  <2> HIDE DEF s
  <2> QED
    BY <1>3, <2>1, <2>2, <2>4
<1>5. ASSUME NEW i \in SlotIds, ClaimPremium(i) PROVE UNCHANGED Pool!vars
  <2> DEFINE s == [slots[i] EXCEPT !.premium = 0]
  <2>1. slots' = [slots EXCEPT ![i] = s]
    BY <1>5, CoreClaim
  <2>2. UNCHANGED <<pool, totalSold, totalExercised>>
    BY <1>5 DEF ClaimPremium
  <2>3. slots[i] \in SlotType
    BY <1>1
  <2>4. PoolSlot(s) = PoolSlot(slots[i])
    BY <2>3 DEF PoolSlot, IsEmpty, SlotType
  <2> HIDE DEF s
  <2> QED
    BY <1>3, <2>1, <2>2, <2>4
<1>6. ASSUME NEW k, CancelAsk(k) PROVE UNCHANGED Pool!vars
  BY <1>2, <1>6 DEF CancelAsk
<1>7. ASSUME NEW n, BurnPosition(n) PROVE UNCHANGED Pool!vars
  BY <1>2, <1>7 DEF BurnPosition
<1>8. ASSUME CloseSeries PROVE UNCHANGED Pool!vars
  BY <1>2, <1>8 DEF CloseSeries
<1>9. ASSUME ObserveHalt PROVE UNCHANGED Pool!vars
  BY <1>2, <1>9 DEF ObserveHalt
<1>10. ASSUME WorldStep \/ UNCHANGED vars PROVE UNCHANGED Pool!vars
  BY <1>2, <1>10, CoreWorld DEF ledger
<1> QED
  BY <1>4, <1>5, <1>6, <1>7, <1>8, <1>9, <1>10

\* What a series that implements the pool keeps true.
InPool == Timely /\ TokensBacked /\ Posted

\* What the refinement needs holds initially and is kept by every timely step.
LEMMA InPoolAlways ==
  /\ Init => InPool
  /\ InPool /\ [TimelyNext]_vars => InPool'
<1>1. ASSUME Init PROVE InPool
  BY <1>1, TimelyAlways, TokensInit, PostedInit DEF InPool
<1>2. ASSUME InPool, [TimelyNext]_vars PROVE InPool'
  <2>1. [Next]_vars
    BY <1>2 DEF TimelyNext
  <2>2. Timely'
    BY <1>2, TimelyAlways DEF InPool
  <2>3. TokensBacked' /\ Posted'
    BY <1>2, <2>1, TokensStep, PostedStep DEF InPool, Timely
  <2> QED
    BY <2>2, <2>3 DEF InPool
<1> QED
  BY <1>1, <1>2

\* A new series is a new pool.
LEMMA PoolInit == ASSUME Init PROVE Pool!Init
<1>1. ASSUME NEW i \in SlotIds PROVE PoolSlot(slots[i]) = Pool!FreshSlot(FreshPool)
  <2>1. slots[i] = EmptySlot
    BY DEF Init
  <2>2. PoolSlot(EmptySlot) = Pool!FreshSlot(FreshPool)
    BY DEF PoolSlot, IsEmpty, EmptySlot, Pool!FreshSlot, FreshPool
  <2> QED
    BY <2>1, <2>2
<1>2. pool = Pool!FreshPool /\ totalSold = 0 /\ totalExercised = 0
  BY PoolOperators DEF Init
<1> QED
  BY <1>1, <1>2, PoolOperators DEF Pool!Init

\* Every timely step of a series is a step of the pool or a stutter.
LEMMA PoolStep ==
  ASSUME InPool, InPool', [TimelyNext]_vars
  PROVE  [Pool!Next]_(Pool!vars)
<1>1. /\ Timely /\ TokensBacked /\ Posted /\ Posted' /\ Core /\ [Next]_vars
  BY DEF InPool, Timely, TimelyNext
<1>2. ASSUME NEW w \in Writers, NEW dep \in Nat, NEW lots \in Nat, NEW price \in Nat,
             Quote(w, dep, lots, price)
      PROVE  [Pool!Next]_(Pool!vars)
  BY <1>1, <1>2, QuoteSeen DEF Pool!Next
<1>3. ASSUME NEW lots \in Nat, NEW limit \in Nat, Buy(lots, limit)
      PROVE  [Pool!Next]_(Pool!vars)
  <2>1. \E fill \in [SlotIds -> 0 .. MaxLots], filled \in 1 .. MaxQuotes * MaxLots :
          Pool!Sell(fill, filled)
    BY <1>1, <1>3, BuySeen
  <2> QED
    BY <2>1 DEF Pool!Next
<1>4. ASSUME NEW q \in Nat, Exercise(q) PROVE [Pool!Next]_(Pool!vars)
  <2>1. \E n \in 1 .. MaxQuotes * MaxLots : Pool!Exercise(n)
    BY <1>1, <1>4, ExerciseSeen
  <2> QED
    BY <2>1 DEF Pool!Next
<1>5. ASSUME NEW i \in SlotIds, NEW lots \in Nat, SellToVault(i, lots)
      PROVE  [Pool!Next]_(Pool!vars)
  <2>1. \E s \in SlotIds, n \in 1 .. MaxQuotes * MaxLots : Pool!BuyBack(s, n)
    BY <1>1, <1>5, SellSeen
  <2> QED
    BY <2>1 DEF Pool!Next
<1>6. ASSUME NEW i \in SlotIds, Settle(i) PROVE [Pool!Next]_(Pool!vars)
  BY <1>1, <1>6, SettleSeen DEF Pool!Next
<1>7. CASE WriterStep
  BY <1>1, <1>2, <1>7, OthersUnseen, Inputs DEF WriterStep
<1>8. CASE HolderStep
  BY <1>1, <1>3, <1>4, <1>5, <1>8, OthersUnseen, Inputs DEF HolderStep
<1>9. CASE CrankStep
  BY <1>1, <1>6, <1>9, OthersUnseen DEF CrankStep
<1>10. CASE WorldStep \/ UNCHANGED vars
  BY <1>1, <1>10, OthersUnseen
<1> QED
  BY <1>1, <1>7, <1>8, <1>9, <1>10 DEF Next

\* With timely halts every step of a series is a step of the pool or leaves it
\* alone: prices, the book, deposits, halts and rounding never reach the
\* assignment, so each promise of AssignmentPool is a promise of the series.
THEOREM SeriesImplementsPool == TimelySpec => ImplementsPool
<1>1. Init => InPool /\ Pool!Init
  BY InPoolAlways, PoolInit
<1>2. InPool /\ [TimelyNext]_vars => InPool'
  BY InPoolAlways
<1>3. InPool /\ InPool' /\ [TimelyNext]_vars => [Pool!Next]_(Pool!vars)
  BY PoolStep
<1> QED
  BY <1>1, <1>2, <1>3, PTL DEF TimelySpec, ImplementsPool, Pool!Spec

-----------------------------------------------------------------------------
(* The promises of the pool, kept by the series.                           *)

\* The promises proved of the pool, for the pool of the series.
Promise == INSTANCE AssignmentPoolProofs WITH
             Slots <- SlotIds,
             MaxFill <- MaxLots,
             MaxSold <- MaxQuotes * MaxLots,
             slots <- [i \in SlotIds |-> PoolSlot(slots[i])]

\* All the lots the series can ever sell are fewer than the fourth power of
\* P_SCALE: 2^64 sequence numbers of at most 1e13 lots each, below 1e36.
LotsFit == MaxQuotes * MaxLots < RescaleFactor(4)

\* The bounds and constants the pool asks for are the series' own.
LEMMA PromiseAssumptions ==
  ASSUME LotsFit
  PROVE  /\ Promise!PoolBounds /\ Promise!LotsBelowScale
         /\ Promise!ProductConstants /\ Promise!UnitConstants
<1>1. Promise!RescaleFactor(4) = RescaleFactor(4)
  BY DEF Promise!RescaleFactor, RescaleFactor
<1>2. Promise!IsFiniteSet(SlotIds)
  BY SlotsAreFinite DEF IsFiniteSet, Promise!IsFiniteSet
<1>3. MaxLots \in Nat /\ MaxQuotes * MaxLots \in Nat
  BY Constants, MulNat
<1>4. Promise!PoolBounds
  BY <1>3 DEF Promise!PoolBounds
<1>5. Promise!LotsBelowScale
  BY <1>1, <1>2 DEF LotsFit, Promise!LotsBelowScale
<1>6. Promise!ProductConstants /\ Promise!UnitConstants
  BY ProductConstants, UnitConstants DEF Promise!ProductConstants, Promise!UnitConstants
<1> QED
  BY <1>4, <1>5, <1>6

\* The pool of the series starts like the pool of the promises,
LEMMA PromiseInit == Pool!Init => Promise!Init
BY DEF Pool!Init, Promise!Init, Pool!FreshSlot, Promise!FreshSlot, Pool!FreshPool, Promise!FreshPool

\* has the same arithmetic
LEMMA PromiseOperators ==
  /\ \A pl, w : Promise!SnapshotCurrent(pl, w) = Pool!SnapshotCurrent(pl, w)
  /\ \A pl, w : Promise!FoldedOpen(pl, w) = Pool!FoldedOpen(pl, w)
  /\ \A pl, w : Promise!Fold(pl, w) = Pool!Fold(pl, w)
  /\ \A pl, w, n : Promise!AddOpen(pl, w, n) = Pool!AddOpen(pl, w, n)
  /\ \A pl, w, n : Promise!BurnOpen(pl, w, n) = Pool!BurnOpen(pl, w, n)
  /\ \A pl, q : Promise!MovesProduct(pl, q) = Pool!MovesProduct(pl, q)
  /\ \A pl, q : Promise!ApplyExercise(pl, q) = Pool!ApplyExercise(pl, q)
  /\ \A a, b : Promise!SatSub(a, b) = Pool!SatSub(a, b)
<1>1. \A a, b : Promise!SatSub(a, b) = Pool!SatSub(a, b)
  BY DEF Promise!SatSub, Pool!SatSub
<1>2. \A a, b : Promise!CeilDiv(a, b) = Pool!CeilDiv(a, b)
  BY DEF Promise!CeilDiv, Pool!CeilDiv
<1>3. \A a, b : Promise!LesserOf(a, b) = Pool!LesserOf(a, b)
  BY DEF Promise!LesserOf, Pool!LesserOf
<1>4. \A d : Promise!RescaleFactor(d) = Pool!RescaleFactor(d)
  BY DEF Promise!RescaleFactor, Pool!RescaleFactor
<1>5. \A pl, w : Promise!SnapshotCurrent(pl, w) = Pool!SnapshotCurrent(pl, w)
  BY DEF Promise!SnapshotCurrent, Pool!SnapshotCurrent
<1>6. \A pl, w : Promise!Unassigned(pl, w) = Pool!Unassigned(pl, w)
  BY <1>2, <1>3, <1>4, Zenon DEF Promise!Unassigned, Pool!Unassigned
<1>7. \A pl, w : Promise!FoldedOpen(pl, w) = Pool!FoldedOpen(pl, w)
  BY <1>5, <1>6, Zenon DEF Promise!FoldedOpen, Pool!FoldedOpen
<1>8. \A pl, w : Promise!Fold(pl, w) = Pool!Fold(pl, w)
  BY <1>5, <1>7, Zenon DEF Promise!Fold, Pool!Fold
<1>9. \A pl, w, n : Promise!AddOpen(pl, w, n) = Pool!AddOpen(pl, w, n)
  BY <1>8, Zenon DEF Promise!AddOpen, Pool!AddOpen
<1>10. \A pl, w, n : Promise!BurnOpen(pl, w, n) = Pool!BurnOpen(pl, w, n)
  BY <1>1, <1>8, Zenon DEF Promise!BurnOpen, Pool!BurnOpen
<1>11. \A pl, q : Promise!MovesProduct(pl, q) = Pool!MovesProduct(pl, q)
  BY DEF Promise!MovesProduct, Pool!MovesProduct
<1>12. \A pl, q : Promise!NextProduct(pl, q) = Pool!NextProduct(pl, q)
  BY <1>2, Zenon DEF Promise!NextProduct, Pool!NextProduct
<1>13. \A pl, q : Promise!Rescale(pl, q) = Pool!Rescale(pl, q)
  BY <1>12, Zenon DEF Promise!Rescale, Pool!Rescale
<1>14. \A pl : Promise!ConsumePool(pl) = Pool!ConsumePool(pl)
  BY DEF Promise!ConsumePool, Pool!ConsumePool
<1>15. \A pl, q : Promise!ApplyExercise(pl, q) = Pool!ApplyExercise(pl, q)
  BY <1>13, <1>14, Zenon DEF Promise!ApplyExercise, Pool!ApplyExercise
<1> QED
  BY <1>1, <1>5, <1>7, <1>8, <1>9, <1>10, <1>11, <1>15

\* and the same sums,
LEMMA PromiseSums == \A f : Promise!SumFunction(f) = Pool!SumFunction(f)
<1>1. ASSUME NEW f, NEW S PROVE Promise!SumFunctionOnSet(f, S) = Pool!SumFunctionOnSet(f, S)
  BY Zenon DEF Pool!SumFunctionOnSet, Pool!FoldFunctionOnSet, Pool!MapThenFoldSet,
       Promise!SumFunctionOnSet, Promise!FoldFunctionOnSet, Promise!MapThenFoldSet
<1> QED
  BY <1>1, Zenon DEF Promise!SumFunction, Pool!SumFunction

\* is the same state
LEMMA PromiseState == Promise!vars = Pool!vars /\ Promise!settling = Pool!settling
BY DEF Promise!vars, Pool!vars, Promise!settling, Pool!settling

\* and takes the same steps.
LEMMA PromiseStep == [Pool!Next]_(Pool!vars) => [Promise!Next]_(Promise!vars)
<1>1. ASSUME NEW s, Pool!Claim(s) PROVE Promise!Claim(s)
  BY <1>1, PromiseState DEF Pool!Claim, Promise!Claim, Pool!FreshSlot, Promise!FreshSlot
<1>2. ASSUME NEW f, NEW n, Pool!Sell(f, n) PROVE Promise!Sell(f, n)
  BY <1>2, PromiseState, PromiseOperators, PromiseSums, Zenon DEF Pool!Sell, Promise!Sell
<1>3. ASSUME NEW q, Pool!Exercise(q) PROVE Promise!Exercise(q)
  BY <1>3, PromiseState, PromiseOperators, Zenon DEF Pool!Exercise, Promise!Exercise
<1>4. ASSUME NEW s, NEW n, Pool!BuyBack(s, n) PROVE Promise!BuyBack(s, n)
  BY <1>4, PromiseState, PromiseOperators, Zenon DEF Pool!BuyBack, Promise!BuyBack
<1>5. ASSUME NEW s, Pool!Settle(s) PROVE Promise!Settle(s)
  BY <1>5, PromiseState, PromiseOperators, Zenon
     DEF Pool!Settle, Promise!Settle, Pool!SettledSlot, Promise!SettledSlot
<1>6. ASSUME Pool!Next PROVE Promise!Next
  BY <1>1, <1>2, <1>3, <1>4, <1>5, <1>6 DEF Pool!Next, Promise!Next
<1>7. Promise!vars = Pool!vars /\ Promise!vars' = Pool!vars'
  BY DEF Promise!vars, Pool!vars
<1> QED
  BY <1>6, <1>7

\* So its writers are promised the same.
LEMMA PromiseHolds == Promise!NoOverAssignment => Pool!NoOverAssignment
BY PromiseOperators, PromiseSums, Zenon
   DEF Promise!NoOverAssignment, Pool!NoOverAssignment, Promise!AssignedNow, Pool!AssignedNow

\* Whatever purchases, exercises, buy-backs, halts and settlements follow each
\* other in a series with timely halts, its writers together are never assigned
\* more lots than holders exercised.
THEOREM SeriesNeverOverAssigns ==
  ASSUME LotsFit
  PROVE  TimelySpec => []Pool!NoOverAssignment
<1>1. Promise!Spec => []Promise!NoOverAssignment
  BY PromiseAssumptions, Promise!NeverOverAssigned
<1>2. TimelySpec => Pool!Spec
  BY SeriesImplementsPool DEF ImplementsPool
<1>3. Pool!Spec => Promise!Spec
  BY PromiseInit, PromiseStep, PTL DEF Pool!Spec, Promise!Spec
<1> QED
  BY <1>1, <1>2, <1>3, PromiseHolds, PTL

-----------------------------------------------------------------------------
(* What settlement pays.                                                   *)

\* A holder who grosses up a delivery delivers at least what was asked for.
LEMMA DeliveredEnough ==
  ASSUME NEW raw \in Nat
  PROVE  Delivered(raw) \in Nat /\ raw <= Delivered(raw)
<1> DEFINE rest == BPS - MintFeeBps
           gross == CeilDiv(raw * BPS, rest)
           sent == raw + MintFee(gross)
<1>1. /\ BPS \in Nat /\ BPS > 0 /\ MintFeeBps \in Nat /\ rest \in Nat /\ rest > 0
      /\ rest + MintFeeBps = BPS
  BY Constants
<1>2. raw * BPS \in Nat /\ gross \in Nat /\ raw * BPS <= gross * rest
  BY <1>1, MulNat, CeilDivBounds
<1>3. ASSUME NEW a \in Nat
      PROVE  /\ MintFee(a) \in Nat /\ a * MintFeeBps \in Nat
             /\ a * MintFeeBps <= MintFee(a) * BPS
             /\ \A m \in Nat : a * MintFeeBps <= m * BPS => MintFee(a) <= m
  <2> DEFINE n == a * MintFeeBps
             c == CeilDiv(n, BPS)
  <2>1. n \in Nat
    BY <1>1, MulNat
  <2>2. MintFee(a) = c
    BY Zenon DEF MintFee
  <2> HIDE DEF n
  <2>3. c \in Nat /\ n <= c * BPS /\ c * BPS < n + BPS
    BY <1>1, <2>1, CeilDivBounds
  <2> HIDE DEF c
  <2>4. ASSUME NEW m \in Nat, n <= m * BPS PROVE c <= m
    <3>1. c * BPS < (m + 1) * BPS
      <4>1. (m + 1) * BPS = m * BPS + BPS /\ m * BPS \in Nat
        BY <1>1, MulNat
      <4> QED
        BY <1>1, <2>1, <2>3, <2>4, <4>1
    <3>2. c < m + 1
      BY <1>1, <2>3, <3>1, MulCancelInt
    <3> QED
      BY <2>3, <3>2
  <2>5. MintFee(a) \in Nat /\ n <= MintFee(a) * BPS
    BY <2>2, <2>3
  <2>6. \A m \in Nat : n <= m * BPS => MintFee(a) <= m
    BY <2>2, <2>4
  <2> QED
    BY <2>1, <2>5, <2>6 DEF n
<1>4. raw <= gross /\ gross * MintFeeBps <= (gross - raw) * BPS
  <2>1. rest <= BPS
    BY <1>1
  <2> HIDE DEF rest, gross
  <2>2. gross * rest <= gross * BPS
    <3>1. ASSUME NEW a \in Nat, NEW b \in Nat, NEW c \in Nat, b <= c PROVE a * b <= a * c
      BY <3>1
    <3> QED
      BY <1>1, <1>2, <2>1, <3>1
  <2>3. gross * rest \in Nat /\ gross * BPS \in Nat
    BY <1>1, <1>2, MulNat
  <2>4. raw * BPS <= gross * BPS
    BY <1>2, <2>2, <2>3
  <2>5. raw <= gross
    <3>1. ASSUME gross < raw PROVE FALSE
      <4>1. gross * BPS < raw * BPS
        BY <1>1, <1>2, <3>1, MulStrict
      <4> QED
        BY <1>2, <2>3, <2>4, <4>1
    <3> QED
      BY <1>2, <3>1
  <2>6. /\ gross * BPS = gross * rest + gross * MintFeeBps
        /\ (gross - raw) * BPS = gross * BPS - raw * BPS
    <3>1. ASSUME NEW a \in Nat, NEW b \in Nat, NEW c \in Nat PROVE a * (b + c) = a * b + a * c
      OBVIOUS
    <3>2. ASSUME NEW a \in Nat, NEW b \in Nat, NEW c \in Nat PROVE (a - b) * c = a * c - b * c
      OBVIOUS
    <3> QED
      BY <1>1, <1>2, <3>1, <3>2
  <2>7. gross * MintFeeBps \in Nat
    BY <1>1, <1>2, MulNat
  <2> QED
    BY <1>2, <2>3, <2>5, <2>6, <2>7
<1>5. MintFee(gross) \in Nat /\ MintFee(gross) <= gross - raw
  <2> HIDE DEF gross
  <2>1. gross - raw \in Nat
    BY <1>2, <1>4
  <2> QED
    BY <1>2, <1>3, <1>4, <2>1
<1>6. sent \in Nat /\ sent <= gross
  <2> HIDE DEF gross
  <2> QED
    BY <1>2, <1>5
<1>7. MintFee(sent) <= MintFee(gross)
  <2> HIDE DEF gross, sent, rest
  <2>1. sent * MintFeeBps <= gross * MintFeeBps
    BY <1>1, <1>2, <1>6, MulMono
  <2>2. /\ sent * MintFeeBps \in Nat /\ gross * MintFeeBps \in Nat
        /\ gross * MintFeeBps <= MintFee(gross) * BPS
    BY <1>2, <1>3, <1>6
  <2>3. MintFee(gross) * BPS \in Nat
    BY <1>1, <1>5, MulNat
  <2>4. sent * MintFeeBps <= MintFee(gross) * BPS
    BY <2>1, <2>2, <2>3
  <2> QED
    BY <1>3, <1>5, <1>6, <2>4
<1>8. Delivered(raw) = sent - MintFee(sent)
  BY Zenon DEF Delivered, InverseMintFee, Arrived
<1>9. Delivered(raw) \in Nat
  BY DeliveredIsNumber
<1>10. sent = raw + MintFee(gross)
  OBVIOUS
<1>11. MintFee(sent) \in Nat
  <2> HIDE DEF sent
  <2> QED
    BY <1>3, <1>6
<1> HIDE DEF gross, sent
<1> QED
  BY <1>5, <1>6, <1>7, <1>8, <1>9, <1>10, <1>11

\* What a holder pays to exercise some lots.
PaidFor(q) == IF IsCall THEN UsdcOwedCeil(q, Strike) ELSE Delivered(q * RawPerLot)

\* An exercise pays in what it adds to what settlement owes.
LEMMA ExercisePaysIn ==
  ASSUME NEW n \in Nat, NEW q \in Nat
  PROVE  /\ SettlementOwed(n) \in Nat /\ SettlementOwed(n + q) \in Nat /\ PaidFor(q) \in Nat
         /\ SettlementOwed(n + q) <= SettlementOwed(n) + PaidFor(q)
<1>1. n + q \in Nat /\ SettlementOwed(n) \in Nat /\ SettlementOwed(n + q) \in Nat
  <2>1. ASSUME NEW k \in Nat PROVE SettlementOwed(k) \in Nat
    BY CollateralFacts
  <2> QED
    BY <2>1
<1>2. CASE IsCall
  <2> DEFINE a == n * Strike
             b == q * Strike
  <2>1. a \in Nat /\ b \in Nat /\ (n + q) * Strike = a + b /\ LOT6 \in Nat /\ LOT6 > 0
    BY Constants, MulNat
  <2>2. SettlementOwed(n) = a \div LOT6 /\ PaidFor(q) = CeilDiv(b, LOT6)
    BY <1>2 DEF SettlementOwed, UsdcPaidFloor, UsdcOwedCeil, PaidFor
  <2>3. SettlementOwed(n + q) = ((n + q) * Strike) \div LOT6
    BY <1>2 DEF SettlementOwed, UsdcPaidFloor
  <2> HIDE DEF a, b
  <2>4. (a + b) \div LOT6 <= a \div LOT6 + CeilDiv(b, LOT6) /\ CeilDiv(b, LOT6) \in Nat
    BY <2>1, FloorOfSum, CeilDivBounds
  <2> QED
    BY <1>1, <2>1, <2>2, <2>3, <2>4
<1>3. CASE ~IsCall
  <2>1. q * RawPerLot \in Nat /\ n * RawPerLot \in Nat
        /\ (n + q) * RawPerLot = n * RawPerLot + q * RawPerLot
    BY Constants, MulNat
  <2>2. Delivered(q * RawPerLot) \in Nat /\ q * RawPerLot <= Delivered(q * RawPerLot)
    BY <2>1, DeliveredEnough
  <2>3. /\ SettlementOwed(n) = n * RawPerLot /\ SettlementOwed(n + q) = (n + q) * RawPerLot
        /\ PaidFor(q) = Delivered(q * RawPerLot)
    BY <1>3 DEF SettlementOwed, PaidFor
  <2> QED
    BY <2>1, <2>2, <2>3
<1> QED
  BY <1>2, <1>3, <1>1

\* What the settlement vault has paid each writer so far.
PaidLeg == [i \in SlotIds |-> IF slots[i].settled THEN SettlementOwed(slots[i].assigned) ELSE 0]
\* What it would pay each if all settled now.
OwedLeg == [i \in SlotIds |-> SettlementOwed(Pool!AssignedNow(i))]
PaidOut == SumFunctionOnSet(PaidLeg, SlotIds)

\* While the series is live, what the settlement vault holds and what it has
\* paid the writers cover every contract exercised so far.
SettlementInv == live => SettlementOwed(totalExercised) <= bal.settlement + PaidOut

\* What is assigned to a slot now, in the series' own terms.
LEMMA AssignedSeen ==
  ASSUME Core, NEW i \in SlotIds
  PROVE  /\ ~IsEmpty(slots[i]) => Pool!AssignedNow(i) = AssignedAt(i)
         /\ Pool!AssignedNow(i) \in Nat /\ slots[i].assigned \in Nat
         /\ slots[i].assigned <= Pool!AssignedNow(i)
<1> DEFINE s == slots[i]
           v == PoolSlot(s)
<1>1. s \in SlotType /\ pool \in PoolType
  BY TypeFacts DEF Core
<1>2. /\ s.open \in Nat /\ s.assigned \in Nat /\ s.p \in Nat /\ s.scale \in Nat
  BY <1>1, SlotFields
<1>3. [j \in SlotIds |-> PoolSlot(slots[j])][i] = v
  OBVIOUS
<1>4. Pool!AssignedNow(i) = v.assigned + v.open - FoldedOpen(pool, v)
  BY <1>3, PoolOperators, Zenon DEF Pool!AssignedNow
<1>5. v.assigned = s.assigned /\ v.open = s.open
  BY ViewFields
<1>6. v.p \in Nat /\ v.scale \in Nat
  BY <1>1, <1>2, ProductConstants DEF PoolSlot, FreshPool
<1>7. FoldedOpen(pool, v) \in 0 .. v.open
  <2> HIDE DEF v
  <2> QED
    BY <1>1, <1>2, <1>5, <1>6, FoldedOpenBounds
<1>8. ~IsEmpty(s) => FoldedOpen(pool, v) = FoldedOpen(pool, s)
  BY <1>1, FoldSeen
<1>9. AssignedAt(i) = s.assigned + (s.open - FoldedOpen(pool, s))
  <2>1. CASE SnapshotCurrent(pool, s)
    <3>1. Fold(pool, s) = s /\ FoldedOpen(pool, s) = s.open
      BY <2>1 DEF Fold, FoldedOpen
    <3> QED
      BY <1>2, <3>1 DEF AssignedAt
  <2>2. CASE ~SnapshotCurrent(pool, s)
    <3> DEFINE o == FoldedOpen(pool, s)
               a == s.assigned + (s.open - o)
    <3>1. Fold(pool, s) = [s EXCEPT !.assigned = a, !.open = o,
                      !.p = pool.p, !.scale = pool.scale, !.epoch = pool.epoch]
      BY <2>2 DEF Fold
    <3> HIDE DEF o, a
    <3>2. Fold(pool, s).assigned = a
      BY <1>1, <3>1 DEF SlotType
    <3> QED
      BY <3>2 DEF AssignedAt, a, o
  <2> QED
    BY <2>1, <2>2
<1> HIDE DEF v, s
<1>10. Pool!AssignedNow(i) \in Nat
  BY <1>2, <1>4, <1>5, <1>7
<1>11. ~IsEmpty(s) => Pool!AssignedNow(i) = AssignedAt(i)
  BY <1>2, <1>4, <1>5, <1>7, <1>8, <1>9
<1>12. s.assigned <= Pool!AssignedNow(i)
  BY <1>2, <1>4, <1>5, <1>7
<1> QED
  BY <1>2, <1>10, <1>11, <1>12 DEF s

\* More lots are owed no less.
LEMMA OwedMonotone ==
  ASSUME NEW m \in Nat, NEW n \in Nat, m <= n
  PROVE  /\ SettlementOwed(m) \in Nat /\ SettlementOwed(n) \in Nat
         /\ SettlementOwed(m) <= SettlementOwed(n)
<1>1. /\ m * Strike \in Nat /\ n * Strike \in Nat /\ m * Strike <= n * Strike
      /\ m * RawPerLot \in Nat /\ n * RawPerLot \in Nat /\ m * RawPerLot <= n * RawPerLot
  BY Constants, MulNat, MulMono
<1>2. ASSUME NEW a \in Nat, NEW b \in Nat, a <= b
      PROVE  a \div LOT6 \in Nat /\ b \div LOT6 \in Nat /\ a \div LOT6 <= b \div LOT6
  <2>1. /\ a \div LOT6 \in Nat /\ (a \div LOT6) * LOT6 <= a
        /\ b \div LOT6 \in Nat /\ b < (b \div LOT6) * LOT6 + LOT6
    BY Constants, DivBounds
  <2> DEFINE x == a \div LOT6
             y == b \div LOT6
  <2>2. x \in Nat /\ y \in Nat /\ x * LOT6 <= a /\ b < y * LOT6 + LOT6
    BY <2>1
  <2> HIDE DEF x, y
  <2>3. x * LOT6 < (y + 1) * LOT6
    <3>1. x * LOT6 \in Nat /\ y * LOT6 \in Nat /\ (y + 1) * LOT6 = y * LOT6 + LOT6
          /\ LOT6 \in Nat
      BY <2>2, Constants, MulNat
    <3> QED
      BY <1>2, <2>2, <3>1
  <2>4. x < y + 1
    BY <2>2, <2>3, Constants, MulCancelInt
  <2>5. x <= y
    BY <2>2, <2>4
  <2> QED
    BY <2>2, <2>5 DEF x, y
<1>3. CASE IsCall
  BY <1>1, <1>2, <1>3 DEF SettlementOwed, UsdcPaidFloor
<1>4. CASE ~IsCall
  BY <1>1, <1>4 DEF SettlementOwed
<1> QED
  BY <1>3, <1>4

\* Paying the writers one by one costs no more than paying for all their lots
\* at once.
LEMMA OwedTogether ==
  ASSUME Core, Pool!NoOverAssignment, totalExercised \in Nat
  PROVE  /\ NatTerms(OwedLeg, SlotIds)
         /\ SumFunctionOnSet(OwedLeg, SlotIds) \in Nat
         /\ SumFunctionOnSet(OwedLeg, SlotIds) <= SettlementOwed(totalExercised)
<1> DEFINE A == [s \in SlotIds |-> Pool!AssignedNow(s)]
           total == SumFunctionOnSet(A, SlotIds)
<1>1. /\ SlotTerms(A) /\ \A i \in SlotIds : A[i] = Pool!AssignedNow(i)
      /\ DOMAIN A = SlotIds
  BY AssignedSeen DEF SlotTerms
<1>2. Pool!SumFunction(A) <= totalExercised
  BY Zenon DEF Pool!NoOverAssignment
<1> HIDE DEF A
<1>3. Pool!SumFunction(A) = total
  <2>1. Pool!SumFunctionOnSet(A, DOMAIN A) = SumFunctionOnSet(A, DOMAIN A)
    BY Zenon DEF Pool!SumFunctionOnSet, Pool!FoldFunctionOnSet, Pool!MapThenFoldSet,
                 SumFunctionOnSet, FoldFunctionOnSet, MapThenFoldSet
  <2> QED
    BY <1>1, <2>1, Zenon DEF Pool!SumFunction
<1>4. IsFiniteSet(SlotIds) /\ NatTerms(A, SlotIds)
  BY <1>1, SlotSum, SlotsAreFinite
<1>5. total \in Nat /\ total <= totalExercised
  BY <1>2, <1>3, <1>4, SumNat
<1>6. \A i \in SlotIds : OwedLeg[i] = SettlementOwed(A[i])
  BY <1>1 DEF OwedLeg
<1> DEFINE owed == SumFunctionOnSet(OwedLeg, SlotIds)
           perLot == IF IsCall THEN Strike ELSE RawPerLot
           per == IF IsCall THEN LOT6 ELSE 1
<1>7. perLot \in Nat /\ per \in Nat /\ per > 0
  BY Constants
<1>8. ASSUME NEW n \in Nat PROVE SettlementOwed(n) = (n * perLot) \div per
  <2>1. CASE IsCall
    BY <2>1 DEF SettlementOwed, UsdcPaidFloor
  <2>2. CASE ~IsCall
    <3>1. n * RawPerLot \in Nat
      BY Constants, MulNat
    <3>2. ASSUME NEW k \in Nat PROVE k \div 1 = k
      OBVIOUS
    <3> QED
      BY <2>2, <3>1, <3>2 DEF SettlementOwed
  <2> QED
    BY <2>1, <2>2
<1> HIDE DEF perLot, per, total
<1>9. \A i \in SlotIds : OwedLeg[i] = (A[i] * perLot) \div per
  BY <1>4, <1>6, <1>8 DEF NatTerms
<1>10. /\ NatTerms(OwedLeg, SlotIds)
       /\ owed <= (SumFunctionOnSet(A, SlotIds) * perLot) \div per
  <2> HIDE DEF owed
  <2>1. /\ NatTerms(OwedLeg, SlotIds)
        /\ SumFunctionOnSet(OwedLeg, SlotIds) <= (SumFunctionOnSet(A, SlotIds) * perLot) \div per
    BY <1>4, <1>7, <1>9, SumOfFloors
  <2> QED
    BY <2>1 DEF owed
<1>11. owed \in Nat
  BY <1>4, <1>10, SumNat
<1>12. owed <= SettlementOwed(total)
  <2> HIDE DEF owed
  <2> QED
    BY <1>5, <1>8, <1>10 DEF total
<1>13. SettlementOwed(total) <= SettlementOwed(totalExercised)
       /\ SettlementOwed(total) \in Nat /\ SettlementOwed(totalExercised) \in Nat
  BY <1>5, OwedMonotone
<1> QED
  BY <1>10, <1>11, <1>12, <1>13

\* What has been paid is a number, slot by slot and together.
LEMMA PaidLegFacts ==
  ASSUME Core
  PROVE  /\ NatTerms(PaidLeg, SlotIds) /\ PaidOut \in Nat
         /\ \A i \in SlotIds : ~slots[i].settled => PaidLeg[i] = 0
<1>1. ASSUME NEW i \in SlotIds PROVE PaidLeg[i] \in Nat
  <2>1. slots[i].assigned \in Nat
    BY TypeFacts, SlotFields DEF Core
  <2>2. SettlementOwed(slots[i].assigned) \in Nat
    BY <2>1, OwedMonotone
  <2> QED
    BY <2>2 DEF PaidLeg
<1>2. NatTerms(PaidLeg, SlotIds)
  BY <1>1 DEF NatTerms
<1>3. PaidOut \in Nat
  BY <1>2, SlotsAreFinite, SumNat DEF PaidOut
<1> QED
  BY <1>2, <1>3 DEF PaidLeg

\* The vault always holds what a slot that has not settled is owed.
LEMMA NextIsFunded ==
  ASSUME Core, Pool!NoOverAssignment, SettlementInv, live,
         NEW i \in SlotIds, ~slots[i].settled, ~IsEmpty(slots[i])
  PROVE  /\ SettlementOwed(AssignedAt(i)) \in Nat
         /\ SettlementOwed(AssignedAt(i)) <= bal.settlement
<1> DEFINE owed == SettlementOwed(AssignedAt(i))
           mixed == [PaidLeg EXCEPT ![i] = owed]
<1>1. totalExercised \in Nat /\ bal.settlement \in Nat
  BY TypeFacts DEF Core
<1>2. /\ AssignedAt(i) \in Nat /\ AssignedAt(i) = Pool!AssignedNow(i)
  BY AssignedSeen
<1>3. owed \in Nat /\ OwedLeg[i] = owed
  BY <1>2, OwedMonotone DEF OwedLeg
<1>4. /\ NatTerms(OwedLeg, SlotIds) /\ SumFunctionOnSet(OwedLeg, SlotIds) \in Nat
      /\ SumFunctionOnSet(OwedLeg, SlotIds) <= SettlementOwed(totalExercised)
      /\ SettlementOwed(totalExercised) \in Nat
  BY <1>1, OwedTogether, OwedMonotone
<1>5. /\ NatTerms(PaidLeg, SlotIds) /\ PaidOut \in Nat /\ PaidLeg[i] = 0
  BY PaidLegFacts
<1> HIDE DEF owed
<1>6. DOMAIN PaidLeg = SlotIds
  BY DEF PaidLeg
<1>7. mixed[i] = owed /\ \A j \in SlotIds \ {i} : mixed[j] = PaidLeg[j]
  BY <1>6
<1>8. ASSUME NEW j \in SlotIds PROVE mixed[j] \in Nat /\ mixed[j] <= OwedLeg[j]
  <2>1. CASE j = i
    BY <1>3, <1>7, <2>1
  <2>2. CASE j # i
    <3>1. /\ slots[j].assigned \in Nat /\ Pool!AssignedNow(j) \in Nat
          /\ slots[j].assigned <= Pool!AssignedNow(j)
      BY AssignedSeen
    <3>2. /\ SettlementOwed(slots[j].assigned) <= SettlementOwed(Pool!AssignedNow(j))
          /\ SettlementOwed(Pool!AssignedNow(j)) \in Nat
          /\ SettlementOwed(slots[j].assigned) \in Nat
      BY <3>1, OwedMonotone
    <3>3. PaidLeg[j] \in Nat /\ PaidLeg[j] <= OwedLeg[j]
      BY <3>2 DEF PaidLeg, OwedLeg
    <3> QED
      BY <1>7, <2>2, <3>3
  <2> QED
    BY <2>1, <2>2
<1> HIDE DEF mixed
<1>9. NatTerms(mixed, SlotIds)
  BY <1>8 DEF NatTerms
<1>10. IntTerms(mixed, SlotIds) /\ IntTerms(PaidLeg, SlotIds) /\ IntTerms(OwedLeg, SlotIds)
  BY <1>4, <1>5, <1>9, NatTermsAreInts
<1>11. SumFunctionOnSet(mixed, SlotIds) = PaidOut - PaidLeg[i] + mixed[i]
  BY <1>7, <1>10, SlotsAreFinite, SumUpdate DEF PaidOut
<1>12. SumFunctionOnSet(mixed, SlotIds) <= SumFunctionOnSet(OwedLeg, SlotIds)
  BY <1>8, <1>10, SlotsAreFinite, SumMonotone
<1>13. PaidOut + owed <= SumFunctionOnSet(OwedLeg, SlotIds)
  BY <1>3, <1>5, <1>7, <1>11, <1>12
<1>14. SettlementOwed(totalExercised) <= bal.settlement + PaidOut
  BY DEF SettlementInv
<1>15. owed <= bal.settlement
  BY <1>1, <1>3, <1>4, <1>5, <1>13, <1>14
<1> QED
  BY <1>3, <1>15 DEF owed

\* A step that leaves the vault, the exercises and what was paid keeps it.
LEMMA SettlementKept ==
  ASSUME SettlementInv, live' => live, totalExercised' = totalExercised,
         bal'.settlement = bal.settlement,
         \A i \in SlotIds :
           /\ slots'[i].settled = slots[i].settled
           /\ slots[i].settled => slots'[i].assigned = slots[i].assigned
  PROVE  SettlementInv'
<1>1. PaidLeg' = PaidLeg
  BY DEF PaidLeg
<1>2. PaidOut' = PaidOut
  BY <1>1 DEF PaidOut
<1> QED
  BY <1>2 DEF SettlementInv

\* While the series trades and nothing has settled, only a settlement settles.
LEMMA StillUnsettled ==
  ASSUME Core, SlotsFit, Expiry > now, [Next]_vars, ~\E i \in SlotIds : Settle(i)
  PROVE  \A i \in SlotIds : ~slots[i].settled /\ ~slots'[i].settled
<1>1. \A i \in SlotIds : ~slots[i].settled
  BY NoneSettledYet DEF SomeSettled
<1>2. ASSUME NEW i \in SlotIds, slots'[i].settled PROVE FALSE
  <2>1. Settles(i)
    BY <1>1, <1>2 DEF Settles
  <2> QED
    BY <2>1, OnlySettleSettles
<1> QED
  BY <1>1, <1>2

\* An exercise brings the vault what it adds to what is owed.
LEMMA SettlementExercise ==
  ASSUME Core, SettlementInv, NEW q \in Nat, Exercise(q)
  PROVE  SettlementInv'
<1>1. PICK paid :
        /\ paid = IF IsCall THEN UsdcOwedCeil(q, Strike) ELSE Delivered(q * RawPerLot)
        /\ live
        /\ bal' = [bal EXCEPT !.settlement = @ + paid,
                              !.collateral = @ - CollateralFloor(q)]
        /\ totalExercised' = totalExercised + q
        /\ slots' = slots
  BY ExerciseStep
<1>2. paid = PaidFor(q)
  BY <1>1 DEF PaidFor
<1>3. /\ totalExercised \in Nat /\ bal.settlement \in Nat
      /\ bal \in BalanceType
  BY TypeFacts DEF Core, BalanceType
<1>4. bal'.settlement = bal.settlement + paid
  BY <1>1, <1>3 DEF BalanceType
<1>5. PaidLeg' = PaidLeg
  BY <1>1 DEF PaidLeg
<1>6. PaidOut' = PaidOut /\ PaidOut \in Nat
  BY <1>5, PaidLegFacts DEF PaidOut
<1>7. /\ SettlementOwed(totalExercised) \in Nat /\ SettlementOwed(totalExercised + q) \in Nat
      /\ PaidFor(q) \in Nat
      /\ SettlementOwed(totalExercised + q) <= SettlementOwed(totalExercised) + PaidFor(q)
  BY <1>3, ExercisePaysIn
<1>8. SettlementOwed(totalExercised) <= bal.settlement + PaidOut
  BY <1>1 DEF SettlementInv
<1>9. SettlementOwed(totalExercised + q) <= bal'.settlement + PaidOut
  BY <1>2, <1>3, <1>4, <1>6, <1>7, <1>8
<1> QED
  BY <1>1, <1>6, <1>9 DEF SettlementInv

\* A settlement pays a writer exactly what it is owed: the vault holds it.
LEMMA SettlementSettle ==
  ASSUME Core, Pool!NoOverAssignment, SettlementInv, NEW i \in SlotIds, Settle(i)
  PROVE  /\ SettlementInv'
         /\ bal'.settlement = bal.settlement - SettlementOwed(AssignedAt(i))
<1> DEFINE owed == SettlementOwed(AssignedAt(i))
<1>1. /\ live /\ live' = live /\ ~IsEmpty(slots[i]) /\ ~slots[i].settled
      /\ totalExercised' = totalExercised
      /\ bal' = [bal EXCEPT !.collateral = @ - CollateralPaid(i),
                            !.settlement = @ - SettlementPaid(i),
                            !.quote = @ - slots[i].premium]
  BY DEF Settle
<1>2. slots' = [slots EXCEPT ![i] = SettledSlot(i)] /\ Core'
  BY CoreSettle
<1>3. /\ SettledSlot(i).settled
      /\ SettledSlot(i).assigned = AssignedAt(i)
  BY SettledSlotFacts DEF AssignedAt, Core
<1>4. owed \in Nat /\ owed <= bal.settlement
  BY <1>1, NextIsFunded
<1>5. bal \in BalanceType /\ bal.settlement \in Nat /\ DOMAIN slots = SlotIds
  BY TypeFacts DEF Core, BalanceType
<1>6. SettlementPaid(i) = owed
  BY <1>4 DEF SettlementPaid, LesserOf
<1>7. bal'.settlement = bal.settlement - SettlementPaid(i)
  BY <1>1, <1>5 DEF BalanceType
<1>8. slots'[i] = SettledSlot(i) /\ \A j \in SlotIds \ {i} : slots'[j] = slots[j]
  BY <1>2, <1>5
<1> HIDE DEF owed
<1>9. /\ PaidLeg'[i] = owed /\ PaidLeg[i] = 0
      /\ \A j \in SlotIds \ {i} : PaidLeg'[j] = PaidLeg[j]
  BY <1>1, <1>3, <1>8 DEF PaidLeg, owed
<1>10. NatTerms(PaidLeg, SlotIds) /\ PaidOut \in Nat
  BY PaidLegFacts
<1>11. NatTerms(PaidLeg', SlotIds)
  BY <1>4, <1>9, <1>10 DEF NatTerms
<1> DEFINE next == PaidLeg'
<1>12. IntTerms(PaidLeg, SlotIds) /\ IntTerms(next, SlotIds)
  BY <1>10, <1>11, NatTermsAreInts
<1>13. next[i] = owed /\ \A j \in SlotIds \ {i} : next[j] = PaidLeg[j]
  BY <1>9
<1>14. PaidOut' = SumFunctionOnSet(next, SlotIds)
  BY DEF PaidOut
<1> HIDE DEF next
<1>15. SumFunctionOnSet(next, SlotIds) = PaidOut - PaidLeg[i] + next[i]
  BY <1>12, <1>13, SlotsAreFinite, SumUpdate DEF PaidOut
<1>16. PaidOut' = PaidOut + owed
  BY <1>4, <1>9, <1>10, <1>13, <1>14, <1>15
<1>17. SettlementOwed(totalExercised) <= bal.settlement + PaidOut
       /\ SettlementOwed(totalExercised) \in Nat
  <2>1. totalExercised \in Nat
    BY TypeFacts DEF Core
  <2> QED
    BY <1>1, <2>1, OwedMonotone DEF SettlementInv
<1>18. bal'.settlement + PaidOut' = bal.settlement + PaidOut
  BY <1>4, <1>5, <1>6, <1>7, <1>10, <1>16
<1>19. SettlementInv'
  BY <1>1, <1>17, <1>18 DEF SettlementInv
<1> QED
  BY <1>6, <1>7, <1>19 DEF owed

\* A new series owes nothing, and every step keeps the vault covering.
LEMMA SettlementStep ==
  ASSUME Core, SlotsFit, Pool!NoOverAssignment, SettlementInv, [Next]_vars
  PROVE  SettlementInv'
<1>1. /\ bal \in BalanceType /\ DOMAIN slots = SlotIds
      /\ \A i \in SlotIds : slots[i] \in SlotType
      /\ seq \in Nat /\ totalSold \in Nat /\ supply \in Nat
  BY TypeFacts DEF Core, BalanceType
<1>0. ASSUME NEW i \in SlotIds, Settle(i)
      PROVE  seq' = seq /\ totalSold' = totalSold /\ supply' = supply
  BY <1>0 DEF Settle
<1>2. ASSUME NEW w \in Writers, NEW dep \in Nat, NEW lots \in Nat, NEW price \in Nat,
             Quote(w, dep, lots, price)
      PROVE  SettlementInv'
  <2>1. /\ Expiry > now /\ seq' = seq + 1 /\ live' = live
        /\ totalExercised' = totalExercised
        /\ bal' = [bal EXCEPT !.collateral = @ + ArrivedFor(dep)]
    BY <1>2, QuoteStep
  <2>2. ~\E i \in SlotIds : Settle(i)
    BY <1>0, <1>1, <2>1
  <2>3. \A i \in SlotIds : ~slots[i].settled /\ ~slots'[i].settled
    BY <2>1, <2>2, StillUnsettled
  <2>4. \A i \in SlotIds : slots[i].settled \in BOOLEAN /\ slots'[i].settled \in BOOLEAN
    <3>1. Core'
      BY CoreStep
    <3> QED
      BY <1>1, <3>1, SlotFields DEF Core, TypeOK
  <2>5. bal'.settlement = bal.settlement
    BY <1>1, <2>1 DEF BalanceType
  <2> QED
    BY <2>1, <2>3, <2>4, <2>5, SettlementKept
<1>3. ASSUME NEW lots \in Nat, NEW limit \in Nat, Buy(lots, limit) PROVE SettlementInv'
  <2> DEFINE filled == SumFunction(Taken(lots, limit))
             premium == SumFunction(PremiumsOf(Taken(lots, limit)))
             fee == SumFunction(FeesOf(PremiumsOf(Taken(lots, limit))))
  <2>1. /\ Expiry > now /\ live' = live /\ totalExercised' = totalExercised
        /\ filled > 0 /\ totalSold' = totalSold + filled
        /\ bal' = [bal EXCEPT !.quote = @ + (premium - fee), !.fee = @ + fee]
    BY <1>3, BuyStep
  <2>2. filled \in Nat
    BY <1>3, BookLotsSold DEF Core, TypeOK
  <2> HIDE DEF filled, premium, fee
  <2>3. ~\E i \in SlotIds : Settle(i)
    BY <1>0, <1>1, <2>1, <2>2
  <2>4. \A i \in SlotIds : ~slots[i].settled /\ ~slots'[i].settled
    BY <2>1, <2>3, StillUnsettled
  <2>5. \A i \in SlotIds : slots[i].settled \in BOOLEAN /\ slots'[i].settled \in BOOLEAN
    <3>1. Core'
      BY CoreStep
    <3> QED
      BY <1>1, <3>1, SlotFields DEF Core, TypeOK
  <2>6. bal'.settlement = bal.settlement
    BY <1>1, <2>1 DEF BalanceType
  <2> QED
    BY <2>1, <2>4, <2>5, <2>6, SettlementKept
<1>4. ASSUME NEW i \in SlotIds, NEW lots \in Nat, SellToVault(i, lots) PROVE SettlementInv'
  <2>1. PICK fill \in Nat :
              /\ fill > 0 /\ fill <= supply /\ Expiry > now /\ supply' = supply - fill
              /\ UNCHANGED <<totalExercised, live, bal>>
    BY <1>4, CoreSell
  <2>2. ~\E j \in SlotIds : Settle(j)
    BY <1>0, <1>1, <2>1
  <2>3. \A j \in SlotIds : ~slots[j].settled /\ ~slots'[j].settled
    BY <2>1, <2>2, StillUnsettled
  <2>4. \A j \in SlotIds : slots[j].settled \in BOOLEAN /\ slots'[j].settled \in BOOLEAN
    <3>1. Core'
      BY CoreStep
    <3> QED
      BY <1>1, <3>1, SlotFields DEF Core, TypeOK
  <2> QED
    BY <2>1, <2>3, <2>4, SettlementKept
<1>5. ASSUME NEW i \in SlotIds, NEW s, slots' = [slots EXCEPT ![i] = s],
             s.settled = slots[i].settled, s.assigned = slots[i].assigned,
             UNCHANGED <<live, totalExercised>>, bal'.settlement = bal.settlement
      PROVE  SettlementInv'
  <2>1. \A j \in SlotIds : slots'[j].settled = slots[j].settled
                           /\ slots'[j].assigned = slots[j].assigned
    BY <1>1, <1>5
  <2> QED
    BY <1>5, <2>1, SettlementKept
<1>6. ASSUME NEW i \in SlotIds, NEW lots \in Nat, WithdrawUnsold(i, lots)
      PROVE  SettlementInv'
  <2> DEFINE c == slots[i].withdrawn + lots
             s == [slots[i] EXCEPT !.withdrawn = c]
  <2>1. slots' = [slots EXCEPT ![i] = s]
    BY <1>6, CoreWithdraw
  <2>2. /\ bal' = [bal EXCEPT !.collateral = @ - CollateralFloor(lots)]
        /\ UNCHANGED <<live, totalExercised>>
    BY <1>6 DEF WithdrawUnsold
  <2> HIDE DEF c
  <2>3. s.settled = slots[i].settled /\ s.assigned = slots[i].assigned
    BY <1>1 DEF SlotType
  <2>4. bal'.settlement = bal.settlement
    BY <1>1, <2>2 DEF BalanceType
  <2> HIDE DEF s
  <2> QED
    BY <1>5, <2>1, <2>2, <2>3, <2>4
<1>7. ASSUME NEW i \in SlotIds, ClaimPremium(i) PROVE SettlementInv'
  <2> DEFINE s == [slots[i] EXCEPT !.premium = 0]
  <2>1. slots' = [slots EXCEPT ![i] = s]
    BY <1>7, CoreClaim
  <2>2. /\ bal' = [bal EXCEPT !.quote = @ - slots[i].premium]
        /\ UNCHANGED <<live, totalExercised>>
    BY <1>7 DEF ClaimPremium
  <2>3. s.settled = slots[i].settled /\ s.assigned = slots[i].assigned
    BY <1>1 DEF SlotType
  <2>4. bal'.settlement = bal.settlement
    BY <1>1, <2>2 DEF BalanceType
  <2> HIDE DEF s
  <2> QED
    BY <1>5, <2>1, <2>2, <2>3, <2>4
<1>8. ASSUME UNCHANGED <<slots, live, totalExercised, bal>> PROVE SettlementInv'
  BY <1>8, SettlementKept
<1>9. CASE WriterStep
  <2>1. ASSUME NEW k, CancelAsk(k) PROVE SettlementInv'
    BY <1>8, <2>1 DEF CancelAsk
  <2> QED
    BY <1>2, <1>6, <1>7, <1>9, <2>1, Inputs DEF WriterStep
<1>10. CASE HolderStep
  <2>1. ASSUME NEW q \in Nat, Exercise(q) PROVE SettlementInv'
    BY <2>1, SettlementExercise
  <2>2. ASSUME NEW n, BurnPosition(n) PROVE SettlementInv'
    BY <1>8, <2>2 DEF BurnPosition
  <2> QED
    BY <1>3, <1>4, <1>10, <2>1, <2>2, Inputs DEF HolderStep
<1>11. CASE CrankStep
  <2>1. ASSUME NEW i \in SlotIds, Settle(i) PROVE SettlementInv'
    BY <2>1, SettlementSettle
  <2>2. CASE CloseSeries
    BY <2>2 DEF CloseSeries, SettlementInv
  <2>3. CASE ObserveHalt
    BY <1>8, <2>3 DEF ObserveHalt
  <2> QED
    BY <1>11, <2>1, <2>2, <2>3 DEF CrankStep
<1>12. CASE WorldStep \/ UNCHANGED vars
  <2>1. UNCHANGED ledger
    BY <1>12, CoreWorld
  <2> QED
    BY <1>8, <2>1 DEF ledger
<1> QED
  BY <1>9, <1>10, <1>11, <1>12 DEF Next

\* A new series owes nothing.
LEMMA SettlementInit == ASSUME Init PROVE SettlementInv
<1>1. Core /\ totalExercised = 0
  BY CoreInit DEF Init
<1>2. SettlementOwed(0) = 0
  <2>1. /\ 0 * RawPerLot = 0 /\ 0 * Strike = 0 /\ LOT6 \in Nat /\ LOT6 > 0
    BY Constants
  <2>2. 0 \div LOT6 = 0
    BY <2>1
  <2> QED
    BY <2>1, <2>2 DEF SettlementOwed, UsdcPaidFloor
<1>3. PaidOut \in Nat /\ bal.settlement \in Nat
  BY <1>1, PaidLegFacts, TypeFacts DEF Core
<1> QED
  BY <1>1, <1>2, <1>3 DEF SettlementInv

\* Every writer is paid its assigned lots in full, in whatever order the
\* writers settle and however their lots were rounded: the settlement vault
\* never trims that leg, for any fee the mint withholds.
THEOREM SettlementIsFunded ==
  ASSUME LotsFit
  PROVE  TimelySpec => SettlementFunded
<1>1. TimelySpec => []Pool!NoOverAssignment
  BY SeriesNeverOverAssigns
<1>2. Init => InPool /\ SettlementInv
  BY InPoolAlways, SettlementInit
<1>3. InPool /\ Pool!NoOverAssignment /\ SettlementInv /\ [TimelyNext]_vars
        => InPool' /\ SettlementInv'
  BY InPoolAlways, SettlementStep DEF InPool, Timely, TimelyNext
<1>4. ASSUME InPool, Pool!NoOverAssignment, SettlementInv, [TimelyNext]_vars
      PROVE  [ \A i \in SlotIds :
                 Settles(i) => bal.settlement' = bal.settlement - SettlementOwed(AssignedAt(i)) ]_vars
  <2> SUFFICES ASSUME NEW i \in SlotIds, Settles(i)
               PROVE  bal.settlement' = bal.settlement - SettlementOwed(AssignedAt(i))
    OBVIOUS
  <2>1. Core /\ [Next]_vars
    BY <1>4 DEF InPool, Timely, TimelyNext
  <2>2. Settle(i)
    BY <2>1, OnlySettleSettles
  <2> QED
    BY <1>4, <2>1, <2>2, SettlementSettle
<1> QED
  BY <1>1, <1>2, <1>3, <1>4, PTL DEF TimelySpec, SettlementFunded

-----------------------------------------------------------------------------
(* What settlement trims.                                                  *)

\* While the scale does not wrap, what the pool promises then.
LEMMA UnwrappedPool ==
  ASSUME LotsFit
  PROVE  UnwrappedSpec => /\ TimelySpec
                          /\ [](Promise!IInv /\ Promise!SharesOK /\ Promise!NoOverAssignment)
                          /\ [][Promise!AssignsWhatIsExercised]_(Promise!vars)
<1>1. UnwrappedSpec => TimelySpec
  <2>1. UnwrappedNext => TimelyNext
    BY DEF UnwrappedNext
  <2> QED
    BY <2>1, PTL DEF UnwrappedSpec, TimelySpec
<1>2. Init => InPool /\ Promise!Init
  BY InPoolAlways, PoolInit, PromiseInit
<1>3. InPool /\ [TimelyNext]_vars => InPool'
  BY InPoolAlways
<1>4. InPool /\ InPool' /\ [UnwrappedNext]_vars => [Promise!UnwrappedNext]_(Promise!vars)
  <2> SUFFICES ASSUME InPool, InPool', [UnwrappedNext]_vars
               PROVE  [Promise!UnwrappedNext]_(Promise!vars)
    OBVIOUS
  <2>1. [TimelyNext]_vars
    BY DEF UnwrappedNext
  <2>2. [Promise!Next]_(Promise!vars)
    BY <2>1, PoolStep, PromiseStep
  <2>3. CASE UnwrappedNext
    BY <2>2, <2>3 DEF UnwrappedNext, Promise!UnwrappedNext
  <2>4. CASE UNCHANGED vars
    <3>1. Promise!vars' = Promise!vars
      BY <2>4 DEF vars, ledger, Promise!vars
    <3> QED
      BY <3>1
  <2> QED
    BY <2>3, <2>4
<1>5. UnwrappedSpec => Promise!UnwrappedSpec
  BY <1>1, <1>2, <1>3, <1>4, PTL DEF TimelySpec, UnwrappedSpec, Promise!UnwrappedSpec
<1>6. Promise!UnwrappedSpec => [][Promise!AssignsWhatIsExercised]_(Promise!vars)
  BY PromiseAssumptions, Promise!ExercisesAreAssigned
<1>7. Promise!Spec => [](Promise!IInv /\ Promise!SharesOK /\ Promise!NoOverAssignment)
  BY PromiseAssumptions, Promise!SharesAlways
<1>8. Promise!UnwrappedSpec => Promise!Spec
  <2>1. Promise!UnwrappedNext => Promise!Next
    BY DEF Promise!UnwrappedNext
  <2> QED
    BY <2>1, PTL DEF Promise!UnwrappedSpec, Promise!Spec
<1> QED
  BY <1>1, <1>5, <1>6, <1>7, <1>8, PTL

\* The lots of a slot that are not assigned yet, and those that are.
LeftLeg == [i \in SlotIds |-> FoldedOpen(pool, slots[i])]
ChargedLeg == [i \in SlotIds |-> slots[i].assigned + slots[i].open - FoldedOpen(pool, slots[i])]
SoldLeg == [i \in SlotIds |-> slots[i].sold]
OpenLeg == [i \in SlotIds |-> slots[i].open]
AssignedLots == SumFunctionOnSet(ChargedLeg, SlotIds)

\* Each is a number, at most the lots that were open.
LEMMA LegFacts ==
  ASSUME Core
  PROVE  /\ NatTerms(LeftLeg, SlotIds) /\ NatTerms(ChargedLeg, SlotIds)
         /\ NatTerms(SoldLeg, SlotIds) /\ NatTerms(OpenLeg, SlotIds)
         /\ \A i \in SlotIds : ChargedLeg[i] + LeftLeg[i] = slots[i].assigned + slots[i].open
<1> SUFFICES ASSUME NEW i \in SlotIds
             PROVE  /\ LeftLeg[i] \in Nat /\ ChargedLeg[i] \in Nat
                    /\ SoldLeg[i] \in Nat /\ OpenLeg[i] \in Nat
                    /\ ChargedLeg[i] + LeftLeg[i] = slots[i].assigned + slots[i].open
  BY DEF NatTerms
<1>1. slots[i] \in SlotType /\ pool \in PoolType
  BY TypeFacts DEF Core
<1>2. /\ slots[i].open \in Nat /\ slots[i].assigned \in Nat /\ slots[i].sold \in Nat
  BY <1>1, SlotFields
<1> DEFINE left == FoldedOpen(pool, slots[i])
<1>3. left \in 0 .. slots[i].open
  BY <1>1, SlotFold
<1>4. /\ LeftLeg[i] = left /\ ChargedLeg[i] = slots[i].assigned + slots[i].open - left
      /\ SoldLeg[i] = slots[i].sold /\ OpenLeg[i] = slots[i].open
  BY DEF LeftLeg, ChargedLeg, SoldLeg, OpenLeg
<1> HIDE DEF left
<1> QED
  BY <1>2, <1>3, <1>4

\* A slot folds for the pool of the promises as it does in the series.
LEMMA LeftSeen ==
  ASSUME Core, SlotsFit, NEW i \in SlotIds
  PROVE  Promise!FoldedOpen(pool, PoolSlot(slots[i])) = FoldedOpen(pool, slots[i])
<1> DEFINE s == slots[i]
           v == PoolSlot(s)
<1>1. s \in SlotType /\ pool \in PoolType /\ (IsEmpty(s) => s = EmptySlot)
  BY FitFacts, TypeFacts DEF Core
<1>2. Promise!FoldedOpen(pool, v) = FoldedOpen(pool, v)
  BY PromiseOperators, PoolOperators
<1>3. ~IsEmpty(s) => FoldedOpen(pool, v) = FoldedOpen(pool, s)
  BY <1>1, FoldSeen
<1>4. CASE IsEmpty(s)
  <2>1. s.open = 0
    BY <1>1, <1>4 DEF EmptySlot
  <2>2. v.open = 0
    BY <2>1, ViewFields
  <2> HIDE DEF s, v
  <2>3. FoldedOpen(pool, s) = 0 /\ FoldedOpen(pool, v) = 0
    BY <2>1, <2>2 DEF FoldedOpen
  <2> QED
    BY <1>2, <2>3 DEF s, v
<1> QED
  BY <1>2, <1>3, <1>4

\* The pool of the promises counts them the same.
LEMMA PromiseLegs ==
  ASSUME Core, SlotsFit
  PROVE  /\ Promise!AssignedTogether = AssignedLots /\ AssignedLots \in Nat
         /\ SumFunctionOnSet(SoldLeg, SlotIds)
              = Promise!SumFunctionOnSet(Promise!SoldOf([i \in SlotIds |-> PoolSlot(slots[i])]),
                                         SlotIds)
<1> DEFINE view == [i \in SlotIds |-> PoolSlot(slots[i])]
<1>1. \A f, S : Promise!SumFunctionOnSet(f, S) = SumFunctionOnSet(f, S)
  BY Zenon DEF SumFunctionOnSet, FoldFunctionOnSet, MapThenFoldSet,
       Promise!SumFunctionOnSet, Promise!FoldFunctionOnSet, Promise!MapThenFoldSet
<1>2. Promise!SoldOf(view) = SoldLeg
  <2>1. \A i \in SlotIds : PoolSlot(slots[i]).sold = slots[i].sold
    BY ViewFields
  <2> QED
    BY <2>1 DEF Promise!SoldOf, SoldLeg
<1>3. Promise!ChargedOf(pool, view) = ChargedLeg
  <2>1. ASSUME NEW i \in SlotIds
        PROVE  PoolSlot(slots[i]).assigned + PoolSlot(slots[i]).open
                   - Promise!FoldedOpen(pool, PoolSlot(slots[i]))
                 = slots[i].assigned + slots[i].open - FoldedOpen(pool, slots[i])
    <3>1. PoolSlot(slots[i]).assigned = slots[i].assigned /\ PoolSlot(slots[i]).open = slots[i].open
      BY ViewFields
    <3> QED
      BY <3>1, LeftSeen
  <2> QED
    BY <2>1 DEF Promise!ChargedOf, ChargedLeg
<1>4. Promise!AssignedTogether = Promise!SumFunctionOnSet(Promise!ChargedOf(pool, view), SlotIds)
  BY DEF Promise!AssignedTogether
<1>5. AssignedLots \in Nat
  BY LegFacts, SlotsAreFinite, SumNat DEF AssignedLots
<1> QED
  BY <1>1, <1>2, <1>3, <1>4, <1>5 DEF AssignedLots

\* Until a writer settles the lots sold are those assigned and those left.
LEMMA LotsLeft ==
  ASSUME LotsFit, Core, SlotsFit, Promise!IInv, Promise!SharesOK, ~SomeSettled
  PROVE  /\ \A i \in SlotIds : slots[i].sold = slots[i].assigned + slots[i].open
         /\ totalSold = AssignedLots + SumFunctionOnSet(LeftLeg, SlotIds)
         /\ SumFunctionOnSet(LeftLeg, SlotIds) \in Nat
<1> DEFINE view == [i \in SlotIds |-> PoolSlot(slots[i])]
<1>1. ~Promise!settling
  BY SettlingSeen, PromiseState
<1>2. /\ \A i \in SlotIds : view[i].sold = view[i].assigned + view[i].open
      /\ Promise!SumFunctionOnSet(Promise!SoldOf(view), SlotIds) = totalSold
  BY <1>1, PromiseAssumptions, Promise!BeforeSettlement
<1>3. ASSUME NEW i \in SlotIds PROVE slots[i].sold = slots[i].assigned + slots[i].open
  <2>1. view[i] = PoolSlot(slots[i])
    OBVIOUS
  <2> HIDE DEF view
  <2> QED
    BY <1>2, <2>1, ViewFields
<1>4. SumFunctionOnSet(SoldLeg, SlotIds) = totalSold
  BY <1>2, PromiseLegs
<1>5. /\ NatTerms(LeftLeg, SlotIds) /\ NatTerms(ChargedLeg, SlotIds)
      /\ \A i \in SlotIds : ChargedLeg[i] + LeftLeg[i] = slots[i].assigned + slots[i].open
  BY LegFacts
<1>6. IntTerms(LeftLeg, SlotIds) /\ IntTerms(ChargedLeg, SlotIds)
  BY <1>5, NatTermsAreInts
<1>7. \A i \in SlotIds : SoldLeg[i] = ChargedLeg[i] + LeftLeg[i]
  BY <1>3, <1>5 DEF SoldLeg
<1>8. SumFunctionOnSet(SoldLeg, SlotIds) = AssignedLots + SumFunctionOnSet(LeftLeg, SlotIds)
  BY <1>6, <1>7, SlotsAreFinite, SumPlus DEF AssignedLots
<1>9. SumFunctionOnSet(LeftLeg, SlotIds) \in Nat
  BY <1>5, SlotsAreFinite, SumNat
<1> QED
  BY <1>3, <1>4, <1>8, <1>9

\* No writer has more than MaxWriterLots deposited.
DepositsFit == \A i \in SlotIds : Deposited(slots[i]) <= MaxWriterLots

\* A slot that gets no deposit stays within the bound.
LEMMA DepositedLess ==
  ASSUME NEW s \in SlotType, NEW r \in SlotType, r.deposited = s.deposited,
         s.withdrawn <= r.withdrawn
  PROVE  Deposited(r) <= Deposited(s) /\ Deposited(r) \in Nat /\ Deposited(s) \in Nat
<1>1. /\ s.deposited \in Nat /\ s.withdrawn \in Nat /\ r.withdrawn \in Nat
  BY SlotFields
<1> QED
  BY <1>1 DEF Deposited, SatSub

\* A deposit of nothing credits nothing.
LEMMA NothingCredited == CreditedFor(0) = 0
<1>1. 0 * RawPerLot = 0 /\ 0 * MintFeeBps = 0 /\ 0 \div RawPerLot = 0
  BY Constants
<1>2. CeilDiv(0, BPS) = 0
  <2>1. /\ CeilDiv(0, BPS) \in Nat /\ CeilDiv(0, BPS) * BPS < 0 + BPS /\ BPS \in Nat /\ BPS > 0
    BY Constants, CeilDivBounds
  <2> DEFINE c == CeilDiv(0, BPS)
  <2> HIDE DEF c
  <2>2. c * BPS < 1 * BPS /\ c \in Nat
    BY <2>1 DEF c
  <2>3. c < 1
    BY <2>1, <2>2, MulCancel
  <2> QED
    BY <2>2, <2>3 DEF c
<1>3. CASE IsCall
  <2>1. CollateralCeil(0) = 0
    BY <1>1, <1>3 DEF CollateralCeil
  <2>2. MintFee(0) = 0
    BY <1>1, <1>2, Zenon DEF MintFee
  <2>3. ArrivedFor(0) = 0
    BY <1>3, <2>1, <2>2 DEF ArrivedFor, Arrived
  <2> QED
    BY <1>1, <1>3, <2>3 DEF CreditedFor
<1> QED
  BY <1>3 DEF CreditedFor

\* A quote's deposit is refused beyond the bound, and only a quote deposits.
LEMMA DepositsStep ==
  ASSUME Core, DepositsFit, [Next]_vars
  PROVE  DepositsFit'
<1>1. /\ DOMAIN slots = SlotIds /\ TypeOK /\ pool \in PoolType /\ MaxWriterLots \in Nat
      /\ Ordered(asks) /\ NumberedUpTo(asks, seq)
      /\ \A i \in SlotIds : /\ slots[i] \in SlotType /\ Deposited(slots[i]) <= MaxWriterLots
  BY TypeFacts, Constants DEF Core, BookInv, DepositsFit
<1>2. ASSUME NEW i \in SlotIds, NEW s, slots' = [slots EXCEPT ![i] = s],
             Deposited(s) <= MaxWriterLots
      PROVE  DepositsFit'
  <2>1. \A j \in SlotIds : slots'[j] = s \/ slots'[j] = slots[j]
    BY <1>1, <1>2
  <2>2. \A j \in SlotIds : Deposited(slots'[j]) <= MaxWriterLots
    BY <1>1, <1>2, <2>1
  <2> QED
    BY <2>2 DEF DepositsFit, Deposited, SatSub
<1>3. ASSUME NEW i \in SlotIds, NEW s \in SlotType, slots' = [slots EXCEPT ![i] = s],
             s.deposited = slots[i].deposited, slots[i].withdrawn <= s.withdrawn
      PROVE  DepositsFit'
  <2>1. /\ Deposited(s) <= Deposited(slots[i]) /\ Deposited(s) \in Nat
        /\ Deposited(slots[i]) \in Nat /\ Deposited(slots[i]) <= MaxWriterLots
    BY <1>1, <1>3, DepositedLess
  <2>2. Deposited(s) <= MaxWriterLots
    <3> HIDE DEF Deposited
    <3> QED
      BY <1>1, <2>1
  <2> QED
    BY <1>2, <1>3, <2>2
<1>4. ASSUME NEW w \in Writers, NEW dep \in Nat, NEW lots \in Nat, NEW price \in Nat,
             Quote(w, dep, lots, price)
      PROVE  DepositsFit'
  <2> DEFINE i == SlotFor(w)
             s == QuotedSlot(w, dep)
             r == SlotRecord(w)
  <2>1. /\ SlotsOf(w) # {} \/ Recyclable # {}
        /\ slots' = [slots EXCEPT ![i] = s]
    BY <1>4, QuoteStep
  <2>2. dep > 0 => Deposited(s) <= MaxWriterLots
    BY <1>4 DEF Quote, QuotedSlot, CreditedFor, ArrivedFor
  <2>3. /\ i \in SlotIds /\ r \in SlotType
        /\ \/ r = slots[i]
           \/ r = ClaimedSlot(w)
    BY <1>1, <2>1, SlotForFacts
  <2>4. /\ s \in SlotType /\ s.deposited = r.deposited + CreditedFor(dep)
        /\ s.withdrawn = r.withdrawn
    BY <1>1, <2>1, QuotedSlotFacts
  <2>5. r.deposited \in Nat /\ r.withdrawn \in Nat
    BY <2>3, SlotFields
  <2>6. Deposited(r) <= MaxWriterLots
    <3>1. CASE r = ClaimedSlot(w)
      <4>1. ClaimedSlot(w).deposited = 0
        BY DEF ClaimedSlot, EmptySlot
      <4> HIDE DEF r
      <4> QED
        BY <1>1, <2>5, <3>1, <4>1 DEF Deposited, SatSub
    <3> QED
      BY <1>1, <2>3, <3>1
  <2> HIDE DEF i, s, r
  <2>7. CASE dep = 0
    <3>1. s.deposited = r.deposited
      BY <2>4, <2>5, <2>7, NothingCredited
    <3>2. Deposited(s) = Deposited(r)
      BY <2>4, <3>1 DEF Deposited
    <3> QED
      BY <1>2, <2>1, <2>3, <2>6, <3>2
  <2>8. CASE dep > 0
    BY <1>2, <2>1, <2>2, <2>3, <2>8
  <2> QED
    BY <2>7, <2>8
<1>5. ASSUME NEW lots \in Nat, NEW limit \in Nat, Buy(lots, limit) PROVE DepositsFit'
  <2> DEFINE take == Taken(lots, limit)
  <2>1. \A i \in SlotIds : slots'[i] = SoldSlot(i, take)
    BY <1>5, CoreBuy
  <2>2. ASSUME NEW i \in SlotIds PROVE Deposited(slots'[i]) <= MaxWriterLots
    <3> DEFINE s == SoldSlot(i, take)
    <3>1. SameOwner(s, slots[i])
      BY <1>1, SoldSlotFacts
    <3>2. slots'[i] = s
      BY <2>1
    <3> HIDE DEF s
    <3>3. Deposited(slots'[i]) = Deposited(slots[i])
      BY <3>1, <3>2 DEF SameOwner, Deposited
    <3> QED
      BY <1>1, <3>3
  <2> QED
    BY <2>2 DEF DepositsFit, Deposited, SatSub
<1>6. ASSUME NEW i \in SlotIds, NEW lots \in Nat, SellToVault(i, lots) PROVE DepositsFit'
  <2>1. PICK fill \in Nat :
          /\ fill <= FoldedOpen(pool, slots[i])
          /\ slots' = [slots EXCEPT ![i] = BurnOpen(pool, slots[i], fill)]
    BY <1>6, CoreSell
  <2> DEFINE s == BurnOpen(pool, slots[i], fill)
  <2>2. s \in SlotType /\ SameOwner(s, slots[i])
    BY <1>1, <2>1, SlotBurnOpen
  <2>3. slots' = [slots EXCEPT ![i] = s]
    BY <2>1
  <2>4. slots[i].withdrawn \in Nat
    BY <1>1, SlotFields
  <2> HIDE DEF s
  <2>5. s.deposited = slots[i].deposited /\ slots[i].withdrawn <= s.withdrawn
    BY <2>2, <2>4 DEF SameOwner
  <2> QED
    BY <1>3, <2>2, <2>3, <2>5
<1>7. ASSUME NEW i \in SlotIds, Settle(i) PROVE DepositsFit'
  <2> DEFINE s == SettledSlot(i)
  <2>1. slots' = [slots EXCEPT ![i] = s]
    BY <1>7, CoreSettle
  <2>2. /\ s \in SlotType /\ s.deposited = slots[i].deposited
        /\ s.withdrawn = slots[i].deposited
    BY <1>1, SettledSlotFacts
  <2>3. slots[i].deposited \in Nat
    BY <1>1, SlotFields
  <2> HIDE DEF s
  <2>4. Deposited(s) <= MaxWriterLots
    <3>1. Deposited(s) = 0
      BY <2>2, <2>3 DEF Deposited, SatSub
    <3> QED
      BY <3>1, Constants
  <2> QED
    BY <1>1, <1>2, <2>1, <2>4
<1>8. ASSUME NEW i \in SlotIds, NEW lots \in Nat, WithdrawUnsold(i, lots) PROVE DepositsFit'
  <2> DEFINE d == slots[i].withdrawn + lots
             s == [slots[i] EXCEPT !.withdrawn = d]
  <2>1. d \in Nat /\ slots' = [slots EXCEPT ![i] = s]
    BY <1>8, CoreWithdraw
  <2>2. slots[i].withdrawn \in Nat
    BY <1>1, SlotFields
  <2>3. slots[i].withdrawn <= d
    BY <2>2
  <2> HIDE DEF d
  <2>4. s \in SlotType /\ s.deposited = slots[i].deposited /\ s.withdrawn = d
    BY <1>1, <2>1 DEF SlotType
  <2> HIDE DEF s
  <2> QED
    BY <1>3, <2>1, <2>3, <2>4
<1>9. ASSUME NEW i \in SlotIds, ClaimPremium(i) PROVE DepositsFit'
  <2> DEFINE s == [slots[i] EXCEPT !.premium = 0]
  <2>1. slots' = [slots EXCEPT ![i] = s]
    BY <1>9, CoreClaim
  <2>2. slots[i].withdrawn \in Nat
    BY <1>1, SlotFields
  <2>3. s \in SlotType /\ s.deposited = slots[i].deposited /\ s.withdrawn = slots[i].withdrawn
    BY <1>1 DEF SlotType
  <2> HIDE DEF s
  <2>4. slots[i].withdrawn <= s.withdrawn
    BY <2>2, <2>3
  <2> QED
    BY <1>3, <2>1, <2>3, <2>4
<1>10. ASSUME slots' = slots PROVE DepositsFit'
  BY <1>1, <1>10 DEF DepositsFit, Deposited, SatSub
<1>11. CASE WriterStep
  <2>1. ASSUME NEW k, CancelAsk(k) PROVE DepositsFit'
    BY <1>10, <2>1 DEF CancelAsk
  <2> QED
    BY <1>4, <1>8, <1>9, <1>11, <2>1, Inputs DEF WriterStep
<1>12. CASE HolderStep
  <2>1. ASSUME NEW q, Exercise(q) PROVE DepositsFit'
    BY <1>10, <2>1, ExerciseStep
  <2>2. ASSUME NEW n, BurnPosition(n) PROVE DepositsFit'
    BY <1>10, <2>2 DEF BurnPosition
  <2> QED
    BY <1>5, <1>6, <1>12, <2>1, <2>2, Inputs DEF HolderStep
<1>13. CASE CrankStep
  BY <1>7, <1>10, <1>13 DEF CrankStep, CloseSeries, ObserveHalt
<1>14. CASE WorldStep \/ UNCHANGED vars
  BY <1>10, <1>14, CoreWorld DEF ledger
<1> QED
  BY <1>11, <1>12, <1>13, <1>14 DEF Next

\* A new series has no deposits.
LEMMA DepositsInit == ASSUME Init PROVE DepositsFit
<1>1. \A i \in SlotIds : slots[i].deposited = 0 /\ slots[i].withdrawn = 0
  BY DEF Init, EmptySlot
<1> QED
  BY <1>1, Constants DEF DepositsFit, Deposited, SatSub

\* The exercises so far left at most the dust unassigned.
DustInv == totalExercised <= AssignedLots + DustLots

\* What the invariants of the series say before a step, for its dust.
DustReady ==
  /\ InPool /\ DepositsFit /\ Promise!IInv /\ Promise!SharesOK
  /\ Promise!AssignedTogether = AssignedLots /\ AssignedLots \in Nat

\* The dust of one more exercise.
LEMMA DustFacts ==
  ASSUME Core
  PROVE  /\ DustLots \in Nat /\ CeilDiv(MaxWriterLots, P_FLOOR) \in Nat
         /\ MAX_WRITERS * (1 + CeilDiv(MaxWriterLots, P_FLOOR)) \in Nat
         /\ (exercises' = exercises => DustLots' = DustLots)
         /\ (exercises' = exercises + 1 =>
               DustLots' = DustLots + MAX_WRITERS * (1 + CeilDiv(MaxWriterLots, P_FLOOR)))
<1> DEFINE c == 1 + CeilDiv(MaxWriterLots, P_FLOOR)
           e == exercises
           n == MAX_WRITERS
<1>1. CeilDiv(MaxWriterLots, P_FLOOR) \in Nat /\ n \in Nat /\ e \in Nat
  <2>1. /\ MaxWriterLots \in Nat /\ P_FLOOR \in Nat /\ P_FLOOR > 0
    BY Constants, ProductConstants
  <2> QED
    BY <2>1, Constants, CeilDivBounds, TypeFacts DEF Core
<1>2. c \in Nat
  BY <1>1
<1>3. DustLots = e * n * c /\ DustLots' = exercises' * n * c
  BY DEF DustLots
<1> HIDE DEF c, n, e
<1>4. n * c \in Nat
  BY <1>1, <1>2, MulNat
<1>5. e * n * c \in Nat
  <2>1. e * n \in Nat
    BY <1>1, MulNat
  <2> QED
    BY <1>2, <2>1, MulNat
<1>6. (e + 1) * n * c = e * n * c + n * c
  BY <1>1, <1>2
<1> QED
  BY <1>1, <1>3, <1>4, <1>5, <1>6 DEF c, n, e

\* Until a writer settles no slot has more lots open than its deposits allow.
LEMMA OpenFits ==
  ASSUME LotsFit, DustReady, ~SomeSettled
  PROVE  \A i \in SlotIds : slots[i].open <= MaxWriterLots
<1> SUFFICES ASSUME NEW i \in SlotIds PROVE slots[i].open <= MaxWriterLots
  OBVIOUS
<1>1. Core /\ SlotsFit
  BY DEF DustReady, InPool, Timely
<1>2. slots[i].sold = slots[i].assigned + slots[i].open
  BY <1>1, LotsLeft DEF DustReady
<1>3. /\ slots[i] \in SlotType /\ Resident(i) \in Nat
      /\ slots[i].withdrawn + slots[i].sold + Resident(i) <= slots[i].deposited
  BY <1>1, FitFacts DEF SomeSettled
<1>4. /\ slots[i].deposited \in Nat /\ slots[i].withdrawn \in Nat /\ slots[i].sold \in Nat
      /\ slots[i].open \in Nat /\ slots[i].assigned \in Nat
  BY <1>3, SlotFields
<1>5. SatSub(slots[i].deposited, slots[i].withdrawn) <= MaxWriterLots /\ MaxWriterLots \in Nat
  BY Constants DEF DustReady, DepositsFit, Deposited
<1> QED
  BY <1>2, <1>3, <1>4, <1>5 DEF SatSub

\* Only an exercise exercises.
LEMMA OnlyExerciseExercises ==
  ASSUME Core, [Next]_vars, ~\E q \in Nat : Exercise(q)
  PROVE  totalExercised' = totalExercised /\ exercises' = exercises
<1>1. ASSUME NEW w, NEW dep, NEW lots, NEW price, Quote(w, dep, lots, price)
      PROVE  UNCHANGED <<totalExercised, exercises>>
  BY <1>1, QuoteStep
<1>2. ASSUME NEW lots, NEW limit, Buy(lots, limit)
      PROVE  UNCHANGED <<totalExercised, exercises>>
  BY <1>2, BuyStep
<1>3. CASE WriterStep
  BY <1>1, <1>3 DEF WriterStep, CancelAsk, WithdrawUnsold, ClaimPremium
<1>4. CASE HolderStep
  BY <1>2, <1>4, Inputs DEF HolderStep, SellToVault, BurnPosition
<1>5. CASE CrankStep
  BY <1>5 DEF CrankStep, Settle, CloseSeries, ObserveHalt
<1>6. CASE WorldStep \/ UNCHANGED vars
  BY <1>6, CoreWorld DEF ledger
<1> QED
  BY <1>3, <1>4, <1>5, <1>6 DEF Next

\* The pool of the promises rounds an exercise by the dust of one.
LEMMA RoundingSeen ==
  ASSUME totalExercised' # totalExercised
  PROVE  Promise!Rounding(MaxWriterLots)
           = MAX_WRITERS * (1 + CeilDiv(MaxWriterLots, P_FLOOR))
<1>1. \A a, b : Promise!CeilDiv(a, b) = CeilDiv(a, b)
  BY DEF Promise!CeilDiv, CeilDiv
<1>2. Promise!Cardinality(SlotIds) = Cardinality(SlotIds)
  BY Zenon DEF Promise!Cardinality, Cardinality
<1>3. Cardinality(SlotIds) = MAX_WRITERS
  BY Constants, FS_Interval DEF SlotIds
<1> QED
  BY <1>1, <1>2, <1>3 DEF Promise!Rounding

\* Every step keeps the dust counted.
LEMMA DustStep ==
  ASSUME LotsFit, DustReady, DustReady', DustInv, [TimelyNext]_vars,
         [Promise!AssignsWhatIsExercised]_(Promise!vars)
  PROVE  DustInv'
<1> DEFINE A == AssignedLots
           B == AssignedLots'
           d == DustLots
           n == MAX_WRITERS * (1 + CeilDiv(MaxWriterLots, P_FLOOR))
<1>1. /\ Timely /\ Core /\ SlotsFit /\ [Next]_vars
  BY DEF DustReady, InPool, Timely, TimelyNext
<1>2. Core'
  BY <1>1, CoreStep
<1>3. totalExercised \in Nat /\ totalExercised' \in Nat
  BY <1>1, <1>2 DEF Core, TypeOK
<1>4. /\ A \in Nat /\ Promise!AssignedTogether = A
      /\ B \in Nat /\ Promise!AssignedTogether' = B
  BY DEF DustReady
<1>5. /\ d \in Nat /\ n \in Nat
      /\ (exercises' = exercises => DustLots' = d)
      /\ (exercises' = exercises + 1 => DustLots' = d + n)
  BY <1>1, DustFacts
<1>6. totalExercised <= A + d
  BY DEF DustInv
<1>7. UNCHANGED Promise!vars => A = B /\ totalExercised' = totalExercised
  <2>1. ASSUME UNCHANGED Promise!vars
        PROVE  Promise!AssignedTogether' = Promise!AssignedTogether
               /\ totalExercised' = totalExercised
    BY <2>1 DEF Promise!vars, Promise!AssignedTogether, Promise!ChargedOf
  <2> QED
    BY <1>4, <2>1
<1>8. CASE \E q \in Nat : Exercise(q)
  <2>1. PICK q \in Nat : Exercise(q)
    BY <1>8
  <2>2. /\ ExerciseOpen /\ q > 0 /\ totalExercised' = totalExercised + q
        /\ exercises' = exercises + 1
    BY <2>1, ExerciseStep
  <2>3. \A i \in SlotIds : slots[i].open <= MaxWriterLots
    BY <1>1, <2>2, ExerciseBeforeSettlement, OpenFits
  <2>4. \A i \in SlotIds : [j \in SlotIds |-> PoolSlot(slots[j])][i].open <= MaxWriterLots
    BY <2>3, ViewFields
  <2>5. totalExercised' # totalExercised
    BY <1>3, <2>2
  <2>6. Promise!AssignsWhatIsExercised
    BY <1>7, <2>5
  <2>7. totalExercised' - totalExercised <= B - A + Promise!Rounding(MaxWriterLots)
    BY <1>4, <2>4, <2>6, Constants DEF Promise!AssignsWhatIsExercised
  <2>8. Promise!Rounding(MaxWriterLots) = n
    BY <2>5, RoundingSeen
  <2>9. totalExercised' - totalExercised <= B - A + n
    BY <2>7, <2>8
  <2>10. A \in Nat /\ B \in Nat /\ d \in Nat /\ n \in Nat
    BY <1>4, <1>5
  <2> HIDE DEF A, B, d, n
  <2>11. totalExercised' <= B + (d + n)
    <3>1. ASSUME NEW x \in Nat, NEW y \in Nat, NEW a \in Nat, NEW b \in Nat,
                 NEW k \in Nat, NEW l \in Nat, x <= a + k, y - x <= b - a + l
          PROVE  y <= b + (k + l)
      BY <3>1
    <3> QED
      BY <1>3, <1>6, <2>9, <2>10, <3>1
  <2> QED
    BY <1>5, <2>2, <2>11 DEF DustInv, B
<1>9. CASE ~\E q \in Nat : Exercise(q)
  <2>1. totalExercised' = totalExercised /\ exercises' = exercises
    BY <1>1, <1>9, OnlyExerciseExercises
  <2>2. A <= B
    <3> DEFINE m == SumFunctionOnSet(OpenLeg, SlotIds)
    <3>1. CASE UNCHANGED Promise!vars
      BY <1>4, <1>7, <3>1
    <3>2. CASE Promise!AssignsWhatIsExercised
      <4>1. m \in Nat /\ \A i \in SlotIds : OpenLeg[i] <= m
        BY <1>1, LegFacts, SlotsAreFinite, SumNat
      <4>2. \A i \in SlotIds : OpenLeg[i] = [j \in SlotIds |-> PoolSlot(slots[j])][i].open
        BY ViewFields DEF OpenLeg
      <4>3. Promise!Rounding(m) = 0
        BY <2>1 DEF Promise!Rounding
      <4> HIDE DEF m
      <4>4. totalExercised' - totalExercised <= B - A + Promise!Rounding(m)
        BY <1>4, <3>2, <4>1, <4>2 DEF Promise!AssignsWhatIsExercised
      <4> HIDE DEF A, B
      <4> QED
        BY <1>3, <1>4, <2>1, <4>3, <4>4
    <3> QED
      BY <3>1, <3>2
  <2> HIDE DEF A, B, d, n
  <2>3. totalExercised' <= B + d
    BY <1>3, <1>4, <1>5, <1>6, <2>1, <2>2
  <2> QED
    BY <1>5, <2>1, <2>3 DEF DustInv, B
<1> QED
  BY <1>8, <1>9

\* What settlement owes each writer of its collateral, in lots.
Claims == [i \in SlotIds |-> UnsoldOf(slots[i]) + FoldedOpen(pool, slots[i])]

\* The vault holds what the writers can still claim, but for the dust.
ClaimsFit ==
  live => CollateralFloor(SumFunction(Claims)) <= bal.collateral + CollateralCeil(DustLots)

\* Every claim is a number of lots, and settlement owes their collateral.
LEMMA ClaimFacts ==
  ASSUME Core
  PROVE  /\ SlotTerms(Claims) /\ SumFunction(Claims) \in Nat
         /\ \A i \in SlotIds :
              /\ Claims[i] = UnsoldOf(slots[i]) + FoldedOpen(pool, slots[i])
              /\ UnsoldOf(slots[i]) \in Nat /\ FoldedOpen(pool, slots[i]) \in Nat
              /\ CollateralOwed(i) = CollateralFloor(Claims[i])
              /\ Claims[i] \in Nat /\ CollateralOwed(i) \in Nat
<1>1. ASSUME NEW i \in SlotIds
      PROVE  UnsoldOf(slots[i]) \in Nat /\ FoldedOpen(pool, slots[i]) \in Nat
  <2>1. slots[i] \in SlotType /\ pool \in PoolType
    BY TypeFacts DEF Core
  <2>2. FoldedOpen(pool, slots[i]) \in 0 .. slots[i].open /\ slots[i].open \in Nat
    BY <2>1, SlotFold, SlotFields
  <2> QED
    BY <2>1, <2>2, UnsoldNat
<1>2. ASSUME NEW i \in SlotIds
      PROVE  Claims[i] = UnsoldOf(slots[i]) + FoldedOpen(pool, slots[i]) /\ Claims[i] \in Nat
  BY <1>1 DEF Claims
<1>3. SlotTerms(Claims)
  BY <1>2 DEF SlotTerms, Claims
<1>4. ASSUME NEW i \in SlotIds
      PROVE  CollateralOwed(i) = CollateralFloor(Claims[i]) /\ CollateralOwed(i) \in Nat
  <2>1. CollateralOwed(i) = CollateralFloor(UnsoldOf(slots[i]) + FoldedOpen(pool, slots[i]))
    BY DEF CollateralOwed, UnsoldOf
  <2> QED
    BY <1>2, <2>1, CollateralFacts
<1> QED
  BY <1>1, <1>2, <1>3, <1>4, SlotSum

\* Until a writer settles the vault's solvency covers the claims.
LEMMA ClaimsBefore ==
  ASSUME LotsFit, DustReady, DustInv, VaultsCover, ~SomeSettled
  PROVE  ClaimsFit
<1> DEFINE L == SumFunctionOnSet(LeftLeg, SlotIds)
           U == SumFunction(Unsold)
           C == SumFunction(Claims)
           d == DustLots
<1>1. Core /\ SlotsFit /\ TokensBacked /\ Covered
  BY DEF DustReady, InPool, Timely, Covered
<1>2. /\ bal.collateral \in Nat /\ pool.u \in Nat /\ U \in Nat
      /\ live => bal.collateral >= CollateralFloor(U + pool.u)
  BY <1>1, CoverFacts
<1>3. /\ totalSold = AssignedLots + L /\ L \in Nat
  BY <1>1, LotsLeft DEF DustReady
<1>4. /\ AssignedLots \in Nat /\ d \in Nat /\ totalExercised \in Nat
      /\ totalSold = totalExercised + pool.u
      /\ totalExercised <= AssignedLots + d
  BY <1>1, DustFacts, TypeFacts DEF DustReady, DustInv, TokensBacked, Core
<1>5. C = U + L /\ C \in Nat
  <2>1. /\ SlotTerms(Claims) /\ SlotTerms(Unsold) /\ NatTerms(LeftLeg, SlotIds)
        /\ \A i \in SlotIds : /\ Claims[i] = UnsoldOf(slots[i]) + FoldedOpen(pool, slots[i])
                              /\ Unsold[i] = UnsoldOf(slots[i])
    BY <1>1, ClaimFacts, SlotTermsNow, LegFacts
  <2>2. \A i \in SlotIds : Claims[i] = Unsold[i] + LeftLeg[i]
    BY <2>1 DEF LeftLeg
  <2>3. IntTerms(LeftLeg, SlotIds) /\ IntTerms(Unsold, SlotIds)
    BY <2>1, NatTermsAreInts, SlotSum
  <2>4. SumFunctionOnSet(Claims, SlotIds) = SumFunctionOnSet(Unsold, SlotIds) + L
    BY <2>2, <2>3, SlotsAreFinite, SumPlus
  <2> QED
    BY <1>1, <2>1, <2>4, SlotSum, ClaimFacts
<1> HIDE DEF L, U, C, d
<1>6. C <= (U + pool.u) + d /\ U + pool.u \in Nat /\ (U + pool.u) + d \in Nat
  BY <1>2, <1>3, <1>4, <1>5
<1>7. /\ CollateralFloor(C) <= CollateralFloor((U + pool.u) + d)
      /\ CollateralFloor(C) \in Nat
  BY <1>5, <1>6, FloorMonotone
<1>8. /\ CollateralFloor((U + pool.u) + d) <= CollateralFloor(U + pool.u) + CollateralCeil(d)
      /\ CollateralFloor(U + pool.u) \in Nat /\ CollateralCeil(d) \in Nat
      /\ CollateralFloor((U + pool.u) + d) \in Nat
  BY <1>4, <1>6, CollateralFacts
<1>9. live => CollateralFloor(C) <= bal.collateral + CollateralCeil(d)
  BY <1>2, <1>7, <1>8
<1> QED
  BY <1>9 DEF ClaimsFit, C, d

\* A slot with the same open lots and snapshot folds the same.
LEMMA SameFold ==
  ASSUME NEW w, NEW v, v.open = w.open, v.p = w.p, v.scale = w.scale, v.epoch = w.epoch
  PROVE  FoldedOpen(pool, v) = FoldedOpen(pool, w)
BY Zenon DEF FoldedOpen, SnapshotCurrent, Unassigned

\* The claims of the next state.
LEMMA ClaimsNext ==
  ASSUME Core', pool' = pool
  PROVE  /\ SlotTerms(Claims')
         /\ \A i \in SlotIds : Claims'[i] = UnsoldOf(slots'[i]) + FoldedOpen(pool, slots'[i])
<1>1. ASSUME NEW i \in SlotIds
      PROVE  UnsoldOf(slots'[i]) \in Nat /\ FoldedOpen(pool, slots'[i]) \in Nat
  <2>1. slots'[i] \in SlotType /\ pool \in PoolType
    BY DEF Core, TypeOK
  <2>2. FoldedOpen(pool, slots'[i]) \in 0 .. slots'[i].open /\ slots'[i].open \in Nat
    BY <2>1, SlotFold, SlotFields
  <2> QED
    BY <2>1, <2>2, UnsoldNat
<1>2. /\ DOMAIN Claims' = SlotIds
      /\ \A i \in SlotIds : Claims'[i] = UnsoldOf(slots'[i]) + FoldedOpen(pool, slots'[i])
  BY DEF Claims
<1> QED
  BY <1>1, <1>2 DEF SlotTerms

\* A step that leaves claims, vault and dust alone keeps the claims covered.
LEMMA ClaimsSame ==
  ASSUME ClaimsFit, Core, Core', live' => live, pool' = pool, exercises' = exercises,
         bal'.collateral = bal.collateral,
         \A i \in SlotIds : UnsoldOf(slots'[i]) = UnsoldOf(slots[i])
                            /\ FoldedOpen(pool, slots'[i]) = FoldedOpen(pool, slots[i])
  PROVE  ClaimsFit'
<1> DEFINE next == Claims'
<1>1. /\ SlotTerms(Claims) /\ SlotTerms(next)
      /\ \A i \in SlotIds : next[i] = Claims[i]
  BY ClaimFacts, ClaimsNext
<1>2. ClaimsFit' = (live' => CollateralFloor(SumFunction(next))
                               <= bal'.collateral + CollateralCeil(DustLots'))
  BY DEF ClaimsFit
<1> HIDE DEF next
<1>3. SumFunction(next) = SumFunction(Claims)
  BY <1>1, SlotSumSame
<1>4. DustLots' = DustLots
  BY DustFacts
<1> QED
  BY <1>2, <1>3, <1>4 DEF ClaimsFit

\* A payment of what one slot's claim falls by, capped by the vault, keeps them
\* covered: what is trimmed is dust already counted.
LEMMA ClaimsPaid ==
  ASSUME ClaimsFit, Core, Core', live, pool' = pool, exercises' = exercises,
         NEW i \in SlotIds, NEW s \in SlotType, slots' = [slots EXCEPT ![i] = s],
         NEW c \in Nat, UnsoldOf(s) + FoldedOpen(pool, s) + c = Claims[i],
         bal'.collateral = bal.collateral - LesserOf(CollateralFloor(c), bal.collateral)
  PROVE  ClaimsFit'
<1> DEFINE next == Claims'
           R == SumFunction(Claims)
           T == SumFunction(next)
           d == CollateralCeil(DustLots)
           b == bal.collateral
           x == CollateralFloor(c)
<1>1. /\ SlotTerms(Claims) /\ R \in Nat /\ Claims[i] \in Nat
      /\ DOMAIN slots = SlotIds /\ b \in Nat
      /\ \A j \in SlotIds : Claims[j] = UnsoldOf(slots[j]) + FoldedOpen(pool, slots[j])
  BY ClaimFacts, TypeFacts DEF Core
<1>2. /\ SlotTerms(next)
      /\ \A j \in SlotIds : next[j] = UnsoldOf(slots'[j]) + FoldedOpen(pool, slots'[j])
  BY ClaimsNext
<1>3. ClaimsFit' = (live' => CollateralFloor(T) <= bal'.collateral + CollateralCeil(DustLots'))
  BY DEF ClaimsFit
<1>4. /\ slots'[i] = s
      /\ \A j \in SlotIds \ {i} : slots'[j] = slots[j]
  BY <1>1
<1> HIDE DEF next
<1>5. /\ next[i] + c = Claims[i]
      /\ \A j \in SlotIds \ {i} : next[j] = Claims[j]
  BY <1>1, <1>2, <1>4
<1>6. /\ T = R - Claims[i] + next[i] /\ next[i] \in Nat
      /\ T \in Nat
  BY <1>1, <1>2, <1>5, SlotSumChanged, SlotSum
<1>7. DustLots' = DustLots /\ DustLots \in Nat
  BY DustFacts
<1>8. /\ d \in Nat /\ x \in Nat
  BY <1>7, CollateralFacts
<1>9. CollateralFloor(R) <= b + d
  BY DEF ClaimsFit
<1> HIDE DEF R, T, d, x
<1>10. R = T + c
  BY <1>1, <1>5, <1>6
<1>11. /\ CollateralFloor(T) + x <= CollateralFloor(R)
       /\ CollateralFloor(T) \in Nat /\ CollateralFloor(R) \in Nat
  BY <1>1, <1>6, <1>10, CollateralFacts DEF x
<1>12. bal'.collateral = b - LesserOf(x, b)
  BY DEF x
<1>13. CollateralFloor(T) <= bal'.collateral + d
  <2> HIDE DEF b
  <2>1. CASE x <= b
    BY <1>1, <1>8, <1>9, <1>11, <1>12, <2>1 DEF LesserOf
  <2>2. CASE b < x
    BY <1>1, <1>8, <1>9, <1>11, <1>12, <2>2 DEF LesserOf
  <2> QED
    BY <1>1, <1>8, <2>1, <2>2
<1> QED
  BY <1>3, <1>7, <1>13 DEF d

\* A writer that withdraws gives up the claim it is paid.
LEMMA ClaimsWithdraw ==
  ASSUME Core, SlotsFit, Core', ClaimsFit, NEW i \in SlotIds, NEW lots \in Nat,
         WithdrawUnsold(i, lots)
  PROVE  ClaimsFit'
<1> DEFINE d == slots[i].withdrawn + lots
           s == [slots[i] EXCEPT !.withdrawn = d]
           x == CollateralFloor(lots)
<1>1. /\ live /\ d \in Nat /\ slots' = [slots EXCEPT ![i] = s]
      /\ FreeLots(slots[i], i) >= lots /\ lots > 0 /\ x <= bal.collateral
      /\ bal' = [bal EXCEPT !.collateral = @ - x]
      /\ pool' = pool /\ exercises' = exercises
  BY CoreWithdraw DEF WithdrawUnsold
<1>2. slots[i] \in SlotType /\ Resident(i) \in Nat
  BY FitFacts
<1>3. slots[i].deposited \in Nat /\ slots[i].withdrawn \in Nat /\ slots[i].sold \in Nat
  BY <1>2, SlotFields
<1> HIDE DEF d
<1>4. /\ s \in SlotType /\ s.deposited = slots[i].deposited /\ s.withdrawn = d
      /\ s.sold = slots[i].sold /\ s.open = slots[i].open /\ s.p = slots[i].p
      /\ s.scale = slots[i].scale /\ s.epoch = slots[i].epoch
  BY <1>1, <1>2 DEF SlotType
<1> HIDE DEF s
<1>5. UnsoldOf(s) + lots = UnsoldOf(slots[i])
  <2> DEFINE y == Resident(i)
  <2>1. SatSub(UnsoldOf(slots[i]), y) >= lots /\ y \in Nat
    BY <1>1, <1>2 DEF FreeLots, UnsoldOf
  <2> HIDE DEF y
  <2> QED
    BY <1>1, <1>3, <1>4, <2>1 DEF UnsoldOf, Deposited, SatSub, d
<1>6. FoldedOpen(pool, s) = FoldedOpen(pool, slots[i])
  BY <1>4, SameFold
<1>7. /\ Claims[i] = UnsoldOf(slots[i]) + FoldedOpen(pool, slots[i])
      /\ FoldedOpen(pool, slots[i]) \in Nat /\ UnsoldOf(s) \in Nat
  BY <1>4, ClaimFacts, UnsoldNat
<1>8. UnsoldOf(s) + FoldedOpen(pool, s) + lots = Claims[i]
  BY <1>5, <1>6, <1>7
<1>9. x \in Nat /\ bal.collateral \in Nat /\ bal'.collateral = bal.collateral - x
  BY <1>1, CollateralFacts, TypeFacts DEF Core
<1>10. LesserOf(x, bal.collateral) = x
  BY <1>1 DEF LesserOf
<1>11. bal'.collateral = bal.collateral - LesserOf(CollateralFloor(lots), bal.collateral)
  BY <1>9, <1>10 DEF x
<1> QED
  BY <1>1, <1>4, <1>8, <1>11, ClaimsPaid

\* A writer that settles gives up its whole claim, and is paid it but for what
\* the vault lacks, which is dust.
LEMMA ClaimsSettle ==
  ASSUME Core, Core', ClaimsFit, NEW i \in SlotIds, Settle(i)
  PROVE  /\ ClaimsFit'
         /\ CollateralOwed(i) - (bal.collateral - bal'.collateral)
              <= CollateralCeil(DustLots) + 1
<1> DEFINE s == SettledSlot(i)
           o == CollateralOwed(i)
           b == bal.collateral
           d == CollateralCeil(DustLots)
<1>1. /\ live /\ pool' = pool /\ exercises' = exercises
      /\ bal' = [bal EXCEPT !.collateral = @ - CollateralPaid(i),
                            !.settlement = @ - SettlementPaid(i),
                            !.quote = @ - slots[i].premium]
  BY DEF Settle
<1>2. /\ slots' = [slots EXCEPT ![i] = s] /\ slots[i] \in SlotType
      /\ b \in Nat /\ bal \in BalanceType
  BY CoreSettle, TypeFacts DEF Core, BalanceType
<1>3. /\ s \in SlotType /\ s.deposited = slots[i].deposited
      /\ s.withdrawn = slots[i].deposited /\ s.sold = slots[i].sold /\ s.open = 0
  BY SettledSlotFacts DEF Core
<1>4. slots[i].deposited \in Nat /\ slots[i].sold \in Nat
  BY <1>2, SlotFields
<1>5. /\ Claims[i] \in Nat /\ o = CollateralFloor(Claims[i]) /\ o \in Nat
      /\ SlotTerms(Claims) /\ SumFunction(Claims) \in Nat
  BY ClaimFacts
<1> HIDE DEF s
<1>6. UnsoldOf(s) = 0 /\ FoldedOpen(pool, s) = 0
  BY <1>3, <1>4 DEF UnsoldOf, Deposited, SatSub, FoldedOpen
<1>7. bal'.collateral = b - CollateralPaid(i)
  BY <1>1, <1>2 DEF BalanceType
<1>8. bal'.collateral = b - LesserOf(o, b)
  BY <1>7 DEF CollateralPaid
<1>9. UnsoldOf(s) + FoldedOpen(pool, s) + Claims[i] = Claims[i]
  BY <1>5, <1>6
<1>10. ClaimsFit'
  <2>1. bal'.collateral = b - LesserOf(CollateralFloor(Claims[i]), b)
    BY <1>5, <1>8
  <2> QED
    BY <1>1, <1>2, <1>3, <1>5, <1>9, <2>1, ClaimsPaid
<1>11. o <= b + d /\ d \in Nat
  <2>1. Claims[i] <= SumFunction(Claims)
    <3>1. Claims[i] <= SumFunction(Claims) - Claims[i] + Claims[i]
      BY <1>5, SlotSumChanged
    <3> QED
      BY <1>5, <3>1
  <2>2. o <= CollateralFloor(SumFunction(Claims)) /\ CollateralFloor(SumFunction(Claims)) \in Nat
    BY <1>5, <2>1, FloorMonotone
  <2>3. CollateralFloor(SumFunction(Claims)) <= b + d
    BY <1>1 DEF ClaimsFit
  <2>4. d \in Nat
    BY DustFacts, CollateralFacts
  <2> HIDE DEF o, d
  <2> QED
    BY <1>2, <1>5, <2>2, <2>3, <2>4
<1> HIDE DEF o, b, d
<1>12. o - (b - bal'.collateral) <= d + 1
  <2>1. CASE o <= b
    BY <1>2, <1>5, <1>8, <1>11, <2>1 DEF LesserOf
  <2>2. CASE b < o
    BY <1>2, <1>5, <1>8, <1>11, <2>2 DEF LesserOf
  <2> QED
    BY <1>2, <1>5, <2>1, <2>2
<1> QED
  BY <1>10, <1>12 DEF o, b, d

\* Once a writer has settled nothing is quoted, bought, sold back or exercised
\* any more, so every step keeps the claims covered.
LEMMA ClaimsStep ==
  ASSUME Timely, ClaimsFit, SomeSettled', [TimelyNext]_vars
  PROVE  ClaimsFit'
<1>1. /\ Core /\ SlotsFit /\ [Next]_vars
      /\ bal \in BalanceType /\ DOMAIN slots = SlotIds
      /\ \A i \in SlotIds : slots[i] \in SlotType
      /\ seq \in Nat /\ totalSold \in Nat /\ supply \in Nat
  BY TypeFacts DEF Timely, Core, BalanceType, TimelyNext
<1>2. Core'
  BY <1>1, CoreStep
<1>3. ASSUME NEW i \in SlotIds, Settle(i)
      PROVE  seq' = seq /\ totalSold' = totalSold /\ supply' = supply
  BY <1>3 DEF Settle
<1>4. ASSUME Expiry > now, ~\E i \in SlotIds : Settle(i) PROVE FALSE
  <2>1. \A i \in SlotIds : ~slots'[i].settled
    BY <1>1, <1>4, StillUnsettled
  <2> QED
    BY <2>1 DEF SomeSettled
<1>5. ASSUME NEW w, NEW dep, NEW lots, NEW price, Quote(w, dep, lots, price) PROVE FALSE
  <2>1. Expiry > now /\ seq' = seq + 1
    BY <1>5, QuoteStep
  <2> QED
    BY <1>1, <1>3, <1>4, <2>1
<1>6. ASSUME NEW lots \in Nat, NEW limit \in Nat, Buy(lots, limit) PROVE FALSE
  <2> DEFINE filled == SumFunction(Taken(lots, limit))
  <2>1. Expiry > now /\ filled > 0 /\ totalSold' = totalSold + filled
    BY <1>6, BuyStep
  <2>2. filled \in Nat
    BY <1>1, <1>6, BookLotsSold
  <2> HIDE DEF filled
  <2> QED
    BY <1>1, <1>3, <1>4, <2>1, <2>2
<1>7. ASSUME NEW i \in SlotIds, NEW lots \in Nat, SellToVault(i, lots) PROVE FALSE
  <2>1. PICK fill \in Nat : fill > 0 /\ Expiry > now /\ supply' = supply - fill
    BY <1>1, <1>7, CoreSell
  <2> QED
    BY <1>1, <1>3, <1>4, <2>1
<1>8. ASSUME NEW q \in Nat, Exercise(q) PROVE FALSE
  <2>1. ExerciseOpen /\ slots' = slots
    BY <1>8, ExerciseStep
  <2>2. ~SomeSettled
    BY <2>1, ExerciseBeforeSettlement
  <2> QED
    BY <2>1, <2>2 DEF SomeSettled
<1>9. ASSUME UNCHANGED <<slots, pool, live, exercises>>, bal'.collateral = bal.collateral
      PROVE  ClaimsFit'
  BY <1>1, <1>2, <1>9, ClaimsSame
<1>10. ASSUME NEW i \in SlotIds, ClaimPremium(i) PROVE ClaimsFit'
  <2> DEFINE s == [slots[i] EXCEPT !.premium = 0]
  <2>1. slots' = [slots EXCEPT ![i] = s]
    BY <1>1, <1>10, CoreClaim
  <2>2. /\ bal' = [bal EXCEPT !.quote = @ - slots[i].premium]
        /\ UNCHANGED <<live, pool, exercises>>
    BY <1>10 DEF ClaimPremium
  <2>3. bal'.collateral = bal.collateral
    BY <1>1, <2>2 DEF BalanceType
  <2>4. /\ s.deposited = slots[i].deposited /\ s.withdrawn = slots[i].withdrawn
        /\ s.sold = slots[i].sold /\ s.open = slots[i].open /\ s.p = slots[i].p
        /\ s.scale = slots[i].scale /\ s.epoch = slots[i].epoch
    BY <1>1 DEF SlotType
  <2> HIDE DEF s
  <2>5. UnsoldOf(s) = UnsoldOf(slots[i]) /\ FoldedOpen(pool, s) = FoldedOpen(pool, slots[i])
    BY <2>4, SameFold DEF UnsoldOf, Deposited
  <2>6. \A j \in SlotIds : UnsoldOf(slots'[j]) = UnsoldOf(slots[j])
                           /\ FoldedOpen(pool, slots'[j]) = FoldedOpen(pool, slots[j])
    <3>1. \A j \in SlotIds : slots'[j] = IF j = i THEN s ELSE slots[j]
      BY <1>1, <2>1
    <3> QED
      BY <2>5, <3>1
  <2> QED
    BY <1>1, <1>2, <2>2, <2>3, <2>6, ClaimsSame
<1>11. CASE WriterStep
  <2>1. ASSUME NEW k, CancelAsk(k) PROVE ClaimsFit'
    BY <1>9, <2>1 DEF CancelAsk
  <2>2. ASSUME NEW i \in SlotIds, NEW lots \in Nat, WithdrawUnsold(i, lots) PROVE ClaimsFit'
    BY <1>1, <1>2, <2>2, ClaimsWithdraw
  <2> QED
    BY <1>5, <1>10, <1>11, <2>1, <2>2, Inputs DEF WriterStep
<1>12. CASE HolderStep
  <2>1. ASSUME NEW n, BurnPosition(n) PROVE ClaimsFit'
    BY <1>9, <2>1 DEF BurnPosition
  <2> QED
    BY <1>6, <1>7, <1>8, <1>12, <2>1, Inputs DEF HolderStep
<1>13. CASE CrankStep
  <2>1. ASSUME NEW i \in SlotIds, Settle(i) PROVE ClaimsFit'
    BY <1>1, <1>2, <2>1, ClaimsSettle
  <2>2. CASE CloseSeries
    BY <2>2 DEF CloseSeries, ClaimsFit
  <2>3. CASE ObserveHalt
    BY <1>9, <2>3 DEF ObserveHalt
  <2> QED
    BY <1>13, <2>1, <2>2, <2>3 DEF CrankStep
<1>14. CASE WorldStep \/ UNCHANGED vars
  <2>1. UNCHANGED ledger
    BY <1>1, <1>14, CoreWorld
  <2> QED
    BY <1>9, <2>1 DEF ledger
<1> QED
  BY <1>1, <1>11, <1>12, <1>13, <1>14 DEF Next

\* "The cap only ever trims rounding dust" (settle.rs, F1): in whatever order
\* the writers settle, what the cap leaves unpaid of a writer's collateral is
\* at most what the assignment product rounded away over all exercises, as
\* long as the scale does not wrap within an epoch.
THEOREM SettlementTrimsOnlyDust ==
  ASSUME LotsFit
  PROVE  UnwrappedSpec => TrimsOnlyDust
<1>1. UnwrappedSpec => /\ TimelySpec
                       /\ [](Promise!IInv /\ Promise!SharesOK)
                       /\ [][Promise!AssignsWhatIsExercised]_(Promise!vars)
  BY UnwrappedPool, PTL
<1>2. TimelySpec => [](InPool /\ DepositsFit)
  <2>1. Init => InPool /\ DepositsFit
    BY InPoolAlways, DepositsInit
  <2>2. InPool /\ DepositsFit /\ [TimelyNext]_vars => InPool' /\ DepositsFit'
    BY InPoolAlways, DepositsStep DEF InPool, Timely, TimelyNext
  <2> QED
    BY <2>1, <2>2, PTL DEF TimelySpec
<1>3. TimelySpec => []VaultsCover
  <2>1. TimelyNext => Next
    BY DEF TimelyNext
  <2>2. TimelySpec => Spec
    BY <2>1, PTL DEF TimelySpec, Spec
  <2> QED
    BY <2>2, VaultsStayCovered, PTL
<1>4. InPool /\ DepositsFit /\ Promise!IInv /\ Promise!SharesOK => DustReady
  BY PromiseLegs DEF DustReady, InPool, Timely
<1>5. Init /\ DustReady => DustInv /\ ~SomeSettled
  <2>1. ASSUME Init, DustReady PROVE DustInv /\ ~SomeSettled
    <3>1. totalExercised = 0 /\ \A i \in SlotIds : ~slots[i].settled
      BY <2>1 DEF Init, EmptySlot
    <3>2. AssignedLots \in Nat /\ DustLots \in Nat
      BY <2>1, DustFacts DEF DustReady, InPool, Timely
    <3> QED
      BY <3>1, <3>2 DEF DustInv, SomeSettled
  <2> QED
    BY <2>1
<1>6. DustReady /\ DustReady' /\ DustInv /\ [TimelyNext]_vars
        /\ [Promise!AssignsWhatIsExercised]_(Promise!vars) => DustInv'
  BY DustStep
<1>7. DustReady /\ DustInv /\ VaultsCover /\ ~SomeSettled => ClaimsFit
  BY ClaimsBefore
<1>8. DustReady /\ ClaimsFit /\ SomeSettled' /\ [TimelyNext]_vars => ClaimsFit'
  BY ClaimsStep DEF DustReady, InPool
<1>9. ASSUME DustReady, ClaimsFit, [TimelyNext]_vars
      PROVE  [ \A i \in SlotIds :
                 Settles(i) =>
                   CollateralOwed(i) - (bal.collateral - bal.collateral')
                     <= CollateralCeil(DustLots) + 1 ]_vars
  <2> SUFFICES ASSUME NEW i \in SlotIds, Settles(i)
               PROVE  CollateralOwed(i) - (bal.collateral - bal.collateral')
                        <= CollateralCeil(DustLots) + 1
    OBVIOUS
  <2>1. Core /\ [Next]_vars
    BY <1>9 DEF DustReady, InPool, Timely, TimelyNext
  <2>2. Settle(i) /\ Core'
    BY <2>1, OnlySettleSettles, CoreStep
  <2> QED
    BY <1>9, <2>1, <2>2, ClaimsSettle
<1> QED
  BY <1>1, <1>2, <1>3, <1>4, <1>5, <1>6, <1>7, <1>8, <1>9, PTL
     DEF TimelySpec, TrimsOnlyDust

-----------------------------------------------------------------------------
(* The accounts a step writes.                                             *)

\* A step leaves everything alone that is not in one of some accounts.
Within(accounts) ==
  /\ "series" \notin accounts =>
       UNCHANGED <<pool, slots, asks, seq, totalSold, totalExercised, halt, live>>
  /\ "positionMint" \notin accounts => supply' = supply
  /\ "collateralVault" \notin accounts => bal'.collateral = bal.collateral
  /\ "settlementVault" \notin accounts => bal'.settlement = bal.settlement
  /\ "quoteVault" \notin accounts => bal'.quote = bal.quote
  /\ "feeVault" \notin accounts => bal'.fee = bal.fee
  /\ "treasuryUnderlyingAta" \notin accounts => bal'.treasury = bal.treasury

\* Then the accounts it touches are among them.
LEMMA TouchesWithin ==
  ASSUME NEW accounts, Within(accounts)
  PROVE  Touched \subseteq accounts
<1> SUFFICES ASSUME NEW name \in Touched, name \notin accounts PROVE FALSE
  OBVIOUS
<1>1. CASE name = "series"
  BY <1>1 DEF Touched, Within
<1>2. CASE name = "positionMint"
  BY <1>2 DEF Touched, Within
<1>3. CASE name = "collateralVault"
  BY <1>3 DEF Touched, Within
<1>4. CASE name = "settlementVault"
  BY <1>4 DEF Touched, Within
<1>5. CASE name = "quoteVault"
  BY <1>5 DEF Touched, Within
<1>6. CASE name = "feeVault"
  BY <1>6 DEF Touched, Within
<1>7. CASE name = "treasuryUnderlyingAta"
  BY <1>7 DEF Touched, Within
<1> QED
  BY <1>1, <1>2, <1>3, <1>4, <1>5, <1>6, <1>7 DEF Touched

\* What the instructions on a series declare writable, of what the model keeps.
LEMMA WritableAccounts ==
  /\ \A ix \in {"quote", "vaultQuote", "withdrawUnsold", "vaultWithdrawUnsold"} :
       {"series", "collateralVault"} \subseteq Writes(ix)
  /\ \A ix \in {"cancelAsk", "vaultCancelAsk", "observeHalt"} : "series" \in Writes(ix)
  /\ \A ix \in {"claimPremium", "vaultClaimPremium"} :
       {"series", "quoteVault"} \subseteq Writes(ix)
  /\ {"series", "quoteVault", "feeVault", "positionMint"} \subseteq Writes("buy")
  /\ {"series", "positionMint", "collateralVault", "settlementVault"}
       \subseteq Writes("exercise") \cap Writes("autoExercise")
  /\ {"series", "positionMint"} \subseteq Writes("sellToVault")
  /\ {"series", "collateralVault", "settlementVault", "quoteVault"}
       \subseteq Writes("settleWriter") \cap Writes("vaultSettle")
  /\ {"series", "collateralVault", "settlementVault", "quoteVault", "feeVault",
      "treasuryUnderlyingAta"} \subseteq Writes("closeSeries")
<1>1. /\ Writes("quote") = QuoteAccounts.writes
      /\ Writes("vaultQuote") = VaultQuoteAccounts.writes
      /\ Writes("withdrawUnsold") = WithdrawUnsoldAccounts.writes
      /\ Writes("vaultWithdrawUnsold") = VaultWithdrawUnsoldAccounts.writes
      /\ Writes("cancelAsk") = CancelAskAccounts.writes
      /\ Writes("vaultCancelAsk") = VaultCancelAskAccounts.writes
      /\ Writes("observeHalt") = ObserveHaltAccounts.writes
      /\ Writes("claimPremium") = ClaimPremiumAccounts.writes
      /\ Writes("vaultClaimPremium") = VaultClaimPremiumAccounts.writes
      /\ Writes("buy") = BuyAccounts.writes
      /\ Writes("exercise") = ExerciseAccounts.writes
      /\ Writes("autoExercise") = AutoExerciseAccounts.writes
      /\ Writes("sellToVault") = SellToVaultAccounts.writes
      /\ Writes("settleWriter") = SettleWriterAccounts.writes
      /\ Writes("vaultSettle") = VaultSettleAccounts.writes
      /\ Writes("closeSeries") = CloseSeriesAccounts.writes
  BY DEF Writes, AccountsOf
<1>2. /\ {"series", "collateralVault"} \subseteq QuoteAccounts.writes
      /\ {"series", "collateralVault"} \subseteq VaultQuoteAccounts.writes
      /\ {"series", "collateralVault"} \subseteq WithdrawUnsoldAccounts.writes
      /\ {"series", "collateralVault"} \subseteq VaultWithdrawUnsoldAccounts.writes
  BY DEF QuoteAccounts, VaultQuoteAccounts, WithdrawUnsoldAccounts, VaultWithdrawUnsoldAccounts
<1>3. /\ "series" \in CancelAskAccounts.writes
      /\ "series" \in VaultCancelAskAccounts.writes
      /\ "series" \in ObserveHaltAccounts.writes
      /\ {"series", "quoteVault"} \subseteq ClaimPremiumAccounts.writes
      /\ {"series", "quoteVault"} \subseteq VaultClaimPremiumAccounts.writes
  BY DEF CancelAskAccounts, VaultCancelAskAccounts, ObserveHaltAccounts,
       ClaimPremiumAccounts, VaultClaimPremiumAccounts
<1>4. /\ {"series", "quoteVault", "feeVault", "positionMint"} \subseteq BuyAccounts.writes
      /\ {"series", "positionMint", "collateralVault", "settlementVault"}
           \subseteq ExerciseAccounts.writes
      /\ {"series", "positionMint", "collateralVault", "settlementVault"}
           \subseteq AutoExerciseAccounts.writes
      /\ {"series", "positionMint"} \subseteq SellToVaultAccounts.writes
  BY DEF BuyAccounts, ExerciseAccounts, AutoExerciseAccounts, SellToVaultAccounts
<1>5. /\ {"series", "collateralVault", "settlementVault", "quoteVault"}
           \subseteq SettleWriterAccounts.writes
      /\ {"series", "collateralVault", "settlementVault", "quoteVault"}
           \subseteq VaultSettleAccounts.writes
      /\ {"series", "collateralVault", "settlementVault", "quoteVault", "feeVault",
          "treasuryUnderlyingAta"} \subseteq CloseSeriesAccounts.writes
  BY DEF SettleWriterAccounts, VaultSettleAccounts, CloseSeriesAccounts
<1> QED
  BY <1>1, <1>2, <1>3, <1>4, <1>5

\* Every step of a series stays within the accounts that the instruction behind
\* it, for a person or for a vault, for a holder or for the keeper, declares.
THEOREM WritesStayDeclared == Spec => WritesDeclared
<1>1. ASSUME Core, [Next]_vars
      PROVE  [StaysDeclared]_vars
  <2>1. bal \in BalanceType
    BY <1>1, TypeFacts DEF Core, BalanceType
  <2>2. ASSUME NEW ix \in {"quote", "vaultQuote"}, NEW owners, QuoteBy(owners)
        PROVE  Touched \subseteq Writes(ix)
    <3>1. PICK w, dep, lots, price : Quote(w, dep, lots, price)
      BY <2>2 DEF QuoteBy
    <3>2. /\ bal' = [bal EXCEPT !.collateral = @ + ArrivedFor(dep)]
          /\ supply' = supply
      BY <3>1, QuoteStep
    <3>3. Within(Writes(ix))
      BY <2>1, <2>2, <3>2, WritableAccounts DEF Within, BalanceType
    <3> QED
      BY <3>3, TouchesWithin
  <2>3. ASSUME NEW ix \in {"cancelAsk", "vaultCancelAsk"}, NEW owners, CancelBy(owners)
        PROVE  Touched \subseteq Writes(ix)
    <3>1. bal' = bal /\ supply' = supply
      BY <2>3 DEF CancelBy, CancelAsk
    <3>2. Within(Writes(ix))
      BY <2>3, <3>1, WritableAccounts DEF Within
    <3> QED
      BY <3>2, TouchesWithin
  <2>4. ASSUME NEW ix \in {"withdrawUnsold", "vaultWithdrawUnsold"}, NEW owners,
               WithdrawBy(owners)
        PROVE  Touched \subseteq Writes(ix)
    <3>1. PICK i, lots : WithdrawUnsold(i, lots)
      BY <2>4 DEF WithdrawBy
    <3>2. /\ bal' = [bal EXCEPT !.collateral = @ - CollateralFloor(lots)]
          /\ supply' = supply
      BY <3>1 DEF WithdrawUnsold
    <3>3. Within(Writes(ix))
      BY <2>1, <2>4, <3>2, WritableAccounts DEF Within, BalanceType
    <3> QED
      BY <3>3, TouchesWithin
  <2>5. ASSUME NEW ix \in {"claimPremium", "vaultClaimPremium"}, NEW owners, ClaimBy(owners)
        PROVE  Touched \subseteq Writes(ix)
    <3>1. PICK i : ClaimPremium(i)
      BY <2>5 DEF ClaimBy
    <3>2. /\ bal' = [bal EXCEPT !.quote = @ - slots[i].premium]
          /\ supply' = supply
      BY <3>1 DEF ClaimPremium
    <3>3. Within(Writes(ix))
      BY <2>1, <2>5, <3>2, WritableAccounts DEF Within, BalanceType
    <3> QED
      BY <3>3, TouchesWithin
  <2>6. ASSUME NEW lots, NEW limit, Buy(lots, limit) PROVE Touched \subseteq Writes("buy")
    <3> DEFINE premium == SumFunction(PremiumsOf(Taken(lots, limit)))
               fee == SumFunction(FeesOf(PremiumsOf(Taken(lots, limit))))
    <3>1. bal' = [bal EXCEPT !.quote = @ + (premium - fee), !.fee = @ + fee]
      BY <2>6, BuyStep
    <3> HIDE DEF premium, fee
    <3>2. Within(Writes("buy"))
      BY <2>1, <3>1, WritableAccounts DEF Within, BalanceType
    <3> QED
      BY <3>2, TouchesWithin
  <2>7. ASSUME NEW q, Exercise(q)
        PROVE  Touched \subseteq Writes("exercise") \cap Writes("autoExercise")
    <3>1. PICK paid : bal' = [bal EXCEPT !.settlement = @ + paid,
                                         !.collateral = @ - CollateralFloor(q)]
      BY <2>7, ExerciseStep
    <3>2. Within(Writes("exercise") \cap Writes("autoExercise"))
      BY <2>1, <3>1, WritableAccounts DEF Within, BalanceType
    <3> QED
      BY <3>2, TouchesWithin
  <2>8. ASSUME NEW i, NEW lots, SellToVault(i, lots)
        PROVE  Touched \subseteq Writes("sellToVault")
    <3>1. bal' = bal
      BY <2>8 DEF SellToVault
    <3>2. Within(Writes("sellToVault"))
      BY <3>1, WritableAccounts DEF Within
    <3> QED
      BY <3>2, TouchesWithin
  <2>9. ASSUME NEW i, Settle(i)
        PROVE  Touched \subseteq Writes("settleWriter") \cap Writes("vaultSettle")
    <3>1. /\ bal' = [bal EXCEPT !.collateral = @ - CollateralPaid(i),
                                !.settlement = @ - SettlementPaid(i),
                                !.quote = @ - slots[i].premium]
          /\ supply' = supply
      BY <2>9 DEF Settle
    <3>2. Within(Writes("settleWriter") \cap Writes("vaultSettle"))
      BY <2>1, <3>1, WritableAccounts DEF Within, BalanceType
    <3> QED
      BY <3>2, TouchesWithin
  <2>10. ASSUME CloseSeries PROVE Touched \subseteq Writes("closeSeries")
    <3>1. supply' = supply
      BY <2>10 DEF CloseSeries
    <3>2. Within(Writes("closeSeries"))
      BY <3>1, WritableAccounts DEF Within
    <3> QED
      BY <3>2, TouchesWithin
  <2>11. ASSUME ObserveHalt PROVE Touched \subseteq Writes("observeHalt")
    <3>1. bal' = bal /\ supply' = supply
      BY <2>11 DEF ObserveHalt
    <3>2. Within(Writes("observeHalt"))
      BY <3>1, WritableAccounts DEF Within
    <3> QED
      BY <3>2, TouchesWithin
  <2> QED
    BY <2>2, <2>3, <2>4, <2>5, <2>6, <2>7, <2>8, <2>9, <2>10, <2>11 DEF StaysDeclared
<1>2. Init => Core
  BY CoreInit
<1>3. Core /\ [Next]_vars => Core'
  BY CoreStep
<1> QED
  BY <1>1, <1>2, <1>3, PTL DEF Spec, WritesDeclared
=============================================================================
