---------------------------- MODULE VaultProofs ----------------------------
(***************************************************************************)
(* What holds of a vault for any owners, amounts, marks, series and        *)
(* prices.  The depositors' side (VaultShares): the accounts and the       *)
(* escrow always hold what is owed, and a roll takes nothing from the      *)
(* shares that stay.  The writing side (VaultWriter): locked_raw covers    *)
(* what the slots hold, and no roll passes anything by.                    *)
(***************************************************************************)
EXTENDS VaultShares, VaultWriter, NumberTheorems

-----------------------------------------------------------------------------
(* The operators of the module on numbers.                                 *)

\* The bounds and parameters are what VaultConstants says, one by one.
LEMMA Parameters ==
  /\ IsFiniteSet(Owners) /\ IsCoveredCall \in BOOLEAN
  /\ IDX_SCALE \in Nat /\ IDX_SCALE > 0 /\ SHARE_UNIT \in Nat
  /\ RawPerLot \in Nat /\ RawPerLot > 0 /\ UnitRaw \in Nat /\ UnitRaw > 0
  /\ \A n \in Deposits : n \in Nat /\ n > 0
  /\ \A n \in ShareMoves : n \in Nat /\ n > 0
  /\ \A n \in Marks : n \in Nat /\ n > 0
  /\ \A n \in Flows : n \in Nat /\ n > 0
<1>1. /\ IDX_SCALE \in Nat /\ IDX_SCALE > 0 /\ SHARE_UNIT \in Nat
      /\ UnitsPerLot \in Nat /\ UnitsPerLot > 0 /\ RawPerLot6 \in Nat /\ RawPerLot6 > 0
  BY VaultConstants
<1>2. /\ \A n \in Deposits : n \in Nat /\ n > 0
      /\ \A n \in ShareMoves : n \in Nat /\ n > 0
      /\ \A n \in Marks : n \in Nat /\ n > 0
      /\ \A n \in Flows : n \in Nat /\ n > 0
  BY VaultConstants
<1>3. RawPerLot \in Nat /\ RawPerLot > 0
  BY <1>1, MulNat, MulPos DEF RawPerLot
<1> QED
  BY <1>1, <1>2, <1>3, VaultConstants DEF UnitRaw

\* A price is a number, and so is what it gives.
LEMMA PriceIsNumber ==
  ASSUME NEW n \in Nat, NEW price \in Nat
  PROVE  AtPrice(n, price) \in Nat
<1>1. n * price \in Nat
  BY MulNat
<1> QED
  BY <1>1, DivBounds, Parameters DEF AtPrice

\* One asset in units of the other is a fixed ratio, rounded down.
LEMMA Conversion ==
  ASSUME NEW mark \in Marks
  PROVE  \E k \in Nat, d \in Nat :
           d > 0 /\ \A x \in Nat : InCollateral(x, mark) = (x * k) \div d
<1>1. mark \in Nat /\ mark > 0 /\ RawPerLot \in Nat /\ RawPerLot > 0
  BY Parameters
<1>2. CASE IsCoveredCall
  <2>1. \A x \in Nat : InCollateral(x, mark) = (x * RawPerLot) \div mark
    BY <1>2 DEF InCollateral
  <2> QED
    BY <1>1, <2>1, Zenon
<1>3. CASE ~IsCoveredCall
  <2>1. \A x \in Nat : InCollateral(x, mark) = (x * mark) \div RawPerLot
    BY <1>3 DEF InCollateral
  <2> QED
    BY <1>1, <2>1, Zenon
<1> QED
  BY <1>2, <1>3

\* What converting amounts gives: numbers, that grow with the amount, and of
\* which two together lose at most one unit.
LEMMA ConversionBounds ==
  ASSUME NEW mark \in Marks, NEW a \in Nat, NEW b \in Nat
  PROVE  /\ InCollateral(a, mark) \in Nat
         /\ a <= b => InCollateral(a, mark) <= InCollateral(b, mark)
         /\ InCollateral(a + b, mark) <= InCollateral(a, mark) + InCollateral(b, mark) + 1
<1>1. PICK k \in Nat, d \in Nat :
        d > 0 /\ \A x \in Nat : InCollateral(x, mark) = (x * k) \div d
  BY Conversion
<1>2. a * k \in Nat /\ b * k \in Nat /\ (a + b) * k = a * k + b * k /\ a + b \in Nat
  BY MulNat
<1>3. (a * k) \div d \in Nat /\ ((a * k) \div d) * d <= a * k /\ (b * k) \div d \in Nat
  BY <1>1, <1>2, DivBounds
<1>4. ASSUME a <= b PROVE (a * k) \div d <= (b * k) \div d
  <2>1. a * k <= b * k
    BY <1>4, MulMono
  <2> DEFINE q == (a * k) \div d
  <2>2. q \in Nat /\ q * d \in Nat /\ q * d <= a * k
    BY <1>1, <1>3, MulNat
  <2> HIDE DEF q
  <2>3. q * d <= b * k
    BY <1>2, <2>1, <2>2
  <2>4. q <= (b * k) \div d
    BY <1>1, <1>2, <2>2, <2>3, DivLeast
  <2> QED
    BY <2>4 DEF q
<1>5. (a * k + b * k) \div d <= (a * k) \div d + (b * k) \div d + 1
  BY <1>1, <1>2, FloorsOfSum
<1>6. /\ InCollateral(a, mark) = (a * k) \div d
      /\ InCollateral(b, mark) = (b * k) \div d
      /\ InCollateral(a + b, mark) = (a * k + b * k) \div d
  BY <1>1, <1>2, Zenon
<1> QED
  BY <1>3, <1>4, <1>5, <1>6, Zenon

-----------------------------------------------------------------------------
(* States.                                                                 *)

\* VaultTypeOK, variable by variable.
LEMMA StateFacts ==
  ASSUME VaultTypeOK
  PROVE  /\ epoch \in Nat /\ lastMark \in Nat /\ totalShares \in Nat /\ locked \in Nat
         /\ collateral \in Nat /\ other \in Nat /\ escrow \in Nat
         /\ pending.deposit \in Nat /\ pending.withdraw \in Nat
         /\ pending.withdraw <= totalShares
         /\ reserved.collateral \in Nat /\ reserved.other \in Nat
         /\ \A o \in Owners : /\ positions[o] \in PositionType
                              /\ positions[o].deposit \in Nat
                              /\ positions[o].depositEpoch \in Nat
                              /\ positions[o].withdraw \in Nat
                              /\ positions[o].withdrawEpoch \in Nat
                              /\ wallet[o] \in Nat
         /\ DOMAIN records = 0 .. epoch - 1
         /\ epoch \notin DOMAIN records
         /\ \A e \in DOMAIN records : /\ e \in Nat
                                      /\ records[e].sharesPerRaw \in Nat
                                      /\ records[e].collateralPerShare \in Nat
                                      /\ records[e].otherPerShare \in Nat
<1> USE DEF VaultTypeOK
<1>1. \A o \in Owners : positions[o] \in PositionType /\ wallet[o] \in Nat
  OBVIOUS
<1>2. /\ pending.deposit \in Nat /\ pending.withdraw \in Nat
      /\ reserved.collateral \in Nat /\ reserved.other \in Nat
  OBVIOUS
<1>3. \A e \in DOMAIN records : /\ records[e].sharesPerRaw \in Nat
                                /\ records[e].collateralPerShare \in Nat
                                /\ records[e].otherPerShare \in Nat
  BY DEF PriceType
<1>4. epoch \in Nat /\ DOMAIN records = 0 .. epoch - 1
  OBVIOUS
<1>5. epoch \notin DOMAIN records /\ \A e \in DOMAIN records : e \in Nat
  BY <1>4
<1>6. \A o \in Owners : /\ positions[o].deposit \in Nat
                        /\ positions[o].depositEpoch \in Nat
                        /\ positions[o].withdraw \in Nat
                        /\ positions[o].withdrawEpoch \in Nat
  BY <1>1 DEF PositionType
<1> QED
  BY <1>1, <1>2, <1>3, <1>4, <1>5, <1>6

\* A step that leaves the calendar, the parameters, the records, the shares and
\* what is locked alone keeps the types if what it does move keeps them.
LEMMA TypesKept ==
  ASSUME VaultTypeOK,
         UNCHANGED <<epoch, due, halted, lastMark, totalShares, locked, records>>,
         pending' \in [deposit : Nat, withdraw : Nat], pending'.withdraw <= totalShares,
         reserved' \in [collateral : Nat, other : Nat],
         positions' \in [Owners -> PositionType], wallet' \in [Owners -> Nat],
         collateral' \in Nat, other' \in Nat, escrow' \in Nat
  PROVE  VaultTypeOK'
<1>1. {epoch', lastMark', totalShares', locked', collateral', other', escrow'} \subseteq Nat
  BY StateFacts
<1>2. {due', halted'} \subseteq BOOLEAN
  BY Zenon DEF VaultTypeOK
<1>3. /\ DOMAIN records' = 0 .. epoch' - 1
      /\ \A e \in DOMAIN records' : records'[e] \in PriceType
  BY Zenon DEF VaultTypeOK
<1> QED
  BY <1>1, <1>2, <1>3, Zenon DEF VaultTypeOK

\* What is free, what the roll sets aside and the prices it publishes.
LEMMA FreeFacts ==
  ASSUME VaultTypeOK
  PROVE  /\ CollateralFree \in Nat /\ OtherFree \in Nat
         /\ PerShare(CollateralFree) \in Nat /\ PerShare(OtherFree) \in Nat
         /\ ReserveCollateral \in 0 .. CollateralFree
         /\ ReserveOther \in 0 .. OtherFree
         /\ ReserveCollateral * totalShares <= pending.withdraw * CollateralFree
         /\ ReserveOther * totalShares <= pending.withdraw * OtherFree
<1>1. CollateralFree \in Nat /\ OtherFree \in Nat
  <2>1. ASSUME NEW a \in Nat, NEW b \in Nat PROVE Saturating(a, b) \in Nat
    BY DEF Saturating
  <2>2. /\ collateral \in Nat /\ pending.deposit \in Nat
        /\ reserved.collateral \in Nat /\ reserved.other \in Nat /\ other \in Nat
    BY StateFacts
  <2> QED
    BY <2>1, <2>2 DEF CollateralFree, OtherFree
<1>2. ASSUME NEW a \in Nat
      PROVE  /\ PerShare(a) \in Nat
             /\ AtPrice(pending.withdraw, PerShare(a)) \in 0 .. a
             /\ AtPrice(pending.withdraw, PerShare(a)) * totalShares <= pending.withdraw * a
  <2>1. CASE totalShares > 0
    <3>1. PerShare(a) = (a * IDX_SCALE) \div totalShares
      BY <2>1 DEF PerShare
    <3>2. totalShares \in Nat /\ pending.withdraw \in Nat /\ pending.withdraw <= totalShares
      BY StateFacts
    <3> QED
      BY <2>1, <3>1, <3>2, Parameters, PartAtPrice DEF AtPrice
  <2>2. CASE totalShares = 0
    <3>1. PerShare(a) = 0 /\ pending.withdraw = 0
      BY <2>2, StateFacts DEF PerShare
    <3>2. AtPrice(0, 0) = 0
      BY Parameters DEF AtPrice
    <3> QED
      BY <2>2, <3>1, <3>2
  <2> QED
    BY <2>1, <2>2, StateFacts
<1> QED
  BY <1>1, <1>2 DEF ReserveCollateral, ReserveOther

\* What is owed for the claims: numbers, and finitely many of them.
DuesAreSums ==
  /\ IsFiniteSet(Claims)
  /\ NatTerms(SharesByClaim, Claims)
  /\ NatTerms(CollateralByClaim, Claims)
  /\ NatTerms(OtherByClaim, Claims)
  /\ SumFunction(SharesByClaim) = SumFunctionOnSet(SharesByClaim, Claims)
  /\ SumFunction(CollateralByClaim) = SumFunctionOnSet(CollateralByClaim, Claims)
  /\ SumFunction(OtherByClaim) = SumFunctionOnSet(OtherByClaim, Claims)
  /\ SumFunction(SharesByClaim) \in Nat

\* What each claim is owed is a number.
LEMMA DueFacts == VaultTypeOK => DuesAreSums
<1> SUFFICES ASSUME VaultTypeOK PROVE DuesAreSums
  OBVIOUS
<1>1. IsFiniteSet(Claims)
  <2>1. IsFiniteSet(0 .. epoch - 1)
    BY StateFacts, FS_Interval
  <2>2. IsFiniteSet(DOMAIN records)
    BY <2>1, StateFacts
  <2> QED
    BY <2>2, Parameters, FS_Product DEF Claims
<1>2. ASSUME NEW o \in Owners, NEW e \in DOMAIN records
      PROVE  /\ SharesOwed(o, e) \in Nat
             /\ CollateralOwed(o, e) \in Nat
             /\ OtherOwed(o, e) \in Nat
  <2>1. Deposited(o, e) \in Nat /\ Withdrawn(o, e) \in Nat
    BY StateFacts DEF Deposited, Withdrawn
  <2>2. /\ records[e].sharesPerRaw \in Nat
        /\ records[e].collateralPerShare \in Nat
        /\ records[e].otherPerShare \in Nat
    BY StateFacts
  <2> QED
    BY <2>1, <2>2, PriceIsNumber DEF SharesOwed, CollateralOwed, OtherOwed
<1>3. \A c \in Claims : c[1] \in Owners /\ c[2] \in DOMAIN records
  BY DEF Claims
<1>4. \A c \in Claims : /\ SharesByClaim[c] \in Nat
                        /\ CollateralByClaim[c] \in Nat
                        /\ OtherByClaim[c] \in Nat
  BY <1>2, <1>3 DEF SharesByClaim, CollateralByClaim, OtherByClaim
<1>5. /\ DOMAIN SharesByClaim = Claims
      /\ DOMAIN CollateralByClaim = Claims
      /\ DOMAIN OtherByClaim = Claims
  BY DEF SharesByClaim, CollateralByClaim, OtherByClaim
<1> QED
  <2>1. NatTerms(SharesByClaim, Claims)
    BY <1>4 DEF NatTerms
  <2>2. SumFunctionOnSet(SharesByClaim, Claims) \in Nat
    BY <1>1, <2>1, SumNat
  <2> QED
    BY <1>1, <1>4, <1>5, <2>2, Zenon DEF NatTerms, SumFunction, DuesAreSums

\* An operation that changes no record, and of the queues only what the epoch
\* that runs has queued, changes nothing that is owed.
LEMMA DueKept ==
  ASSUME records' = records,
         \A o \in Owners, e \in DOMAIN records :
           /\ Deposited(o, e)' = Deposited(o, e)
           /\ Withdrawn(o, e)' = Withdrawn(o, e)
  PROVE  /\ SharesByClaim' = SharesByClaim
         /\ CollateralByClaim' = CollateralByClaim
         /\ OtherByClaim' = OtherByClaim
<1>1. Claims' = Claims /\ \A c \in Claims : c[1] \in Owners /\ c[2] \in DOMAIN records
  BY DEF Claims
<1>2. \A o \in Owners, e \in DOMAIN records :
        /\ SharesOwed(o, e)' = SharesOwed(o, e)
        /\ CollateralOwed(o, e)' = CollateralOwed(o, e)
        /\ OtherOwed(o, e)' = OtherOwed(o, e)
  BY DEF SharesOwed, CollateralOwed, OtherOwed, AtPrice
<1> QED
  BY <1>1, <1>2 DEF SharesByClaim, CollateralByClaim, OtherByClaim

\* What the queues and the wallets hold, as sums over the owners.
QueuesAreSums ==
  /\ NatTerms(DepositsQueued, Owners)
  /\ NatTerms(WithdrawalsQueued, Owners)
  /\ NatTerms(wallet, Owners)
  /\ SumFunction(DepositsQueued) = SumFunctionOnSet(DepositsQueued, Owners)
  /\ SumFunction(WithdrawalsQueued) = SumFunctionOnSet(WithdrawalsQueued, Owners)
  /\ SumFunction(wallet) = SumFunctionOnSet(wallet, Owners)
  /\ SumFunction(wallet) \in Nat

\* What each owner has queued, and holds, is a number.
LEMMA QueueFacts == VaultTypeOK => QueuesAreSums
<1> SUFFICES ASSUME VaultTypeOK PROVE QueuesAreSums
  OBVIOUS
<1>1. \A o \in Owners : Deposited(o, epoch) \in Nat /\ Withdrawn(o, epoch) \in Nat
  BY StateFacts DEF Deposited, Withdrawn
<1>2. /\ DOMAIN DepositsQueued = Owners /\ NatTerms(DepositsQueued, Owners)
      /\ DOMAIN WithdrawalsQueued = Owners /\ NatTerms(WithdrawalsQueued, Owners)
  BY <1>1 DEF DepositsQueued, WithdrawalsQueued, NatTerms
<1>3. DOMAIN wallet = Owners /\ NatTerms(wallet, Owners)
  BY DEF VaultTypeOK, NatTerms
<1> QED
  <2>1. SumFunctionOnSet(wallet, Owners) \in Nat
    BY <1>3, Parameters, SumNat
  <2> QED
    BY <1>2, <1>3, <2>1, Zenon DEF SumFunction, QueuesAreSums

\* The queues, and what is owed, are not touched by an operation that leaves
\* these variables alone.
LEMMA QueuesLeftAlone ==
  ASSUME QueuesMatch, UNCHANGED <<epoch, pending, positions>>
  PROVE  QueuesMatch'
BY DEF QueuesMatch, DepositsQueued, WithdrawalsQueued, Deposited, Withdrawn

\* Nothing is owed that was not while records and positions stay.
LEMMA DueLeftAlone ==
  ASSUME UNCHANGED <<records, positions>>
  PROVE  /\ SharesByClaim' = SharesByClaim
         /\ CollateralByClaim' = CollateralByClaim
         /\ OtherByClaim' = OtherByClaim
BY DueKept DEF Deposited, Withdrawn

\* The claims stay backed while what backs them stays.
LEMMA ClaimsLeftAlone ==
  ASSUME ClaimsBacked, UNCHANGED <<records, positions, pending, reserved, escrow>>
  PROVE  ClaimsBacked'
BY DueLeftAlone DEF ClaimsBacked, EscrowCovers, ReservesCoverClaims

\* Where the vault starts nothing is queued, owed or held.
LEMMA VaultStarts == VaultInit => VaultInv
<1> SUFFICES ASSUME VaultInit PROVE VaultInv
  OBVIOUS
<1> USE DEF VaultInit
<1>1. VaultTypeOK
  <2>1. NothingQueued \in PositionType
    BY DEF NothingQueued, PositionType
  <2>2. positions \in [Owners -> PositionType] /\ wallet \in [Owners -> Nat]
    BY <2>1
  <2>3. DOMAIN records = {} /\ 0 .. epoch - 1 = {}
    OBVIOUS
  <2>4. {due, halted} \subseteq BOOLEAN
    BY Zenon
  <2>5. /\ {epoch, lastMark, totalShares, locked, collateral, other, escrow} \subseteq Nat
        /\ pending \in [deposit : Nat, withdraw : Nat] /\ pending.withdraw <= totalShares
        /\ reserved \in [collateral : Nat, other : Nat]
    OBVIOUS
  <2> QED
    BY <2>2, <2>3, <2>4, <2>5, Zenon DEF VaultTypeOK
<1>2. QueuesMatch
  <2>1. \A o \in Owners : DepositsQueued[o] = 0 /\ WithdrawalsQueued[o] = 0
    BY DEF DepositsQueued, WithdrawalsQueued, Deposited, Withdrawn, NothingQueued
  <2>2. SumFunctionOnSet(DepositsQueued, Owners) = 0
        /\ SumFunctionOnSet(WithdrawalsQueued, Owners) = 0
    BY <2>1, Parameters, SumOfZeros
  <2>3. pending.deposit = 0 /\ pending.withdraw = 0
    OBVIOUS
  <2>4. \A o \in Owners : /\ positions[o].depositEpoch <= epoch
                          /\ positions[o].withdrawEpoch <= epoch
    BY DEF NothingQueued
  <2> QED
    BY <1>1, <2>2, <2>3, <2>4, QueueFacts DEF QueuesMatch, QueuesAreSums
<1>3. Funded
  BY DEF Funded
<1>4. ClaimsBacked
  <2>1. Claims = {}
    BY DEF Claims
  <2>2. /\ SumFunctionOnSet(SharesByClaim, {}) = 0
        /\ SumFunctionOnSet(CollateralByClaim, {}) = 0
        /\ SumFunctionOnSet(OtherByClaim, {}) = 0
    BY SumOfNone
  <2>3. /\ SumFunction(SharesByClaim) = 0
        /\ SumFunction(CollateralByClaim) = 0
        /\ SumFunction(OtherByClaim) = 0
    BY <1>1, <2>1, <2>2, DueFacts, Zenon DEF DuesAreSums
  <2> QED
    BY <2>3 DEF ClaimsBacked, EscrowCovers, ReservesCoverClaims
<1>5. SharesCounted
  <2>1. SumFunctionOnSet(wallet, Owners) = 0
    BY Parameters, SumOfZeros
  <2> QED
    BY <1>1, <2>1, QueueFacts DEF SharesCounted, QueuesAreSums
<1> QED
  BY <1>1, <1>2, <1>3, <1>4, <1>5 DEF VaultInv

-----------------------------------------------------------------------------
(* Depositors.                                                             *)

\* A position that is as it was has queued what it had.
LEMMA PositionKept ==
  ASSUME NEW x, positions'[x] = positions[x]
  PROVE  \A e : /\ Deposited(x, e)' = Deposited(x, e)
                /\ Withdrawn(x, e)' = Withdrawn(x, e)
BY DEF Deposited, Withdrawn

\* A position in which one queue got more, under the epoch that runs: what the
\* epochs that rolled owe is as before, and the epoch that runs has the more.
LEMMA DepositQueued ==
  ASSUME VaultTypeOK, NEW o \in Owners, NEW arrived \in Nat,
         MayQueue(positions[o].deposit, positions[o].depositEpoch),
         epoch' = epoch, records' = records,
         positions' = [positions EXCEPT ![o].deposit = @ + arrived,
                                        ![o].depositEpoch = epoch]
  PROVE  /\ positions' \in [Owners -> PositionType]
         /\ \A x \in Owners :
              /\ positions'[x].depositEpoch = (IF x = o THEN epoch ELSE positions[x].depositEpoch)
              /\ positions'[x].withdrawEpoch = positions[x].withdrawEpoch
              /\ Withdrawn(x, epoch)' = Withdrawn(x, epoch)
              /\ Deposited(x, epoch)' = IF x = o THEN Deposited(o, epoch) + arrived
                                                 ELSE Deposited(x, epoch)
              /\ \A e \in DOMAIN records : /\ Deposited(x, e)' = Deposited(x, e)
                                           /\ Withdrawn(x, e)' = Withdrawn(x, e)
<1>1. /\ positions \in [Owners -> PositionType]
      /\ epoch \in Nat /\ epoch \notin DOMAIN records
      /\ positions[o].deposit \in Nat
  BY StateFacts DEF VaultTypeOK
<1> DEFINE r == positions[o]
           more == r.deposit + arrived
           half == [r EXCEPT !.deposit = more]
           p == [half EXCEPT !.depositEpoch = epoch]
<1>10. /\ p \in PositionType
      /\ p.deposit = positions[o].deposit + arrived /\ p.depositEpoch = epoch
      /\ p.withdraw = positions[o].withdraw /\ p.withdrawEpoch = positions[o].withdrawEpoch
  <2>1. r \in PositionType /\ more \in Nat /\ epoch \in Nat
    BY <1>1
  <2> HIDE DEF r, more
  <2>2. half \in PositionType
    BY <2>1 DEF PositionType
  <2>3. half.deposit = more /\ half.withdraw = r.withdraw /\ half.withdrawEpoch = r.withdrawEpoch
    BY <2>1 DEF PositionType
  <2> HIDE DEF half
  <2>4. p \in PositionType
    BY <2>1, <2>2 DEF PositionType
  <2>5. p.deposit = half.deposit /\ p.depositEpoch = epoch /\ p.withdraw = half.withdraw /\ p.withdrawEpoch = half.withdrawEpoch
    BY <2>1, <2>2 DEF PositionType
  <2> QED
    BY <2>3, <2>4, <2>5 DEF r, more
<1>11. positions' = [positions EXCEPT ![o] = p]
  BY <1>1 DEF PositionType
<1> HIDE DEF r, more, half, p
<1>2. \A x \in Owners : positions'[x] = IF x = o THEN p ELSE positions[x]
  BY <1>1, <1>11
<1>3. /\ positions'[o].deposit = positions[o].deposit + arrived
      /\ positions'[o].depositEpoch = epoch
      /\ positions'[o].withdraw = positions[o].withdraw
      /\ positions'[o].withdrawEpoch = positions[o].withdrawEpoch
  BY <1>10, <1>2
<1>4. positions' \in [Owners -> PositionType]
  BY <1>1, <1>10, <1>11
<1>5. ASSUME NEW x \in Owners, x # o, NEW e
      PROVE  Deposited(x, e)' = Deposited(x, e) /\ Withdrawn(x, e)' = Withdrawn(x, e)
  <2>1. positions'[x] = positions[x]
    BY <1>2, <1>5
  <2> QED
    BY <2>1, PositionKept
<1>6. \A e : Withdrawn(o, e)' = Withdrawn(o, e)
  BY <1>3 DEF Withdrawn
<1>7. Deposited(o, epoch) = positions[o].deposit
  BY DEF Deposited, MayQueue
<1>8. Deposited(o, epoch)' = Deposited(o, epoch) + arrived
  BY <1>3, <1>7 DEF Deposited
<1>9. \A e \in DOMAIN records : Deposited(o, e)' = Deposited(o, e)
  BY <1>1, <1>3 DEF Deposited, MayQueue
<1> QED
  BY <1>2, <1>3, <1>4, <1>5, <1>6, <1>8, <1>9

\* What a withdrawal request writes is queued for the epoch that runs, and
\* changes what nobody else, and no earlier epoch, is owed.
LEMMA WithdrawalQueued ==
  ASSUME VaultTypeOK, NEW o \in Owners, NEW shares \in Nat,
         MayQueue(positions[o].withdraw, positions[o].withdrawEpoch),
         epoch' = epoch, records' = records,
         positions' = [positions EXCEPT ![o].withdraw = @ + shares,
                                        ![o].withdrawEpoch = epoch]
  PROVE  /\ positions' \in [Owners -> PositionType]
         /\ \A x \in Owners :
              /\ positions'[x].withdrawEpoch = (IF x = o THEN epoch ELSE positions[x].withdrawEpoch)
              /\ positions'[x].depositEpoch = positions[x].depositEpoch
              /\ Deposited(x, epoch)' = Deposited(x, epoch)
              /\ Withdrawn(x, epoch)' = IF x = o THEN Withdrawn(o, epoch) + shares
                                                 ELSE Withdrawn(x, epoch)
              /\ \A e \in DOMAIN records : /\ Deposited(x, e)' = Deposited(x, e)
                                           /\ Withdrawn(x, e)' = Withdrawn(x, e)
<1>1. /\ positions \in [Owners -> PositionType]
      /\ epoch \in Nat /\ epoch \notin DOMAIN records
      /\ positions[o].withdraw \in Nat
  BY StateFacts DEF VaultTypeOK
<1> DEFINE r == positions[o]
           more == r.withdraw + shares
           half == [r EXCEPT !.withdraw = more]
           p == [half EXCEPT !.withdrawEpoch = epoch]
<1>10. /\ p \in PositionType
      /\ p.withdraw = positions[o].withdraw + shares /\ p.withdrawEpoch = epoch
      /\ p.deposit = positions[o].deposit /\ p.depositEpoch = positions[o].depositEpoch
  <2>1. r \in PositionType /\ more \in Nat /\ epoch \in Nat
    BY <1>1
  <2> HIDE DEF r, more
  <2>2. half \in PositionType
    BY <2>1 DEF PositionType
  <2>3. half.withdraw = more /\ half.deposit = r.deposit /\ half.depositEpoch = r.depositEpoch
    BY <2>1 DEF PositionType
  <2> HIDE DEF half
  <2>4. p \in PositionType
    BY <2>1, <2>2 DEF PositionType
  <2>5. p.withdraw = half.withdraw /\ p.withdrawEpoch = epoch /\ p.deposit = half.deposit /\ p.depositEpoch = half.depositEpoch
    BY <2>1, <2>2 DEF PositionType
  <2> QED
    BY <2>3, <2>4, <2>5 DEF r, more
<1>11. positions' = [positions EXCEPT ![o] = p]
  BY <1>1 DEF PositionType
<1> HIDE DEF r, more, half, p
<1>2. \A x \in Owners : positions'[x] = IF x = o THEN p ELSE positions[x]
  BY <1>1, <1>11
<1>3. /\ positions'[o].withdraw = positions[o].withdraw + shares
      /\ positions'[o].withdrawEpoch = epoch
      /\ positions'[o].deposit = positions[o].deposit
      /\ positions'[o].depositEpoch = positions[o].depositEpoch
  BY <1>10, <1>2
<1>4. positions' \in [Owners -> PositionType]
  BY <1>1, <1>10, <1>11
<1>5. ASSUME NEW x \in Owners, x # o, NEW e
      PROVE  Deposited(x, e)' = Deposited(x, e) /\ Withdrawn(x, e)' = Withdrawn(x, e)
  <2>1. positions'[x] = positions[x]
    BY <1>2, <1>5
  <2> QED
    BY <2>1, PositionKept
<1>6. \A e : Deposited(o, e)' = Deposited(o, e)
  BY <1>3 DEF Deposited
<1>7. Withdrawn(o, epoch) = positions[o].withdraw
  BY DEF Withdrawn, MayQueue
<1>8. Withdrawn(o, epoch)' = Withdrawn(o, epoch) + shares
  BY <1>3, <1>7 DEF Withdrawn
<1>9. \A e \in DOMAIN records : Withdrawn(o, e)' = Withdrawn(o, e)
  BY <1>1, <1>3 DEF Withdrawn, MayQueue
<1> QED
  BY <1>2, <1>3, <1>4, <1>5, <1>6, <1>8, <1>9

\* A deposit joins the queue of the epoch that runs.
LEMMA DepositKeeps ==
  ASSUME VaultInv, NEW o \in Owners, NEW arrived \in Deposits, Deposit(o, arrived)
  PROVE  VaultInv'
<1>1. VaultTypeOK /\ QueuesMatch /\ Funded /\ ClaimsBacked /\ SharesCounted
  BY DEF VaultInv
<1>2. /\ MayQueue(positions[o].deposit, positions[o].depositEpoch)
      /\ positions' = [positions EXCEPT ![o].deposit = @ + arrived,
                                        ![o].depositEpoch = epoch]
      /\ pending' = [pending EXCEPT !.deposit = @ + arrived]
      /\ collateral' = collateral + arrived
      /\ UNCHANGED <<epoch, due, halted, lastMark, totalShares, locked, reserved, records,
                     other, escrow, wallet>>
  BY DEF Deposit, calendar, params
<1>3. arrived \in Nat
  BY Parameters
<1>4. /\ positions' \in [Owners -> PositionType]
      /\ \A x \in Owners :
           /\ positions'[x].depositEpoch = (IF x = o THEN epoch ELSE positions[x].depositEpoch)
           /\ positions'[x].withdrawEpoch = positions[x].withdrawEpoch
           /\ Withdrawn(x, epoch)' = Withdrawn(x, epoch)
           /\ Deposited(x, epoch)' = IF x = o THEN Deposited(o, epoch) + arrived
                                              ELSE Deposited(x, epoch)
           /\ \A e \in DOMAIN records : /\ Deposited(x, e)' = Deposited(x, e)
                                        /\ Withdrawn(x, e)' = Withdrawn(x, e)
  BY <1>1, <1>2, <1>3, DepositQueued
<1>5. /\ pending'.deposit = pending.deposit + arrived
      /\ pending'.withdraw = pending.withdraw
      /\ pending' \in [deposit : Nat, withdraw : Nat]
  <2>1. pending \in [deposit : Nat, withdraw : Nat]
    BY <1>1 DEF VaultTypeOK
  <2>2. pending' = [pending EXCEPT !.deposit = @ + arrived]
    BY <1>2
  <2> QED
    BY <1>3, <2>1, <2>2
<1>6. VaultTypeOK'
  <2>1. collateral' \in Nat
    BY <1>1, <1>2, <1>3, StateFacts
  <2>2. /\ other' \in Nat /\ escrow' \in Nat
        /\ pending'.withdraw <= totalShares
    BY <1>1, <1>2, <1>5, StateFacts
  <2>3. reserved' \in [collateral : Nat, other : Nat] /\ wallet' \in [Owners -> Nat]
    BY <1>1, <1>2, Zenon DEF VaultTypeOK
  <2> QED
    BY <1>1, <1>2, <1>4, <1>5, <2>1, <2>2, <2>3, TypesKept
<1>7. QueuesMatch'
  <2>1. WithdrawalsQueued' = WithdrawalsQueued
    BY <1>2, <1>4 DEF WithdrawalsQueued
  <2>2. /\ \A x \in Owners \ {o} : DepositsQueued'[x] = DepositsQueued[x]
        /\ DepositsQueued'[o] = DepositsQueued[o] + arrived
    BY <1>2, <1>4 DEF DepositsQueued
  <2>3. /\ NatTerms(DepositsQueued, Owners)
        /\ SumFunction(DepositsQueued) = SumFunctionOnSet(DepositsQueued, Owners)
        /\ SumFunction(WithdrawalsQueued) = SumFunctionOnSet(WithdrawalsQueued, Owners)
    BY <1>1, QueueFacts DEF QueuesAreSums
  <2>4. /\ NatTerms(DepositsQueued', Owners)
        /\ SumFunction(DepositsQueued') = SumFunctionOnSet(DepositsQueued', Owners)
        /\ SumFunction(WithdrawalsQueued') = SumFunctionOnSet(WithdrawalsQueued', Owners)
    <3>1. QueuesAreSums'
      BY <1>6, QueueFacts, PTL
    <3> QED
      BY <3>1 DEF QueuesAreSums
  <2>5. SumFunctionOnSet(DepositsQueued', Owners)
          = SumFunctionOnSet(DepositsQueued, Owners) - DepositsQueued[o] + DepositsQueued'[o]
    BY <2>2, <2>3, <2>4, Parameters, NatTermsAreInts, SumUpdate
  <2>6. DepositsQueued[o] \in Nat /\ SumFunctionOnSet(DepositsQueued, Owners) \in Nat
    BY <2>3, Parameters, SumNat DEF NatTerms
  <2>7. SumFunction(DepositsQueued') = SumFunction(DepositsQueued) + arrived
    BY <1>3, <2>2, <2>3, <2>4, <2>5, <2>6
  <2>8. \A x \in Owners : /\ positions'[x].depositEpoch <= epoch
                          /\ positions'[x].withdrawEpoch <= epoch
    <3>1. /\ epoch \in Nat
          /\ \A x \in Owners : /\ positions[x].depositEpoch <= epoch
                               /\ positions[x].withdrawEpoch <= epoch
      BY <1>1, StateFacts, Zenon DEF QueuesMatch
    <3>2. epoch <= epoch
      BY <3>1
    <3> QED
      BY <1>4, <3>1, <3>2, Zenon
  <2> QED
    BY <1>1, <1>2, <1>5, <2>1, <2>7, <2>8 DEF QueuesMatch
<1>8. Funded'
  <2>1. /\ collateral \in Nat /\ pending.deposit \in Nat /\ reserved.collateral \in Nat
    BY <1>1, StateFacts
  <2> QED
    BY <1>1, <1>2, <1>3, <1>5, <2>1 DEF Funded
<1>9. ClaimsBacked'
  BY <1>1, <1>2, <1>4, <1>5, DueKept DEF ClaimsBacked, EscrowCovers, ReservesCoverClaims
<1>10. SharesCounted'
  BY <1>1, <1>2 DEF SharesCounted
<1> QED
  BY <1>6, <1>7, <1>8, <1>9, <1>10 DEF VaultInv

\* A withdrawal request moves shares into escrow.
LEMMA RequestKeeps ==
  ASSUME VaultInv, NEW o \in Owners, NEW shares \in ShareMoves, RequestWithdraw(o, shares)
  PROVE  VaultInv'
<1>1. VaultTypeOK /\ QueuesMatch /\ Funded /\ ClaimsBacked /\ SharesCounted
  BY DEF VaultInv
<1>2. /\ MayQueue(positions[o].withdraw, positions[o].withdrawEpoch)
      /\ shares <= wallet[o]
      /\ wallet' = [wallet EXCEPT ![o] = @ - shares]
      /\ escrow' = escrow + shares
      /\ positions' = [positions EXCEPT ![o].withdraw = @ + shares,
                                        ![o].withdrawEpoch = epoch]
      /\ pending' = [pending EXCEPT !.withdraw = @ + shares]
      /\ UNCHANGED <<epoch, due, halted, lastMark, totalShares, locked, reserved, records,
                     collateral, other>>
  BY DEF RequestWithdraw, calendar, params
<1>3. shares \in Nat
  BY Parameters
<1>4. /\ positions' \in [Owners -> PositionType]
      /\ \A x \in Owners :
           /\ positions'[x].withdrawEpoch = (IF x = o THEN epoch ELSE positions[x].withdrawEpoch)
           /\ positions'[x].depositEpoch = positions[x].depositEpoch
           /\ Deposited(x, epoch)' = Deposited(x, epoch)
           /\ Withdrawn(x, epoch)' = IF x = o THEN Withdrawn(o, epoch) + shares
                                              ELSE Withdrawn(x, epoch)
           /\ \A e \in DOMAIN records : /\ Deposited(x, e)' = Deposited(x, e)
                                        /\ Withdrawn(x, e)' = Withdrawn(x, e)
  BY <1>1, <1>2, <1>3, WithdrawalQueued
<1>5. /\ pending'.withdraw = pending.withdraw + shares
      /\ pending'.deposit = pending.deposit
      /\ pending' \in [deposit : Nat, withdraw : Nat]
  <2>1. pending \in [deposit : Nat, withdraw : Nat]
    BY <1>1 DEF VaultTypeOK
  <2>2. pending' = [pending EXCEPT !.withdraw = @ + shares]
    BY <1>2
  <2> QED
    BY <1>3, <2>1, <2>2
<1>6. /\ wallet' \in [Owners -> Nat]
      /\ wallet'[o] = wallet[o] - shares /\ wallet[o] \in Nat
      /\ \A x \in Owners \ {o} : wallet'[x] = wallet[x]
  <2>1. wallet \in [Owners -> Nat] /\ wallet' = [wallet EXCEPT ![o] = @ - shares]
    BY <1>1, <1>2 DEF VaultTypeOK
  <2>2. wallet[o] - shares \in Nat
    BY <1>2, <1>3, <2>1
  <2> QED
    BY <2>1, <2>2
<1>7. ClaimsBacked'
  <2>1. /\ SharesByClaim' = SharesByClaim
        /\ CollateralByClaim' = CollateralByClaim
        /\ OtherByClaim' = OtherByClaim
    BY <1>2, <1>4, DueKept
  <2>2. /\ SumFunction(SharesByClaim) \in Nat /\ escrow \in Nat /\ pending.withdraw \in Nat
    BY <1>1, DueFacts, StateFacts DEF DuesAreSums
  <2>3. escrow' >= pending'.withdraw + SumFunction(SharesByClaim)
    BY <1>1, <1>2, <1>3, <1>5, <2>2 DEF ClaimsBacked, EscrowCovers
  <2> QED
    BY <1>1, <1>2, <2>1, <2>3 DEF ClaimsBacked, EscrowCovers, ReservesCoverClaims
<1>8. SharesCounted'
  <2>1. NatTerms(wallet', Owners) /\ SumFunction(wallet') = SumFunctionOnSet(wallet', Owners)
    BY <1>6 DEF NatTerms, SumFunction
  <2>2. /\ NatTerms(wallet, Owners) /\ SumFunction(wallet) = SumFunctionOnSet(wallet, Owners)
        /\ SumFunction(wallet) \in Nat
    BY <1>1, QueueFacts DEF QueuesAreSums
  <2>3. SumFunctionOnSet(wallet', Owners)
          = SumFunctionOnSet(wallet, Owners) - wallet[o] + wallet'[o]
    BY <1>6, <2>1, <2>2, Parameters, NatTermsAreInts, SumUpdate
  <2>4. SumFunction(wallet') = SumFunction(wallet) - shares
    BY <1>3, <1>6, <2>1, <2>2, <2>3
  <2>5. escrow \in Nat /\ totalShares \in Nat
    BY <1>1, StateFacts
  <2> QED
    BY <1>1, <1>2, <1>3, <2>2, <2>4, <2>5 DEF SharesCounted
<1>9. VaultTypeOK'
  <2>1. escrow' \in Nat
    BY <1>1, <1>2, <1>3, StateFacts
  <2>2. pending'.withdraw <= totalShares
    <3>1. escrow >= pending.withdraw + SumFunction(SharesByClaim)
          /\ SumFunction(wallet) + escrow <= totalShares
      BY <1>1 DEF ClaimsBacked, EscrowCovers, SharesCounted
    <3>2. /\ SumFunction(SharesByClaim) \in Nat /\ SumFunction(wallet) \in Nat
          /\ escrow \in Nat /\ totalShares \in Nat /\ pending.withdraw \in Nat
      BY <1>1, DueFacts, QueueFacts, StateFacts DEF DuesAreSums, QueuesAreSums
    <3>3. shares <= SumFunction(wallet)
      <4>1. NatTerms(wallet, Owners) /\ SumFunction(wallet) = SumFunctionOnSet(wallet, Owners)
        BY <1>1, QueueFacts DEF QueuesAreSums
      <4>2. wallet[o] <= SumFunction(wallet)
        BY <4>1, Parameters, SumNat
      <4> QED
        BY <1>2, <1>3, <1>6, <3>2, <4>2
    <3> QED
      BY <1>3, <1>5, <3>1, <3>2, <3>3
  <2>3. collateral' \in Nat /\ other' \in Nat
    BY <1>1, <1>2, StateFacts
  <2>4. reserved' \in [collateral : Nat, other : Nat]
    BY <1>1, <1>2, Zenon DEF VaultTypeOK
  <2> QED
    BY <1>1, <1>2, <1>4, <1>5, <1>6, <2>1, <2>2, <2>3, <2>4, TypesKept
<1>10. QueuesMatch'
  <2>1. DepositsQueued' = DepositsQueued
    BY <1>2, <1>4 DEF DepositsQueued
  <2>2. /\ \A x \in Owners \ {o} : WithdrawalsQueued'[x] = WithdrawalsQueued[x]
        /\ WithdrawalsQueued'[o] = WithdrawalsQueued[o] + shares
    BY <1>2, <1>4 DEF WithdrawalsQueued
  <2>3. /\ NatTerms(WithdrawalsQueued, Owners)
        /\ SumFunction(WithdrawalsQueued) = SumFunctionOnSet(WithdrawalsQueued, Owners)
    BY <1>1, QueueFacts DEF QueuesAreSums
  <2>4. /\ NatTerms(WithdrawalsQueued', Owners)
        /\ SumFunction(WithdrawalsQueued') = SumFunctionOnSet(WithdrawalsQueued', Owners)
    <3>1. QueuesAreSums'
      BY <1>9, QueueFacts, PTL
    <3> QED
      BY <3>1 DEF QueuesAreSums
  <2>5. SumFunctionOnSet(WithdrawalsQueued', Owners)
          = SumFunctionOnSet(WithdrawalsQueued, Owners) - WithdrawalsQueued[o] + WithdrawalsQueued'[o]
    BY <2>2, <2>3, <2>4, Parameters, NatTermsAreInts, SumUpdate
  <2>6. WithdrawalsQueued[o] \in Nat /\ SumFunctionOnSet(WithdrawalsQueued, Owners) \in Nat
    BY <2>3, Parameters, SumNat DEF NatTerms
  <2>7. SumFunction(WithdrawalsQueued') = SumFunction(WithdrawalsQueued) + shares
    BY <1>3, <2>2, <2>3, <2>4, <2>5, <2>6
  <2>8. \A x \in Owners : /\ positions'[x].depositEpoch <= epoch
                          /\ positions'[x].withdrawEpoch <= epoch
    <3>1. /\ epoch \in Nat
          /\ \A x \in Owners : /\ positions[x].depositEpoch <= epoch
                               /\ positions[x].withdrawEpoch <= epoch
      BY <1>1, StateFacts, Zenon DEF QueuesMatch
    <3>2. epoch <= epoch
      BY <3>1
    <3> QED
      BY <1>4, <3>1, <3>2, Zenon
  <2> QED
    BY <1>1, <1>2, <1>5, <2>1, <2>7, <2>8 DEF QueuesMatch
<1>11. Funded'
  BY <1>1, <1>2, <1>5 DEF Funded
<1> QED
  BY <1>7, <1>8, <1>9, <1>10, <1>11 DEF VaultInv

\* A claim empties what was queued in the epoch it is for, and nothing else.
LEMMA ClaimEmpties ==
  ASSUME VaultTypeOK, NEW o \in Owners, NEW e \in DOMAIN records,
         epoch' = epoch, records' = records,
         positions' = [positions EXCEPT ![o].deposit = @ - Deposited(o, e),
                                        ![o].withdraw = @ - Withdrawn(o, e)]
  PROVE  /\ positions' \in [Owners -> PositionType]
         /\ \A x \in Owners : /\ positions'[x].depositEpoch = positions[x].depositEpoch
                              /\ positions'[x].withdrawEpoch = positions[x].withdrawEpoch
         /\ \A x \in Owners : \A k :
              /\ Deposited(x, k)' = IF x = o /\ k = e THEN 0 ELSE Deposited(x, k)
              /\ Withdrawn(x, k)' = IF x = o /\ k = e THEN 0 ELSE Withdrawn(x, k)
<1> DEFINE r == positions[o]
           more == r.deposit - Deposited(o, e)
           less == r.withdraw - Withdrawn(o, e)
           half == [r EXCEPT !.deposit = more]
           p == [half EXCEPT !.withdraw = less]
<1>1. /\ positions \in [Owners -> PositionType] /\ r \in PositionType
      /\ r.deposit \in Nat /\ r.withdraw \in Nat
  BY StateFacts DEF VaultTypeOK
<1>2. /\ more = (IF r.depositEpoch = e THEN 0 ELSE r.deposit)
      /\ less = (IF r.withdrawEpoch = e THEN 0 ELSE r.withdraw)
  BY <1>1 DEF Deposited, Withdrawn
<1>3. more \in Nat /\ less \in Nat
  BY <1>1, <1>2
<1>4. positions' = [positions EXCEPT ![o] = p]
  BY <1>1 DEF PositionType
<1>5. /\ p \in PositionType
      /\ p.deposit = more /\ p.depositEpoch = r.depositEpoch
      /\ p.withdraw = less /\ p.withdrawEpoch = r.withdrawEpoch
  <2> HIDE DEF r, more, less
  <2>1. half \in PositionType
    BY <1>1, <1>3 DEF PositionType
  <2>2. half.deposit = more /\ half.withdraw = r.withdraw
        /\ half.depositEpoch = r.depositEpoch /\ half.withdrawEpoch = r.withdrawEpoch
    BY <1>1 DEF PositionType
  <2> HIDE DEF half
  <2>3. p \in PositionType
    BY <1>3, <2>1 DEF PositionType
  <2>4. p.withdraw = less /\ p.deposit = half.deposit
        /\ p.depositEpoch = half.depositEpoch /\ p.withdrawEpoch = half.withdrawEpoch
    BY <2>1 DEF PositionType
  <2> QED
    BY <2>2, <2>3, <2>4
<1> HIDE DEF more, less, half, p
<1>6. \A x \in Owners : positions'[x] = IF x = o THEN p ELSE positions[x]
  BY <1>1, <1>4
<1>7. positions' \in [Owners -> PositionType]
  BY <1>1, <1>4, <1>5
<1>8. \A x \in Owners : /\ positions'[x].depositEpoch = positions[x].depositEpoch
                        /\ positions'[x].withdrawEpoch = positions[x].withdrawEpoch
  BY <1>5, <1>6
<1>9. ASSUME NEW x \in Owners, x # o, NEW k
      PROVE  Deposited(x, k)' = Deposited(x, k) /\ Withdrawn(x, k)' = Withdrawn(x, k)
  <2>1. positions'[x] = positions[x]
    BY <1>6, <1>9
  <2> QED
    BY <2>1, PositionKept
<1>10. /\ positions'[o].deposit = (IF positions[o].depositEpoch = e THEN 0 ELSE positions[o].deposit)
       /\ positions'[o].depositEpoch = positions[o].depositEpoch
       /\ positions'[o].withdraw = (IF positions[o].withdrawEpoch = e THEN 0 ELSE positions[o].withdraw)
       /\ positions'[o].withdrawEpoch = positions[o].withdrawEpoch
  BY <1>2, <1>5, <1>6
<1>11. \A k : /\ Deposited(o, k)' = IF k = e THEN 0 ELSE Deposited(o, k)
              /\ Withdrawn(o, k)' = IF k = e THEN 0 ELSE Withdrawn(o, k)
  BY <1>10, Zenon DEF Deposited, Withdrawn
<1> QED
  BY <1>7, <1>8, <1>9, <1>11

\* Of what is owed, a claim takes its own part, which the reserves cover: no
\* amount is trimmed to what is there.
LEMMA ClaimTakesItsPart ==
  ASSUME VaultInv, NEW o \in Owners, NEW e \in DOMAIN records, VaultClaim(o, e)
  PROVE  /\ SumFunction(SharesByClaim') = SumFunction(SharesByClaim) - SharesOwed(o, e)
         /\ SumFunction(CollateralByClaim') = SumFunction(CollateralByClaim) - CollateralOwed(o, e)
         /\ SumFunction(OtherByClaim') = SumFunction(OtherByClaim) - OtherOwed(o, e)
         /\ SharesOwed(o, e) \in Nat /\ SharesOwed(o, e) <= SumFunction(SharesByClaim)
         /\ CollateralOwed(o, e) \in 0 .. reserved.collateral
         /\ OtherOwed(o, e) \in 0 .. reserved.other
<1>1. VaultTypeOK /\ ReservesCoverClaims
  BY DEF VaultInv, ClaimsBacked
<1>2. /\ UNCHANGED <<epoch, records>>
      /\ positions' = [positions EXCEPT ![o].deposit = @ - Deposited(o, e),
                                        ![o].withdraw = @ - Withdrawn(o, e)]
  BY DEF VaultClaim, calendar
<1>3. \A x \in Owners : \A k :
        /\ Deposited(x, k)' = IF x = o /\ k = e THEN 0 ELSE Deposited(x, k)
        /\ Withdrawn(x, k)' = IF x = o /\ k = e THEN 0 ELSE Withdrawn(x, k)
  BY <1>1, <1>2, ClaimEmpties
<1>4. \A price \in Nat : AtPrice(0, price) = 0
  BY Parameters DEF AtPrice
<1>5. \A k \in DOMAIN records : /\ records[k].sharesPerRaw \in Nat
                                /\ records[k].collateralPerShare \in Nat
                                /\ records[k].otherPerShare \in Nat
  BY <1>1, StateFacts
<1>6. \A x \in Owners, k \in DOMAIN records :
        /\ SharesOwed(x, k)' = IF x = o /\ k = e THEN 0 ELSE SharesOwed(x, k)
        /\ CollateralOwed(x, k)' = IF x = o /\ k = e THEN 0 ELSE CollateralOwed(x, k)
        /\ OtherOwed(x, k)' = IF x = o /\ k = e THEN 0 ELSE OtherOwed(x, k)
  <2>1. ASSUME NEW n, NEW price PROVE AtPrice(n, price)' = AtPrice(n, price)
    BY DEF AtPrice
  <2> QED
    BY <1>2, <1>3, <1>4, <1>5 DEF SharesOwed, CollateralOwed, OtherOwed, AtPrice
<1> DEFINE c == <<o, e>>
<1>7. c \in Claims /\ Claims' = Claims
      /\ \A d \in Claims : /\ d[1] \in Owners /\ d[2] \in DOMAIN records
                           /\ d # c => ~ (d[1] = o /\ d[2] = e)
  BY <1>2 DEF Claims
<1>8. /\ \A d \in Claims \ {c} : SharesByClaim'[d] = SharesByClaim[d]
      /\ SharesByClaim'[c] = 0 /\ SharesByClaim[c] = SharesOwed(o, e)
  BY <1>6, <1>7 DEF SharesByClaim
<1>9. /\ \A d \in Claims \ {c} : CollateralByClaim'[d] = CollateralByClaim[d]
      /\ CollateralByClaim'[c] = 0 /\ CollateralByClaim[c] = CollateralOwed(o, e)
  BY <1>6, <1>7 DEF CollateralByClaim
<1>10. /\ \A d \in Claims \ {c} : OtherByClaim'[d] = OtherByClaim[d]
       /\ OtherByClaim'[c] = 0 /\ OtherByClaim[c] = OtherOwed(o, e)
  BY <1>6, <1>7 DEF OtherByClaim
<1> HIDE DEF c
<1>11. /\ IsFiniteSet(Claims)
       /\ NatTerms(SharesByClaim, Claims)
       /\ NatTerms(CollateralByClaim, Claims)
       /\ NatTerms(OtherByClaim, Claims)
       /\ SumFunction(SharesByClaim) = SumFunctionOnSet(SharesByClaim, Claims)
       /\ SumFunction(CollateralByClaim) = SumFunctionOnSet(CollateralByClaim, Claims)
       /\ SumFunction(OtherByClaim) = SumFunctionOnSet(OtherByClaim, Claims)
  BY <1>1, DueFacts DEF DuesAreSums
<1>12. /\ SumFunction(SharesByClaim') = SumFunctionOnSet(SharesByClaim', Claims)
       /\ SumFunction(CollateralByClaim') = SumFunctionOnSet(CollateralByClaim', Claims)
       /\ SumFunction(OtherByClaim') = SumFunctionOnSet(OtherByClaim', Claims)
  <2>1. /\ DOMAIN SharesByClaim' = Claims
        /\ DOMAIN CollateralByClaim' = Claims
        /\ DOMAIN OtherByClaim' = Claims
    BY <1>7 DEF SharesByClaim, CollateralByClaim, OtherByClaim
  <2> QED
    BY <2>1, Zenon DEF SumFunction
<1>13. ASSUME NEW f, NatTerms(f, Claims), NEW g, g[c] = 0,
              \A d \in Claims \ {c} : g[d] = f[d]
       PROVE  /\ SumFunctionOnSet(g, Claims) = SumFunctionOnSet(f, Claims) - f[c]
              /\ f[c] \in Nat /\ f[c] <= SumFunctionOnSet(f, Claims)
  <2>1. NatTerms(g, Claims)
    <3>1. ASSUME NEW d \in Claims PROVE g[d] \in Nat
      <4>1. CASE d = c
        BY <1>13, <4>1
      <4>2. CASE d # c
        BY <1>13, <4>2 DEF NatTerms
      <4> QED
        BY <4>1, <4>2
    <3> QED
      BY <3>1 DEF NatTerms
  <2>2. SumFunctionOnSet(g, Claims) = SumFunctionOnSet(f, Claims) - f[c] + g[c]
    BY <1>7, <1>11, <1>13, <2>1, NatTermsAreInts, SumUpdate
  <2>3. f[c] \in Nat /\ f[c] <= SumFunctionOnSet(f, Claims) /\ SumFunctionOnSet(f, Claims) \in Nat
    BY <1>7, <1>11, <1>13, SumNat DEF NatTerms
  <2> QED
    BY <1>13, <2>2, <2>3
<1>14. /\ SumFunctionOnSet(SharesByClaim', Claims)
            = SumFunctionOnSet(SharesByClaim, Claims) - SharesByClaim[c]
       /\ SharesByClaim[c] \in Nat
       /\ SharesByClaim[c] <= SumFunctionOnSet(SharesByClaim, Claims)
  BY <1>8, <1>11, <1>13
<1>15. /\ SumFunctionOnSet(CollateralByClaim', Claims)
            = SumFunctionOnSet(CollateralByClaim, Claims) - CollateralByClaim[c]
       /\ CollateralByClaim[c] \in Nat
       /\ CollateralByClaim[c] <= SumFunctionOnSet(CollateralByClaim, Claims)
  BY <1>9, <1>11, <1>13
<1>16. /\ SumFunctionOnSet(OtherByClaim', Claims)
            = SumFunctionOnSet(OtherByClaim, Claims) - OtherByClaim[c]
       /\ OtherByClaim[c] \in Nat
       /\ OtherByClaim[c] <= SumFunctionOnSet(OtherByClaim, Claims)
  BY <1>10, <1>11, <1>13
<1>17. /\ SumFunction(CollateralByClaim) <= reserved.collateral
       /\ SumFunction(OtherByClaim) <= reserved.other
       /\ reserved.collateral \in Nat /\ reserved.other \in Nat
  BY <1>1, StateFacts DEF ReservesCoverClaims
<1>18. /\ SumFunction(CollateralByClaim) \in Nat /\ SumFunction(OtherByClaim) \in Nat
  BY <1>11, SumNat
<1> QED
  BY <1>8, <1>9, <1>10, <1>11, <1>12, <1>14, <1>15, <1>16, <1>17, <1>18

\* A claim pays what was reserved for it and no more.
LEMMA ClaimKeeps ==
  ASSUME VaultInv, NEW o \in Owners, NEW e \in DOMAIN records, VaultClaim(o, e)
  PROVE  VaultInv'
<1> DEFINE sharesOut == SharesOwed(o, e)
           collateralOut == CollateralOwed(o, e)
           otherOut == OtherOwed(o, e)
<1>1. VaultTypeOK /\ QueuesMatch /\ Funded /\ ClaimsBacked /\ SharesCounted
  BY DEF VaultInv
<1>2. /\ SumFunction(SharesByClaim') = SumFunction(SharesByClaim) - sharesOut
      /\ SumFunction(CollateralByClaim') = SumFunction(CollateralByClaim) - collateralOut
      /\ SumFunction(OtherByClaim') = SumFunction(OtherByClaim) - otherOut
      /\ sharesOut \in Nat /\ sharesOut <= SumFunction(SharesByClaim)
      /\ collateralOut \in 0 .. reserved.collateral
      /\ otherOut \in 0 .. reserved.other
  BY ClaimTakesItsPart
<1>3. /\ reserved.collateral \in Nat /\ reserved.other \in Nat
      /\ collateral \in Nat /\ other \in Nat /\ escrow \in Nat
      /\ pending.withdraw \in Nat /\ pending.deposit \in Nat /\ totalShares \in Nat
      /\ SumFunction(SharesByClaim) \in Nat
  BY <1>1, StateFacts, DueFacts DEF DuesAreSums
<1>4. /\ AtMost(collateralOut, reserved.collateral) = collateralOut
      /\ AtMost(otherOut, reserved.other) = otherOut
  BY <1>2, <1>3 DEF AtMost
<1>5. /\ sharesOut <= escrow /\ collateralOut <= collateral /\ otherOut <= other
      /\ escrow' = escrow - sharesOut
      /\ wallet' = [wallet EXCEPT ![o] = @ + sharesOut]
      /\ collateral' = collateral - collateralOut
      /\ other' = other - otherOut
      /\ reserved' = [collateral |-> reserved.collateral - collateralOut,
                      other |-> reserved.other - otherOut]
      /\ positions' = [positions EXCEPT ![o].deposit = @ - Deposited(o, e),
                                        ![o].withdraw = @ - Withdrawn(o, e)]
      /\ UNCHANGED <<epoch, due, halted, lastMark, totalShares, locked, pending, records>>
  BY <1>4 DEF VaultClaim, calendar, params
<1>6. /\ positions' \in [Owners -> PositionType]
      /\ \A x \in Owners : /\ positions'[x].depositEpoch = positions[x].depositEpoch
                           /\ positions'[x].withdrawEpoch = positions[x].withdrawEpoch
      /\ \A x \in Owners : /\ Deposited(x, epoch)' = Deposited(x, epoch)
                           /\ Withdrawn(x, epoch)' = Withdrawn(x, epoch)
  <2>1. e # epoch
    BY <1>1, StateFacts
  <2>2. /\ epoch' = epoch /\ records' = records
        /\ positions' = [positions EXCEPT ![o].deposit = @ - Deposited(o, e),
                                          ![o].withdraw = @ - Withdrawn(o, e)]
    BY <1>5
  <2>3. /\ positions' \in [Owners -> PositionType]
        /\ \A x \in Owners : /\ positions'[x].depositEpoch = positions[x].depositEpoch
                             /\ positions'[x].withdrawEpoch = positions[x].withdrawEpoch
        /\ \A x \in Owners : \A k :
             /\ Deposited(x, k)' = IF x = o /\ k = e THEN 0 ELSE Deposited(x, k)
             /\ Withdrawn(x, k)' = IF x = o /\ k = e THEN 0 ELSE Withdrawn(x, k)
    BY <1>1, <2>2, ClaimEmpties
  <2>4. \A x \in Owners : /\ Deposited(x, epoch)' = Deposited(x, epoch)
                          /\ Withdrawn(x, epoch)' = Withdrawn(x, epoch)
    <3>1. epoch' = epoch
      BY <2>2
    <3>2. ASSUME NEW x \in Owners, NEW k, k # e
          PROVE  Deposited(x, k)' = Deposited(x, k) /\ Withdrawn(x, k)' = Withdrawn(x, k)
      BY <2>3, <3>2
    <3>3. ASSUME NEW x \in Owners, NEW k, k = epoch
          PROVE  Deposited(x, epoch)' = Deposited(x, k)' /\ Withdrawn(x, epoch)' = Withdrawn(x, k)'
      BY <3>1, <3>3, Zenon DEF Deposited, Withdrawn
    <3> QED
      BY <2>1, <3>2, <3>3, Zenon
  <2> QED
    BY <2>3, <2>4
<1> HIDE DEF sharesOut, collateralOut, otherOut
<1>7. /\ wallet' \in [Owners -> Nat]
      /\ wallet'[o] = wallet[o] + sharesOut /\ wallet[o] \in Nat
      /\ \A x \in Owners \ {o} : wallet'[x] = wallet[x]
  <2>1. wallet \in [Owners -> Nat] /\ wallet' = [wallet EXCEPT ![o] = @ + sharesOut]
    BY <1>1, <1>5 DEF VaultTypeOK
  <2>2. wallet[o] + sharesOut \in Nat
    BY <1>2, <2>1
  <2> QED
    BY <2>1, <2>2
<1>8. VaultTypeOK'
  <2>1. collateral' \in Nat /\ other' \in Nat /\ escrow' \in Nat
    BY <1>2, <1>3, <1>5
  <2>2. reserved' \in [collateral : Nat, other : Nat]
    <3>1. reserved.collateral - collateralOut \in Nat /\ reserved.other - otherOut \in Nat
      BY <1>2, <1>3
    <3> QED
      BY <1>5, <3>1
  <2>3. UNCHANGED <<epoch, due, halted, lastMark, totalShares, locked, pending, records>>
    BY <1>5
  <2>4. positions' \in [Owners -> PositionType] /\ wallet' \in [Owners -> Nat]
    BY <1>6, <1>7
  <2>5. pending' \in [deposit : Nat, withdraw : Nat] /\ pending'.withdraw <= totalShares
    BY <1>1, <2>3, Zenon DEF VaultTypeOK
  <2> QED
    BY <1>1, <2>1, <2>2, <2>3, <2>4, <2>5, TypesKept
<1>9. QueuesMatch'
  <2>1. DepositsQueued' = DepositsQueued /\ WithdrawalsQueued' = WithdrawalsQueued
    BY <1>5, <1>6 DEF DepositsQueued, WithdrawalsQueued
  <2> QED
    BY <1>1, <1>5, <1>6, <2>1 DEF QueuesMatch
<1>10. reserved'.collateral = reserved.collateral - collateralOut
       /\ reserved'.other = reserved.other - otherOut
  BY <1>5
<1>11. Funded'
  <2>1. collateral >= reserved.collateral + pending.deposit /\ other >= reserved.other
    BY <1>1 DEF Funded
  <2>2. /\ collateral' >= reserved'.collateral + pending'.deposit
        /\ other' >= reserved'.other
    BY <1>2, <1>3, <1>5, <1>10, <2>1
  <2> QED
    BY <2>2 DEF Funded
<1>12. ClaimsBacked'
  <2>1. /\ escrow >= pending.withdraw + SumFunction(SharesByClaim)
        /\ SumFunction(CollateralByClaim) <= reserved.collateral
        /\ SumFunction(OtherByClaim) <= reserved.other
    BY <1>1 DEF ClaimsBacked, EscrowCovers, ReservesCoverClaims
  <2>2. SumFunction(CollateralByClaim) \in Nat /\ SumFunction(OtherByClaim) \in Nat
    BY <1>1, DueFacts, SumNat DEF DuesAreSums
  <2>3. /\ escrow' >= pending'.withdraw + SumFunction(SharesByClaim')
        /\ SumFunction(CollateralByClaim') <= reserved'.collateral
        /\ SumFunction(OtherByClaim') <= reserved'.other
    BY <1>2, <1>3, <1>5, <1>10, <2>1, <2>2
  <2> QED
    BY <2>3 DEF ClaimsBacked, EscrowCovers, ReservesCoverClaims
<1>13. SharesCounted'
  <2>1. NatTerms(wallet', Owners) /\ SumFunction(wallet') = SumFunctionOnSet(wallet', Owners)
    BY <1>7 DEF NatTerms, SumFunction
  <2>2. /\ NatTerms(wallet, Owners) /\ SumFunction(wallet) = SumFunctionOnSet(wallet, Owners)
        /\ SumFunction(wallet) \in Nat
    BY <1>1, QueueFacts DEF QueuesAreSums
  <2>3. SumFunctionOnSet(wallet', Owners)
          = SumFunctionOnSet(wallet, Owners) - wallet[o] + wallet'[o]
    BY <1>7, <2>1, <2>2, Parameters, NatTermsAreInts, SumUpdate
  <2>4. SumFunction(wallet') = SumFunction(wallet) + sharesOut
    BY <1>2, <1>7, <2>1, <2>2, <2>3
  <2>5. SumFunction(wallet) + escrow <= totalShares
    BY <1>1 DEF SharesCounted
  <2>6. SumFunction(wallet') + escrow' <= totalShares'
    BY <1>2, <1>3, <1>5, <2>2, <2>4, <2>5
  <2> QED
    BY <2>6 DEF SharesCounted
<1> QED
  BY <1>8, <1>9, <1>11, <1>12, <1>13 DEF VaultInv

-----------------------------------------------------------------------------
(* The roll.                                                               *)

\* The price of new shares is a number, whatever the mark.
LEMMA SharePriceIsNumber ==
  ASSUME VaultTypeOK, NEW mark \in Marks
  PROVE  /\ Nav(mark) \in Nat /\ NavStaying(mark) \in Nat
         /\ SharesPerRaw(mark) \in Nat
         /\ SharesStaying \in Nat
<1>1. /\ CollateralFree \in Nat /\ OtherFree \in Nat
      /\ ReserveCollateral \in Nat /\ ReserveOther \in Nat
  BY FreeFacts
<1>2. InCollateral(OtherFree, mark) \in Nat /\ InCollateral(ReserveOther, mark) \in Nat
  BY <1>1, ConversionBounds
<1>3. Nav(mark) \in Nat
  BY <1>1, <1>2 DEF Nav
<1>4. ASSUME NEW a \in Nat, NEW b \in Nat PROVE Saturating(a, b) \in Nat
  BY DEF Saturating
<1>5. NavStaying(mark) \in Nat
  BY <1>1, <1>2, <1>3, <1>4 DEF NavStaying
<1>6. SharesStaying \in Nat
  BY StateFacts DEF SharesStaying
<1>7. ASSUME NEW nav \in Nat PROVE SharesAt(nav) \in Nat
  <2>1. SHARE_UNIT * IDX_SCALE \in Nat /\ SharesStaying * IDX_SCALE \in Nat
    BY <1>6, Parameters, MulNat
  <2>2. (SHARE_UNIT * IDX_SCALE) \div UnitRaw \in Nat
    BY <2>1, Parameters, DivBounds
  <2>3. nav # 0 => (SharesStaying * IDX_SCALE) \div nav \in Nat
    BY <1>7, <2>1, DivBounds
  <2> QED
    BY <2>2, <2>3 DEF SharesAt
<1> QED
  BY <1>3, <1>5, <1>6, <1>7 DEF SharesPerRaw

\* What is owed once an epoch has rolled: as much as before, and of its queue
\* no more than the whole queue at its price.
LEMMA RolledSum ==
  ASSUME VaultTypeOK, NEW g, NEW old, NatTerms(old, Claims),
         NEW queue, NatTerms(queue, Owners), NEW price \in Nat,
         \A c \in Claims : g[c] = old[c],
         \A o \in Owners : g[<<o, epoch>>] = AtPrice(queue[o], price)
  PROVE  SumFunctionOnSet(g, Owners \X (DOMAIN records \cup {epoch}))
           <= SumFunctionOnSet(old, Claims) + AtPrice(SumFunctionOnSet(queue, Owners), price)
<1> DEFINE dom == DOMAIN records
           all == Owners \X (dom \cup {epoch})
           col == [o \in Owners |-> AtPrice(queue[o], price)]
<1>1. IsFiniteSet(Claims) /\ IsFiniteSet(dom) /\ IsFiniteSet(Owners)
  <2>1. IsFiniteSet(0 .. epoch - 1)
    BY StateFacts, FS_Interval
  <2> QED
    BY <2>1, StateFacts, DueFacts, Parameters DEF DuesAreSums
<1>2. epoch \notin dom
  BY StateFacts
<1>3. Claims = Owners \X dom
  BY DEF Claims
<1>4. \A o \in Owners : queue[o] \in Nat /\ col[o] = (queue[o] * price) \div IDX_SCALE
  BY DEF NatTerms, AtPrice
<1>5. /\ NatTerms(col, Owners)
      /\ SumFunctionOnSet(col, Owners) <= (SumFunctionOnSet(queue, Owners) * price) \div IDX_SCALE
  <2> HIDE DEF col
  <2> QED
    BY <1>1, <1>4, Parameters, SumOfFloors
<1>6. IntTerms(g, all)
  <2>1. ASSUME NEW c \in all PROVE g[c] \in Int
    <3>1. CASE c \in Claims
      <4>1. old[c] \in Nat /\ g[c] = old[c]
        BY <3>1 DEF NatTerms
      <4> QED
        BY <4>1
    <3>2. CASE c \notin Claims
      <4>1. PICK o \in Owners : c = <<o, epoch>>
        BY <1>3, <3>2
      <4>2. g[c] = col[o] /\ col[o] \in Nat
        BY <1>5, <4>1 DEF NatTerms
      <4> QED
        BY <4>2
    <3> QED
      BY <3>1, <3>2
  <2> QED
    BY <2>1 DEF IntTerms
<1>7. \A o \in Owners : col[o] = g[<<o, epoch>>]
  OBVIOUS
<1> HIDE DEF col, dom, all
<1>8. SumFunctionOnSet(g, all)
        = SumFunctionOnSet(g, Owners \X dom) + SumFunctionOnSet(col, Owners)
  BY <1>1, <1>2, <1>6, <1>7, SumOfColumn DEF all
<1>9. SumFunctionOnSet(g, Claims) = SumFunctionOnSet(old, Claims)
  BY <1>1, SumAgree
<1>10. /\ SumFunctionOnSet(old, Claims) \in Nat /\ SumFunctionOnSet(col, Owners) \in Nat
       /\ SumFunctionOnSet(queue, Owners) \in Nat
  BY <1>1, <1>5, SumNat
<1>11. AtPrice(SumFunctionOnSet(queue, Owners), price) \in Nat
  BY <1>10, PriceIsNumber
<1> QED
  BY <1>3, <1>5, <1>8, <1>9, <1>10, <1>11 DEF all, dom, AtPrice

\* The roll, in numbers: what it burns, mints and sets aside.
LEMMA RollFacts ==
  ASSUME VaultInv, NEW mark \in Marks, Roll(mark)
  PROVE  /\ records' = [e \in DOMAIN records \cup {epoch} |->
                          IF e = epoch
                            THEN [sharesPerRaw |-> SharesPerRaw(mark),
                                  collateralPerShare |-> PerShare(CollateralFree),
                                  otherPerShare |-> PerShare(OtherFree)]
                            ELSE records[e]]
         /\ escrow' = escrow - pending.withdraw + AtPrice(pending.deposit, SharesPerRaw(mark))
         /\ totalShares' = SharesStaying + AtPrice(pending.deposit, SharesPerRaw(mark))
         /\ AtPrice(pending.deposit, SharesPerRaw(mark)) \in Nat
         /\ reserved'.collateral = reserved.collateral + ReserveCollateral
         /\ reserved'.other = reserved.other + ReserveOther
         /\ reserved' \in [collateral : Nat, other : Nat]
         /\ pending' = [deposit |-> 0, withdraw |-> 0]
         /\ pending'.deposit = 0 /\ pending'.withdraw = 0
         /\ lastMark' = mark /\ epoch' = epoch + 1 /\ due' = FALSE
         /\ UNCHANGED <<halted, locked, positions, collateral, other, wallet>>
<1>1. VaultTypeOK
  BY DEF VaultInv
<1>2. /\ AtPrice(pending.deposit, SharesPerRaw(mark)) \in Nat
      /\ ReserveCollateral \in Nat /\ ReserveOther \in Nat
      /\ reserved.collateral \in Nat /\ reserved.other \in Nat
  <2>1. pending.deposit \in Nat /\ reserved.collateral \in Nat /\ reserved.other \in Nat
    BY <1>1, StateFacts
  <2>2. SharesPerRaw(mark) \in Nat
    BY <1>1, SharePriceIsNumber
  <2>3. ReserveCollateral \in Nat /\ ReserveOther \in Nat
    BY <1>1, FreeFacts
  <2> QED
    BY <2>1, <2>2, <2>3, PriceIsNumber
<1>3. /\ reserved' = [collateral |-> reserved.collateral + ReserveCollateral,
                      other |-> reserved.other + ReserveOther]
      /\ pending' = [deposit |-> 0, withdraw |-> 0]
  BY DEF Roll, ReservedAfter, PendingAfter
<1>4. /\ reserved'.collateral = reserved.collateral + ReserveCollateral
      /\ reserved'.other = reserved.other + ReserveOther
      /\ reserved' \in [collateral : Nat, other : Nat]
  BY <1>2, <1>3
<1>5. pending'.deposit = 0 /\ pending'.withdraw = 0
  BY <1>3
<1>6. totalShares' = SharesStaying + AtPrice(pending.deposit, SharesPerRaw(mark))
  BY DEF Roll, SharesStaying
<1>7. /\ records' = [e \in DOMAIN records \cup {epoch} |->
                       IF e = epoch
                         THEN [sharesPerRaw |-> SharesPerRaw(mark),
                               collateralPerShare |-> PerShare(CollateralFree),
                               otherPerShare |-> PerShare(OtherFree)]
                         ELSE records[e]]
      /\ escrow' = escrow - pending.withdraw + AtPrice(pending.deposit, SharesPerRaw(mark))
      /\ lastMark' = mark /\ epoch' = epoch + 1 /\ due' = FALSE
      /\ UNCHANGED <<halted, locked, positions, collateral, other, wallet>>
  BY Zenon DEF Roll
<1> QED
  BY <1>2, <1>3, <1>4, <1>5, <1>6, <1>7, Zenon

\* The records a roll leaves: those of before, and the one of its epoch.
LEMMA RecordAdded ==
  ASSUME VaultInv, NEW mark \in Marks, Roll(mark)
  PROVE  /\ DOMAIN records' = DOMAIN records \cup {epoch}
         /\ \A e \in DOMAIN records : records'[e] = records[e]
         /\ records'[epoch].sharesPerRaw = SharesPerRaw(mark)
         /\ records'[epoch].collateralPerShare = PerShare(CollateralFree)
         /\ records'[epoch].otherPerShare = PerShare(OtherFree)
         /\ records'[epoch] \in PriceType
         /\ Claims' = Owners \X (DOMAIN records \cup {epoch})
<1>1. VaultTypeOK
  BY DEF VaultInv
<1> DEFINE record == [sharesPerRaw |-> SharesPerRaw(mark),
                      collateralPerShare |-> PerShare(CollateralFree),
                      otherPerShare |-> PerShare(OtherFree)]
<1>2. record \in PriceType
  <2>1. /\ SharesPerRaw(mark) \in Nat /\ PerShare(CollateralFree) \in Nat
        /\ PerShare(OtherFree) \in Nat
    BY <1>1, SharePriceIsNumber, FreeFacts
  <2> QED
    BY <2>1 DEF PriceType
<1>3. /\ record.sharesPerRaw = SharesPerRaw(mark)
      /\ record.collateralPerShare = PerShare(CollateralFree)
      /\ record.otherPerShare = PerShare(OtherFree)
  OBVIOUS
<1>4. records' = [e \in DOMAIN records \cup {epoch} |->
                    IF e = epoch THEN record ELSE records[e]]
  BY RollFacts
<1>5. epoch \notin DOMAIN records
  BY <1>1, StateFacts
<1> HIDE DEF record
<1>6. /\ DOMAIN records' = DOMAIN records \cup {epoch}
      /\ \A e \in DOMAIN records : records'[e] = records[e]
      /\ records'[epoch] = record
  BY <1>4, <1>5
<1>7. Claims' = Owners \X (DOMAIN records \cup {epoch})
  BY <1>6 DEF Claims
<1> QED
  BY <1>2, <1>3, <1>6, <1>7

\* What a roll makes due: no more than it mints, and no more than it sets aside.
LEMMA RollDues ==
  ASSUME VaultInv, NEW mark \in Marks, Roll(mark)
  PROVE  /\ SumFunction(SharesByClaim')
              <= SumFunction(SharesByClaim) + AtPrice(pending.deposit, SharesPerRaw(mark))
         /\ SumFunction(CollateralByClaim')
              <= SumFunction(CollateralByClaim) + ReserveCollateral
         /\ SumFunction(OtherByClaim') <= SumFunction(OtherByClaim) + ReserveOther
<1>1. VaultTypeOK /\ QueuesMatch
  BY DEF VaultInv
<1> DEFINE all == Owners \X (DOMAIN records \cup {epoch})
<1>2. /\ Claims' = all
      /\ \A e \in DOMAIN records : records'[e] = records[e]
      /\ records'[epoch].sharesPerRaw = SharesPerRaw(mark)
      /\ records'[epoch].collateralPerShare = PerShare(CollateralFree)
      /\ records'[epoch].otherPerShare = PerShare(OtherFree)
  BY RecordAdded
<1>3. positions' = positions
  BY RollFacts
<1>4. \A x, e : Deposited(x, e)' = Deposited(x, e) /\ Withdrawn(x, e)' = Withdrawn(x, e)
  BY <1>3 DEF Deposited, Withdrawn
<1>5. \A x \in Owners, e \in DOMAIN records :
        /\ SharesOwed(x, e)' = SharesOwed(x, e)
        /\ CollateralOwed(x, e)' = CollateralOwed(x, e)
        /\ OtherOwed(x, e)' = OtherOwed(x, e)
  BY <1>2, <1>4 DEF SharesOwed, CollateralOwed, OtherOwed, AtPrice
<1>6. \A c \in Claims : c \in all /\ c[1] \in Owners /\ c[2] \in DOMAIN records
  BY DEF Claims
<1>7. \A o \in Owners : <<o, epoch>> \in all
  OBVIOUS
<1>8. /\ \A c \in all : SharesByClaim'[c] = SharesOwed(c[1], c[2])'
      /\ \A c \in all : CollateralByClaim'[c] = CollateralOwed(c[1], c[2])'
      /\ \A c \in all : OtherByClaim'[c] = OtherOwed(c[1], c[2])'
      /\ \A c \in Claims : SharesByClaim[c] = SharesOwed(c[1], c[2])
      /\ \A c \in Claims : CollateralByClaim[c] = CollateralOwed(c[1], c[2])
      /\ \A c \in Claims : OtherByClaim[c] = OtherOwed(c[1], c[2])
  BY <1>2 DEF SharesByClaim, CollateralByClaim, OtherByClaim
<1> HIDE DEF all
<1>9. \A c \in Claims : /\ SharesByClaim'[c] = SharesByClaim[c]
                        /\ CollateralByClaim'[c] = CollateralByClaim[c]
                        /\ OtherByClaim'[c] = OtherByClaim[c]
  BY <1>5, <1>6, <1>8
<1>10. ASSUME NEW o \in Owners
       PROVE  /\ SharesByClaim'[<<o, epoch>>] = AtPrice(DepositsQueued[o], SharesPerRaw(mark))
              /\ CollateralByClaim'[<<o, epoch>>]
                   = AtPrice(WithdrawalsQueued[o], PerShare(CollateralFree))
              /\ OtherByClaim'[<<o, epoch>>]
                   = AtPrice(WithdrawalsQueued[o], PerShare(OtherFree))
  <2> DEFINE e == epoch
  <2>1. /\ Deposited(o, e) = DepositsQueued[o] /\ Withdrawn(o, e) = WithdrawalsQueued[o]
    BY DEF DepositsQueued, WithdrawalsQueued
  <2>2. <<o, e>> \in all
    BY <1>7
  <2> HIDE DEF e
  <2>3. PICK k : k = e
    OBVIOUS
  <2>4. /\ SharesOwed(o, k)' = AtPrice(Deposited(o, k), SharesPerRaw(mark))
        /\ CollateralOwed(o, k)' = AtPrice(Withdrawn(o, k), PerShare(CollateralFree))
        /\ OtherOwed(o, k)' = AtPrice(Withdrawn(o, k), PerShare(OtherFree))
    BY <1>2, <1>4, <2>3 DEF SharesOwed, CollateralOwed, OtherOwed, AtPrice, e
  <2>5. /\ SharesByClaim'[<<o, k>>] = SharesOwed(o, k)'
        /\ CollateralByClaim'[<<o, k>>] = CollateralOwed(o, k)'
        /\ OtherByClaim'[<<o, k>>] = OtherOwed(o, k)'
    BY <1>8, <2>2, <2>3
  <2> QED
    BY <2>1, <2>3, <2>4, <2>5 DEF e
<1>11. /\ NatTerms(SharesByClaim, Claims)
       /\ NatTerms(CollateralByClaim, Claims)
       /\ NatTerms(OtherByClaim, Claims)
       /\ SumFunction(SharesByClaim) = SumFunctionOnSet(SharesByClaim, Claims)
       /\ SumFunction(CollateralByClaim) = SumFunctionOnSet(CollateralByClaim, Claims)
       /\ SumFunction(OtherByClaim) = SumFunctionOnSet(OtherByClaim, Claims)
       /\ NatTerms(DepositsQueued, Owners)
       /\ NatTerms(WithdrawalsQueued, Owners)
       /\ SumFunctionOnSet(DepositsQueued, Owners) = pending.deposit
       /\ SumFunctionOnSet(WithdrawalsQueued, Owners) = pending.withdraw
  BY <1>1, DueFacts, QueueFacts DEF DuesAreSums, QueuesAreSums, QueuesMatch
<1>12. /\ SumFunction(SharesByClaim') = SumFunctionOnSet(SharesByClaim', all)
       /\ SumFunction(CollateralByClaim') = SumFunctionOnSet(CollateralByClaim', all)
       /\ SumFunction(OtherByClaim') = SumFunctionOnSet(OtherByClaim', all)
  <2>1. /\ DOMAIN SharesByClaim' = all
        /\ DOMAIN CollateralByClaim' = all
        /\ DOMAIN OtherByClaim' = all
    BY <1>2 DEF SharesByClaim, CollateralByClaim, OtherByClaim
  <2> QED
    BY <2>1, Zenon DEF SumFunction
<1>13. SharesPerRaw(mark) \in Nat
  BY <1>1, SharePriceIsNumber
<1>14. PerShare(CollateralFree) \in Nat /\ PerShare(OtherFree) \in Nat
  BY <1>1, FreeFacts
<1>15. SumFunctionOnSet(SharesByClaim', all)
         <= SumFunctionOnSet(SharesByClaim, Claims)
              + AtPrice(SumFunctionOnSet(DepositsQueued, Owners), SharesPerRaw(mark))
  BY <1>1, <1>9, <1>10, <1>11, <1>13, RolledSum DEF all
<1>16. SumFunctionOnSet(CollateralByClaim', all)
         <= SumFunctionOnSet(CollateralByClaim, Claims)
              + AtPrice(SumFunctionOnSet(WithdrawalsQueued, Owners), PerShare(CollateralFree))
  BY <1>1, <1>9, <1>10, <1>11, <1>14, RolledSum DEF all
<1>17. SumFunctionOnSet(OtherByClaim', all)
         <= SumFunctionOnSet(OtherByClaim, Claims)
              + AtPrice(SumFunctionOnSet(WithdrawalsQueued, Owners), PerShare(OtherFree))
  BY <1>1, <1>9, <1>10, <1>11, <1>14, RolledSum DEF all
<1> QED
  BY <1>11, <1>12, <1>15, <1>16, <1>17 DEF ReserveCollateral, ReserveOther

\* A roll mints for the deposits, reserves for the withdrawals and leaves the
\* rest of the vault to the shares that stay.
LEMMA RollKeeps ==
  ASSUME VaultInv, NEW mark \in Marks, Roll(mark)
  PROVE  VaultInv'
<1> DEFINE minted == AtPrice(pending.deposit, SharesPerRaw(mark))
<1>1. VaultTypeOK /\ QueuesMatch /\ Funded /\ ClaimsBacked /\ SharesCounted
  BY DEF VaultInv
<1>2. /\ escrow' = escrow - pending.withdraw + minted
      /\ totalShares' = SharesStaying + minted /\ minted \in Nat
      /\ reserved'.collateral = reserved.collateral + ReserveCollateral
      /\ reserved'.other = reserved.other + ReserveOther
      /\ reserved' \in [collateral : Nat, other : Nat]
      /\ pending' = [deposit |-> 0, withdraw |-> 0]
      /\ pending'.deposit = 0 /\ pending'.withdraw = 0
      /\ lastMark' = mark /\ epoch' = epoch + 1 /\ due' = FALSE
      /\ UNCHANGED <<halted, locked, positions, collateral, other, wallet>>
  BY RollFacts
<1>3. /\ epoch \in Nat /\ escrow \in Nat /\ totalShares \in Nat
      /\ collateral \in Nat /\ other \in Nat
      /\ reserved.collateral \in Nat /\ reserved.other \in Nat
      /\ pending.deposit \in Nat /\ pending.withdraw \in Nat
      /\ pending.withdraw <= totalShares
  BY <1>1, StateFacts
<1>4. /\ SumFunction(SharesByClaim') <= SumFunction(SharesByClaim) + minted
      /\ SumFunction(CollateralByClaim') <= SumFunction(CollateralByClaim) + ReserveCollateral
      /\ SumFunction(OtherByClaim') <= SumFunction(OtherByClaim) + ReserveOther
  BY RollDues
<1> HIDE DEF minted
<1>5. /\ escrow >= pending.withdraw + SumFunction(SharesByClaim)
      /\ SumFunction(CollateralByClaim) <= reserved.collateral
      /\ SumFunction(OtherByClaim) <= reserved.other
      /\ SumFunction(wallet) + escrow <= totalShares
      /\ collateral >= reserved.collateral + pending.deposit
      /\ other >= reserved.other
  BY <1>1 DEF ClaimsBacked, EscrowCovers, ReservesCoverClaims, SharesCounted, Funded
<1>6. SumFunction(SharesByClaim) \in Nat /\ SumFunction(wallet) \in Nat
  BY <1>1, DueFacts, QueueFacts DEF DuesAreSums, QueuesAreSums
<1>7. /\ ReserveCollateral \in Nat /\ ReserveCollateral <= CollateralFree
      /\ ReserveOther \in Nat /\ ReserveOther <= OtherFree
  <2>1. CollateralFree \in Nat /\ OtherFree \in Nat
    BY <1>1, FreeFacts
  <2>2. ReserveCollateral \in 0 .. CollateralFree /\ ReserveOther \in 0 .. OtherFree
    BY <1>1, FreeFacts
  <2> QED
    BY <2>1, <2>2
<1>8. CollateralFree = collateral - reserved.collateral - pending.deposit
      /\ OtherFree = other - reserved.other
  BY <1>3, <1>5 DEF CollateralFree, OtherFree, Saturating
<1>9. VaultTypeOK'
  <2>1. epoch' \in Nat /\ mark \in Nat
    BY <1>2, <1>3, Parameters
  <2>2. escrow' \in Nat
    BY <1>2, <1>3, <1>5, <1>6
  <2>3. totalShares' \in Nat
    BY <1>2, <1>3 DEF SharesStaying
  <2>4. DOMAIN records' = 0 .. epoch' - 1
    <3>1. DOMAIN records' = DOMAIN records \cup {epoch} /\ DOMAIN records = 0 .. epoch - 1
      BY <1>1, RecordAdded, StateFacts
    <3> QED
      BY <1>2, <1>3, <3>1
  <2>5. \A e \in DOMAIN records' : records'[e] \in PriceType
    <3>1. /\ DOMAIN records' = DOMAIN records \cup {epoch}
          /\ \A e \in DOMAIN records : records'[e] = records[e]
          /\ records'[epoch] \in PriceType
      BY RecordAdded
    <3>2. \A e \in DOMAIN records : records[e] \in PriceType
      BY <1>1 DEF VaultTypeOK
    <3> QED
      BY <3>1, <3>2
  <2>6. {due', halted'} \subseteq BOOLEAN
    <3>1. due' \in BOOLEAN
      BY <1>2, Zenon
    <3>2. halted' \in BOOLEAN
      BY <1>1, <1>2 DEF VaultTypeOK
    <3> QED
      BY <3>1, <3>2, Zenon
  <2>7. {epoch', lastMark', totalShares', locked', collateral', other', escrow'} \subseteq Nat
    <3>1. locked' \in Nat /\ collateral' \in Nat /\ other' \in Nat
      BY <1>1, <1>2, StateFacts
    <3>2. lastMark' \in Nat
      BY <1>2, <2>1
    <3> QED
      BY <2>1, <2>2, <2>3, <3>1, <3>2
  <2>8. pending' \in [deposit : Nat, withdraw : Nat] /\ pending'.withdraw <= totalShares'
    BY <1>2, <2>3
  <2>9. positions' \in [Owners -> PositionType] /\ wallet' \in [Owners -> Nat]
    BY <1>1, <1>2 DEF VaultTypeOK
  <2>10. reserved' \in [collateral : Nat, other : Nat]
    BY <1>2
  <2> QED
    BY <2>4, <2>5, <2>6, <2>7, <2>8, <2>9, <2>10, Zenon DEF VaultTypeOK
<1>10. QueuesMatch'
  <2>1. \A o \in Owners : /\ positions[o].depositEpoch <= epoch
                          /\ positions[o].withdrawEpoch <= epoch
                          /\ positions[o].depositEpoch \in Nat
                          /\ positions[o].withdrawEpoch \in Nat
    BY <1>1, StateFacts DEF QueuesMatch
  <2>2. \A o \in Owners : /\ positions'[o].depositEpoch <= epoch'
                          /\ positions'[o].withdrawEpoch <= epoch'
                          /\ positions'[o].depositEpoch # epoch'
                          /\ positions'[o].withdrawEpoch # epoch'
    BY <1>2, <1>3, <2>1
  <2>3. \A o \in Owners : DepositsQueued'[o] = 0 /\ WithdrawalsQueued'[o] = 0
    BY <2>2 DEF DepositsQueued, WithdrawalsQueued, Deposited, Withdrawn
  <2>4. /\ SumFunctionOnSet(DepositsQueued', Owners) = 0
        /\ SumFunctionOnSet(WithdrawalsQueued', Owners) = 0
    BY <2>3, Parameters, SumOfZeros
  <2>5. /\ SumFunction(DepositsQueued') = SumFunctionOnSet(DepositsQueued', Owners)
        /\ SumFunction(WithdrawalsQueued') = SumFunctionOnSet(WithdrawalsQueued', Owners)
    <3>1. QueuesAreSums'
      BY <1>9, QueueFacts, PTL
    <3> QED
      BY <3>1 DEF QueuesAreSums
  <2> QED
    BY <1>2, <2>2, <2>4, <2>5 DEF QueuesMatch
<1>11. Funded'
  <2>1. /\ collateral' >= reserved'.collateral + pending'.deposit
        /\ other' >= reserved'.other
    BY <1>2, <1>3, <1>5, <1>7, <1>8
  <2> QED
    BY <2>1 DEF Funded
<1>12. ClaimsBacked'
  <2>1. DuesAreSums'
    BY <1>9, DueFacts, PTL
  <2>2. /\ SumFunction(CollateralByClaim') \in Nat
        /\ SumFunction(OtherByClaim') \in Nat
        /\ SumFunction(SharesByClaim') \in Nat
    BY <2>1, SumNat DEF DuesAreSums
  <2>3. SumFunction(CollateralByClaim) \in Nat /\ SumFunction(OtherByClaim) \in Nat
    BY <1>1, DueFacts, SumNat DEF DuesAreSums
  <2>4. /\ escrow' >= pending'.withdraw + SumFunction(SharesByClaim')
        /\ SumFunction(CollateralByClaim') <= reserved'.collateral
        /\ SumFunction(OtherByClaim') <= reserved'.other
    BY <1>2, <1>3, <1>4, <1>5, <1>6, <1>7, <2>2, <2>3
  <2> QED
    BY <2>4 DEF ClaimsBacked, EscrowCovers, ReservesCoverClaims
<1>13. SharesCounted'
  <2>1. SumFunction(wallet') = SumFunction(wallet)
    BY <1>2
  <2>2. SumFunction(wallet') + escrow' <= totalShares'
    BY <1>2, <1>3, <1>5, <1>6, <2>1 DEF SharesStaying
  <2> QED
    BY <2>2 DEF SharesCounted
<1> QED
  BY <1>9, <1>10, <1>11, <1>12, <1>13 DEF VaultInv

-----------------------------------------------------------------------------
(* Shares as tokens, the writing side, and the rest.                       *)

\* Moves of shares between wallets, and out of them, touch only the wallets.
LEMMA WalletsOnly ==
  ASSUME VaultInv, wallet' \in [Owners -> Nat],
         SumFunctionOnSet(wallet', Owners) <= SumFunctionOnSet(wallet, Owners),
         UNCHANGED <<epoch, due, halted, lastMark, totalShares, locked, pending, reserved,
                     positions, records, collateral, other, escrow>>
  PROVE  VaultInv'
<1>1. VaultTypeOK /\ QueuesMatch /\ Funded /\ ClaimsBacked /\ SharesCounted
  BY DEF VaultInv
<1>2. VaultTypeOK'
  <2>1. /\ collateral' \in Nat /\ other' \in Nat /\ escrow' \in Nat
        /\ pending'.withdraw <= totalShares
    BY <1>1, StateFacts
  <2>2. /\ pending' \in [deposit : Nat, withdraw : Nat]
        /\ reserved' \in [collateral : Nat, other : Nat]
        /\ positions' \in [Owners -> PositionType]
    BY <1>1, Zenon DEF VaultTypeOK
  <2> QED
    BY <1>1, <2>1, <2>2, TypesKept
<1>3. QueuesMatch' /\ ClaimsBacked'
  BY <1>1, QueuesLeftAlone, ClaimsLeftAlone
<1>4. Funded'
  BY <1>1 DEF Funded
<1>5. SharesCounted'
  <2>1. DOMAIN wallet' = Owners /\ NatTerms(wallet', Owners)
    BY DEF NatTerms
  <2>2. SumFunction(wallet') = SumFunctionOnSet(wallet', Owners)
    BY <2>1, Zenon DEF SumFunction
  <2>3. SumFunction(wallet) = SumFunctionOnSet(wallet, Owners) /\ SumFunction(wallet) \in Nat
    BY <1>1, QueueFacts DEF QueuesAreSums
  <2>4. SumFunctionOnSet(wallet', Owners) \in Nat
    BY <2>1, Parameters, SumNat
  <2>5. escrow \in Nat /\ totalShares \in Nat
    BY <1>1, StateFacts
  <2> QED
    BY <1>1, <2>2, <2>3, <2>4, <2>5 DEF SharesCounted
<1> QED
  BY <1>2, <1>3, <1>4, <1>5 DEF VaultInv

\* One wallet that changes changes the sum by as much.
LEMMA OneWallet ==
  ASSUME NEW w \in [Owners -> Nat], NEW v \in [Owners -> Nat], NEW o \in Owners,
         \A x \in Owners \ {o} : v[x] = w[x]
  PROVE  /\ SumFunctionOnSet(v, Owners) = SumFunctionOnSet(w, Owners) - w[o] + v[o]
         /\ SumFunctionOnSet(w, Owners) \in Nat /\ w[o] \in Nat
<1>1. NatTerms(v, Owners) /\ NatTerms(w, Owners)
  BY DEF NatTerms
<1>2. SumFunctionOnSet(v, Owners) = SumFunctionOnSet(w, Owners) - w[o] + v[o]
  BY <1>1, Parameters, NatTermsAreInts, SumUpdate
<1>3. SumFunctionOnSet(w, Owners) \in Nat /\ w[o] \in Nat
  BY <1>1, Parameters, SumNat
<1> QED
  BY <1>2, <1>3

\* Burning shares takes them from the owner's wallet and from the total.
LEMMA BurnKeeps ==
  ASSUME VaultInv, NEW o \in Owners, NEW n \in ShareMoves, BurnShares(o, n)
  PROVE  VaultInv'
<1>1. /\ n <= wallet[o] /\ wallet' = [wallet EXCEPT ![o] = wallet[o] - n]
      /\ UNCHANGED <<epoch, due, halted, lastMark, totalShares, locked, pending, reserved,
                     positions, records, collateral, other, escrow>>
  BY DEF BurnShares, calendar, params, book
<1>2. wallet \in [Owners -> Nat] /\ n \in Nat
  BY Parameters DEF VaultInv, VaultTypeOK
<1>3. wallet[o] - n \in Nat
  BY <1>1, <1>2
<1>4. /\ wallet' \in [Owners -> Nat]
      /\ wallet'[o] = wallet[o] - n
      /\ SumFunctionOnSet(wallet', Owners)
           = SumFunctionOnSet(wallet, Owners) - wallet[o] + wallet'[o]
      /\ SumFunctionOnSet(wallet, Owners) \in Nat /\ wallet[o] \in Nat
  <2>1. /\ wallet' \in [Owners -> Nat] /\ wallet'[o] = wallet[o] - n
        /\ \A x \in Owners \ {o} : wallet'[x] = wallet[x]
    BY <1>1, <1>2, <1>3
  <2> QED
    BY <1>2, <2>1, OneWallet
<1>5. SumFunctionOnSet(wallet', Owners) <= SumFunctionOnSet(wallet, Owners)
  BY <1>2, <1>4
<1> QED
  BY <1>1, <1>4, <1>5, WalletsOnly

\* A transfer moves shares between wallets.
LEMMA TransferKeeps ==
  ASSUME VaultInv, NEW from \in Owners, NEW to \in Owners, NEW n \in ShareMoves,
         TransferShares(from, to, n)
  PROVE  VaultInv'
<1> DEFINE half == [wallet EXCEPT ![from] = wallet[from] - n]
<1>1. /\ from # to /\ n <= wallet[from]
      /\ wallet' = [wallet EXCEPT ![from] = wallet[from] - n, ![to] = wallet[to] + n]
      /\ UNCHANGED <<epoch, due, halted, lastMark, totalShares, locked, pending, reserved,
                     positions, records, collateral, other, escrow>>
  BY DEF TransferShares, calendar, params, book
<1>2. wallet \in [Owners -> Nat] /\ n \in Nat
  BY Parameters DEF VaultInv, VaultTypeOK
<1>3. wallet[from] - n \in Nat /\ wallet[to] + n \in Nat
  BY <1>1, <1>2
<1>4. wallet' = [half EXCEPT ![to] = wallet[to] + n] /\ half[to] = wallet[to]
  BY <1>1, <1>2
<1>5. /\ half \in [Owners -> Nat] /\ half[from] = wallet[from] - n
      /\ SumFunctionOnSet(half, Owners)
           = SumFunctionOnSet(wallet, Owners) - wallet[from] + half[from]
      /\ SumFunctionOnSet(wallet, Owners) \in Nat /\ wallet[from] \in Nat
  <2>1. /\ half \in [Owners -> Nat] /\ half[from] = wallet[from] - n
        /\ \A x \in Owners \ {from} : half[x] = wallet[x]
    BY <1>2, <1>3
  <2> HIDE DEF half
  <2> QED
    BY <1>2, <2>1, OneWallet
<1> HIDE DEF half
<1>6. /\ wallet' \in [Owners -> Nat] /\ wallet'[to] = wallet[to] + n
      /\ SumFunctionOnSet(wallet', Owners)
           = SumFunctionOnSet(half, Owners) - half[to] + wallet'[to]
      /\ SumFunctionOnSet(half, Owners) \in Nat /\ half[to] \in Nat
  <2>1. /\ wallet' \in [Owners -> Nat] /\ wallet'[to] = wallet[to] + n
        /\ \A x \in Owners \ {to} : wallet'[x] = half[x]
    BY <1>3, <1>4, <1>5
  <2> QED
    BY <1>5, <2>1, OneWallet
<1>7. SumFunctionOnSet(wallet', Owners) <= SumFunctionOnSet(wallet, Owners)
  BY <1>2, <1>4, <1>5, <1>6
<1> QED
  BY <1>1, <1>6, <1>7, WalletsOnly

\* Whatever moves the two accounts and leaves what is not free, keeps the rest.
LEMMA AccountsOnly ==
  ASSUME VaultInv, collateral' \in Nat, other' \in Nat, locked' \in Nat,
         {due', halted'} \subseteq BOOLEAN,
         collateral' >= reserved.collateral + pending.deposit,
         other' >= reserved.other,
         UNCHANGED <<epoch, lastMark, totalShares, pending, reserved, positions, records,
                     escrow, wallet>>
  PROVE  VaultInv'
<1>1. VaultTypeOK /\ QueuesMatch /\ Funded /\ ClaimsBacked /\ SharesCounted
  BY DEF VaultInv
<1>2. VaultTypeOK'
  <2>1. {epoch', lastMark', totalShares', locked', collateral', other', escrow'} \subseteq Nat
    BY <1>1, StateFacts
  <2>2. pending' \in [deposit : Nat, withdraw : Nat] /\ pending'.withdraw <= totalShares'
    BY <1>1 DEF VaultTypeOK
  <2>3. /\ reserved' \in [collateral : Nat, other : Nat]
        /\ positions' \in [Owners -> PositionType]
        /\ DOMAIN records' = 0 .. epoch' - 1
        /\ \A e \in DOMAIN records' : records'[e] \in PriceType
        /\ wallet' \in [Owners -> Nat]
    BY <1>1 DEF VaultTypeOK
  <2> QED
    BY <2>1, <2>2, <2>3, Zenon DEF VaultTypeOK
<1>3. QueuesMatch' /\ ClaimsBacked'
  BY <1>1, QueuesLeftAlone, ClaimsLeftAlone
<1>4. Funded' /\ SharesCounted'
  BY <1>1 DEF Funded, SharesCounted
<1> QED
  BY <1>2, <1>3, <1>4 DEF VaultInv

\* What is free of the collateral is what is neither reserved nor queued.
LEMMA FreeIsTheRest ==
  ASSUME VaultInv
  PROVE  /\ CollateralFree = collateral - reserved.collateral - pending.deposit
         /\ OtherFree = other - reserved.other
         /\ CollateralFree \in Nat /\ OtherFree \in Nat
         /\ collateral \in Nat /\ other \in Nat /\ locked \in Nat
         /\ reserved.collateral \in Nat /\ reserved.other \in Nat /\ pending.deposit \in Nat
         /\ collateral >= reserved.collateral + pending.deposit
         /\ other >= reserved.other
         /\ {due, halted} \subseteq BOOLEAN
<1>1. VaultTypeOK /\ Funded
  BY DEF VaultInv
<1>2. /\ collateral \in Nat /\ other \in Nat /\ locked \in Nat
      /\ reserved.collateral \in Nat /\ reserved.other \in Nat /\ pending.deposit \in Nat
  BY <1>1, StateFacts
<1>3. /\ collateral >= reserved.collateral + pending.deposit
      /\ other >= reserved.other
  BY <1>1 DEF Funded
<1>4. /\ CollateralFree = collateral - reserved.collateral - pending.deposit
      /\ OtherFree = other - reserved.other
  BY <1>2, <1>3 DEF CollateralFree, OtherFree, Saturating
<1>5. CollateralFree \in Nat /\ OtherFree \in Nat
  BY <1>1, FreeFacts
<1>6. {due, halted} \subseteq BOOLEAN
  BY <1>1, Zenon DEF VaultTypeOK
<1> QED
  BY <1>2, <1>3, <1>4, <1>5, <1>6, Zenon

\* The writing side - a write, its return, premium in, a buy-back paid - keeps the
\* reserves and the shares.
LEMMA WritingKeeps ==
  ASSUME VaultInv, WritingStep
  PROVE  VaultInv'
<1> USE FreeIsTheRest
<1>1. ASSUME NEW sent \in Flows, NEW credited \in Flows, Write(sent, credited) PROVE VaultInv'
  <2>1. /\ sent <= CollateralFree
        /\ collateral' = collateral - sent /\ locked' = locked + credited
        /\ UNCHANGED <<epoch, due, halted, lastMark, totalShares, pending, reserved, positions,
                       records, other, escrow, wallet>>
    BY <1>1 DEF Write, Spendable, calendar, params
  <2>2. sent \in Nat /\ credited \in Nat
    BY Parameters
  <2>3. /\ collateral' \in Nat /\ locked' \in Nat /\ other' \in Nat
        /\ collateral' >= reserved.collateral + pending.deposit
        /\ other' >= reserved.other
    BY <2>1, <2>2
  <2>4. {due', halted'} \subseteq BOOLEAN
    BY <2>1, Zenon
  <2> QED
    BY <2>1, <2>3, <2>4, AccountsOnly
<1>2. ASSUME NEW unlocked \in 1 .. locked, NEW raw \in 0 .. unlocked,
             NEW proceeds \in Flows \cup {0}, ComesBack(unlocked, raw, proceeds)
      PROVE  VaultInv'
  <2>1. /\ collateral' = collateral + raw /\ other' = other + proceeds
        /\ locked' = locked - unlocked
        /\ UNCHANGED <<epoch, due, halted, lastMark, totalShares, pending, reserved, positions,
                       records, escrow, wallet>>
    BY <1>2 DEF ComesBack, calendar, params
  <2>2. raw \in Nat /\ proceeds \in Nat /\ locked - unlocked \in Nat
    BY Parameters
  <2>3. /\ collateral' \in Nat /\ locked' \in Nat /\ other' \in Nat
        /\ collateral' >= reserved.collateral + pending.deposit
        /\ other' >= reserved.other
    BY <2>1, <2>2
  <2>4. {due', halted'} \subseteq BOOLEAN
    BY <2>1, Zenon
  <2> QED
    BY <2>1, <2>3, <2>4, AccountsOnly
<1>3. ASSUME NEW raw \in Flows \cup {0}, NEW proceeds \in Flows \cup {0}, PaidIn(raw, proceeds)
      PROVE  VaultInv'
  <2>1. /\ collateral' = collateral + raw /\ other' = other + proceeds
        /\ UNCHANGED <<epoch, due, halted, lastMark, totalShares, locked, pending, reserved,
                       positions, records, escrow, wallet>>
    BY <1>3 DEF PaidIn, calendar, params, book
  <2>2. raw \in Nat /\ proceeds \in Nat
    BY Parameters
  <2>3. /\ collateral' \in Nat /\ locked' \in Nat /\ other' \in Nat
        /\ collateral' >= reserved.collateral + pending.deposit
        /\ other' >= reserved.other
    BY <2>1, <2>2
  <2>4. {due', halted'} \subseteq BOOLEAN
    BY <2>1, Zenon
  <2> QED
    BY <2>1, <2>3, <2>4, AccountsOnly
<1>4. ASSUME NEW premium \in Flows, BuyBackPaid(premium) PROVE VaultInv'
  <2>1. /\ premium <= (IF IsCoveredCall THEN OtherFree ELSE CollateralFree)
        /\ collateral' = (IF IsCoveredCall THEN collateral ELSE collateral - premium)
        /\ other' = (IF IsCoveredCall THEN other - premium ELSE other)
        /\ UNCHANGED <<epoch, due, halted, lastMark, totalShares, locked, pending, reserved,
                       positions, records, escrow, wallet>>
    BY <1>4 DEF BuyBackPaid, calendar, params, book
  <2>2. premium \in Nat
    BY Parameters
  <2>3. /\ collateral' \in Nat /\ locked' \in Nat /\ other' \in Nat
        /\ collateral' >= reserved.collateral + pending.deposit
        /\ other' >= reserved.other
    <3>1. CASE IsCoveredCall
      BY <2>1, <2>2, <3>1
    <3>2. CASE ~IsCoveredCall
      BY <2>1, <2>2, <3>2
    <3> QED
      BY <3>1, <3>2
  <2>4. {due', halted'} \subseteq BOOLEAN
    BY <2>1, Zenon
  <2> QED
    BY <2>1, <2>3, <2>4, AccountsOnly
<1> QED
  BY <1>1, <1>2, <1>3, <1>4 DEF WritingStep, Returns

\* Halting, and bringing the roll forward or back, move nothing.
LEMMA AdminKeeps ==
  ASSUME VaultInv, AdminStep
  PROVE  VaultInv'
<1>1. /\ {due', halted'} \subseteq BOOLEAN
      /\ UNCHANGED <<epoch, lastMark, totalShares, locked, pending, reserved, positions, records,
                     collateral, other, escrow, wallet>>
  <2>1. {due, halted} \subseteq BOOLEAN
    BY FreeIsTheRest
  <2>2. CASE SetHalt
    <3>1. halted' = ~halted /\ due' = due
      BY <2>2, Zenon DEF SetHalt, calendar
    <3>2. {due', halted'} \subseteq BOOLEAN
      BY <2>1, <3>1, Zenon
    <3>3. UNCHANGED <<epoch, lastMark, totalShares, locked, pending, reserved, positions, records,
                      collateral, other, escrow, wallet>>
      BY <2>2, Zenon DEF SetHalt, calendar, book, accounts
    <3> QED
      BY <3>2, <3>3, Zenon
  <2>3. CASE BringForward \/ PushBack
    <3>1. due' \in {TRUE, FALSE} /\ halted' = halted
      BY <2>3, Zenon DEF BringForward, PushBack, params
    <3>2. {due', halted'} \subseteq BOOLEAN
      BY <2>1, <3>1, Zenon
    <3>3. UNCHANGED <<epoch, lastMark, totalShares, locked, pending, reserved, positions, records,
                      collateral, other, escrow, wallet>>
      BY <2>3, Zenon DEF BringForward, PushBack, params, book, accounts
    <3> QED
      BY <3>2, <3>3, Zenon
  <2> QED
    BY <2>2, <2>3 DEF AdminStep
<1>2. /\ collateral' \in Nat /\ locked' \in Nat /\ other' \in Nat
      /\ collateral' >= reserved.collateral + pending.deposit
      /\ other' >= reserved.other
  BY <1>1, FreeIsTheRest
<1> QED
  BY <1>1, <1>2, AccountsOnly

\* Nothing moves.
LEMMA StutterKeeps ==
  ASSUME VaultInv, UNCHANGED vaultVars
  PROVE  VaultInv'
<1>1. UNCHANGED <<epoch, due, halted, lastMark, totalShares, locked, pending, reserved,
                  positions, records, collateral, other, escrow, wallet>>
  BY Zenon DEF vaultVars, calendar, params, book, accounts
<1>2. /\ collateral' \in Nat /\ locked' \in Nat /\ other' \in Nat
      /\ collateral' >= reserved.collateral + pending.deposit
      /\ other' >= reserved.other
  BY <1>1, FreeIsTheRest
<1>3. {due', halted'} \subseteq BOOLEAN
  BY <1>1, FreeIsTheRest, Zenon
<1> QED
  BY <1>1, <1>2, <1>3, AccountsOnly

\* Every step keeps the invariant.
LEMMA VaultSteps == VaultInv /\ [VaultNext]_vaultVars => VaultInv'
<1> SUFFICES ASSUME VaultInv, [VaultNext]_vaultVars PROVE VaultInv'
  OBVIOUS
<1>1. CASE DepositorStep
  BY <1>1, DepositKeeps, RequestKeeps, ClaimKeeps, TransferKeeps, BurnKeeps DEF DepositorStep
<1>2. CASE RollStep
  BY <1>2, RollKeeps DEF RollStep
<1>3. CASE WritingStep
  BY <1>3, WritingKeeps
<1>4. CASE AdminStep
  BY <1>4, AdminKeeps
<1>5. CASE UNCHANGED vaultVars
  BY <1>5, StutterKeeps
<1> QED
  BY <1>1, <1>2, <1>3, <1>4, <1>5 DEF VaultNext

\* The invariant holds in every reachable state.
LEMMA VaultAlways == VaultSpec => []VaultInv
BY VaultStarts, VaultSteps, PTL DEF VaultSpec

\* Balances and counters stay numbers and total_shares never borrows, for any
\* owners, amounts and marks (vault.rs, every handler).
THEOREM VaultTypeCorrect == VaultSpec => []VaultTypeOK
<1>1. VaultInv => VaultTypeOK
  BY DEF VaultInv
<1> QED
  BY <1>1, VaultAlways, PTL

\* The queues of a vault are what its owners queued in the epoch that runs:
\* pending_deposit_raw and pending_withdraw_shares count every entry once.
THEOREM QueuesAlwaysMatch == VaultSpec => []QueuesMatch
<1>1. VaultInv => QueuesMatch
  BY DEF VaultInv
<1> QED
  BY <1>1, VaultAlways, PTL

\* Whatever is written, bought back or claimed, the accounts hold every reserve
\* and every queued deposit.
THEOREM VaultStaysFunded == VaultSpec => []Funded
<1>1. VaultInv => Funded
  BY DEF VaultInv
<1> QED
  BY <1>1, VaultAlways, PTL

\* Whatever rolled is there to be claimed, in shares and in both assets, in any
\* order of claims and however late they come.
THEOREM ClaimsStayBacked == VaultSpec => []ClaimsBacked
<1>1. VaultInv => ClaimsBacked
  BY DEF VaultInv
<1> QED
  BY <1>1, VaultAlways, PTL

-----------------------------------------------------------------------------
(* No dilution.                                                            *)

\* Of t shares, w leave with at most their part r of c, and with q of k but
\* for one unit too much for all of them: what stays is worth its part.
LEMMA LeavingIsFair ==
  ASSUME NEW c \in Nat, NEW k \in Nat, NEW r \in Nat, NEW q \in Nat,
         NEW t \in Nat, NEW w \in Nat, r <= c, q <= k, w <= t,
         r * t <= w * c, q * t <= w * k + t
  PROVE  (((c + k) - r) - q + 1) * t >= (c + k) * (t - w)
<1> DEFINE b == ((c + k) - r) - q
<1>1. b \in Nat /\ b + r + q = c + k
  OBVIOUS
<1> HIDE DEF b
<1>2. (b + r + q) * t = b * t + r * t + q * t /\ (b + 1) * t = b * t + t
  BY <1>1
<1>3. (c + k) * t = (c + k) * (t - w) + (c + k) * w
  OBVIOUS
<1>4. (c + k) * w = w * c + w * k
  OBVIOUS
<1>5. /\ b * t \in Nat /\ r * t \in Nat /\ q * t \in Nat /\ w * c \in Nat /\ w * k \in Nat
      /\ (c + k) * (t - w) \in Nat /\ (c + k) * t \in Nat
  <2>1. c + k \in Nat /\ t - w \in Nat
    OBVIOUS
  <2> QED
    BY <1>1, <2>1, MulNat
<1>6. (c + k) * t = b * t + r * t + q * t
  BY <1>1, <1>2
<1>7. (c + k) * t = (c + k) * (t - w) + w * c + w * k
  BY <1>3, <1>4, <1>5
<1> DEFINE x == (c + k) * (t - w)
           y == (c + k) * t
<1>8. x \in Nat /\ y \in Nat /\ y = b * t + r * t + q * t /\ y = x + w * c + w * k
  BY <1>5, <1>6, <1>7
<1> HIDE DEF x, y
<1>9. (b + 1) * t >= x
  BY <1>2, <1>5, <1>8
<1> QED
  BY <1>9 DEF b, x

\* Shares minted at no more than their price, for d that comes in, leave a share
\* of the s that were there worth what it was.
LEMMA EnteringIsFair ==
  ASSUME NEW b \in Nat, NEW d \in Nat, NEW m \in Nat, NEW s \in Nat, NEW n \in Nat,
         n >= b + d, m * b <= d * s
  PROVE  n * s >= b * (s + m)
<1>1. (b + d) * s <= n * s
  BY MulMono
<1>2. (b + d) * s = b * s + d * s /\ b * (s + m) = b * s + m * b
  OBVIOUS
<1>3. b * s \in Nat /\ d * s \in Nat /\ m * b \in Nat /\ n * s \in Nat
  BY MulNat
<1> QED
  BY <1>1, <1>2, <1>3

\* The same, as an implication that holds of the next state too.
FreeIsRest ==
  /\ CollateralFree = collateral - reserved.collateral - pending.deposit
  /\ OtherFree = other - reserved.other

\* What a roll leaves free is what it does not reserve.
LEMMA FreeAfter == VaultInv => FreeIsRest
BY FreeIsTheRest DEF FreeIsRest

\* A roll keeps the worth of the shares that stay.
LEMMA RollIsFair ==
  ASSUME VaultInv, NEW mark \in Marks, Roll(mark), totalShares > pending.withdraw
  PROVE  RollKeepsWorth(mark)
<1> DEFINE c == CollateralFree
           rest == OtherFree
           r == ReserveCollateral
           p == ReserveOther
           k == InCollateral(rest, mark)
           q == InCollateral(p, mark)
           left == InCollateral(rest - p, mark)
           t == totalShares
           w == pending.withdraw
           d == pending.deposit
           m == AtPrice(d, SharesPerRaw(mark))
           b == NavStaying(mark)
<1>1. VaultTypeOK
  BY DEF VaultInv
<1>2. /\ c \in Nat /\ rest \in Nat /\ r \in Nat /\ p \in Nat /\ r <= c /\ p <= rest
      /\ r * t <= w * c /\ p * t <= w * rest
  <2>1. /\ CollateralFree \in Nat /\ OtherFree \in Nat
        /\ ReserveCollateral \in 0 .. CollateralFree /\ ReserveOther \in 0 .. OtherFree
        /\ ReserveCollateral * totalShares <= pending.withdraw * CollateralFree
        /\ ReserveOther * totalShares <= pending.withdraw * OtherFree
    BY <1>1, FreeFacts
  <2> QED
    BY <2>1
<1>3. t \in Nat /\ w \in Nat /\ d \in Nat /\ w < t
  BY <1>1, StateFacts
<1>4. /\ k \in Nat /\ q \in Nat /\ left \in Nat /\ q <= k /\ k <= left + q + 1
  <2> HIDE DEF rest, p
  <2>1. rest - p \in Nat /\ (rest - p) + p = rest
    BY <1>2
  <2>2. k \in Nat /\ q \in Nat /\ (p <= rest => q <= k)
    BY <1>2, ConversionBounds
  <2>3. /\ left \in Nat
        /\ InCollateral((rest - p) + p, mark) <= left + q + 1
    BY <1>2, <2>1, ConversionBounds
  <2> QED
    BY <1>2, <2>1, <2>2, <2>3
<1>5. q * t <= w * k + t
  <2>1. PICK i \in Nat, j \in Nat :
          j > 0 /\ \A x \in Nat : InCollateral(x, mark) = (x * i) \div j
    BY Conversion
  <2> HIDE DEF rest, p, t, w
  <2>2. k = (rest * i) \div j /\ q = (p * i) \div j
    BY <1>2, <2>1
  <2>3. w <= t
    BY <1>3
  <2> HIDE DEF k, q
  <2>4. ((p * i) \div j) * t <= w * ((rest * i) \div j) + t
    BY <1>2, <1>3, <2>1, <2>3, PartConverted
  <2> QED
    BY <2>2, <2>4
<1>6. /\ Nav(mark) = c + k
      /\ b = ((c + k) - r) - q /\ b \in Nat
      /\ SharesStaying = t - w /\ t - w \in Nat
  <2>1. Nav(mark) = c + k
    BY DEF Nav
  <2>2. b = Saturating(Saturating(c + k, r), q)
    BY <2>1 DEF NavStaying
  <2> HIDE DEF c, rest, r, p, k, q, left, b, t, w
  <2>3. Saturating(c + k, r) = (c + k) - r /\ (c + k) - r \in Nat
    BY <1>2, <1>4 DEF Saturating
  <2>4. Saturating((c + k) - r, q) = ((c + k) - r) - q /\ ((c + k) - r) - q \in Nat
    BY <1>2, <1>4 DEF Saturating
  <2>5. SharesStaying = t - w /\ t - w \in Nat
    BY <1>3 DEF SharesStaying, t, w
  <2> QED
    BY <2>1, <2>2, <2>3, <2>4, <2>5
<1>7. m \in Nat /\ m * b <= d * SharesStaying
  <2>1. b \in Nat /\ SharesStaying \in Nat /\ SharesStaying # 0
    BY <1>3, <1>6
  <2>2. SharesPerRaw(mark) = SharesAt(b)
    BY DEF SharesPerRaw
  <2>3. SharesPerRaw(mark) \in Nat
    BY <1>1, SharePriceIsNumber
  <2>4. m \in Nat
    BY <1>3, <2>3, PriceIsNumber
  <2> HIDE DEF b, d
  <2>5. CASE b = 0
    <3>1. m * b = 0 /\ d * SharesStaying \in Nat
      <4> HIDE DEF m
      <4>1. m * 0 = 0
        BY <2>4
      <4> QED
        BY <1>3, <2>1, <2>5, <4>1, MulNat
    <3> QED
      BY <2>4, <3>1
  <2>6. CASE b # 0
    <3>1. SharesAt(b) = (SharesStaying * IDX_SCALE) \div b
      BY <2>1, <2>6 DEF SharesAt
    <3>2. m = (d * ((SharesStaying * IDX_SCALE) \div b)) \div IDX_SCALE
      BY <2>2, <3>1 DEF AtPrice
    <3>3. b > 0
      BY <2>1, <2>6
    <3>4. ((d * ((SharesStaying * IDX_SCALE) \div b)) \div IDX_SCALE) * b <= d * SharesStaying
      BY <1>3, <2>1, <3>3, Parameters, PartAtPrice
    <3> HIDE DEF m
    <3> QED
      BY <2>4, <3>2, <3>4
  <2> QED
    BY <2>5, <2>6
<1>8. totalShares' = SharesStaying + m
  BY RollFacts
<1>9. Nav(mark)' = ((c + d) - r) + left
  <2>1. CollateralFree' = (c + d) - r /\ OtherFree' = rest - p
    <3>1. VaultInv'
      BY RollKeeps
    <3>2. /\ CollateralFree' = (collateral - reserved.collateral - pending.deposit)'
          /\ OtherFree' = (other - reserved.other)'
      <4>1. FreeIsRest'
        BY <3>1, FreeAfter, PTL
      <4> QED
        BY <4>1 DEF FreeIsRest
    <3>3. /\ reserved'.collateral = reserved.collateral + r
          /\ reserved'.other = reserved.other + p
          /\ pending'.deposit = 0 /\ collateral' = collateral /\ other' = other
      BY RollFacts
    <3>4. /\ c = collateral - reserved.collateral - pending.deposit
          /\ rest = other - reserved.other
          /\ collateral \in Nat /\ other \in Nat
          /\ reserved.collateral \in Nat /\ reserved.other \in Nat
      BY FreeIsTheRest
    <3> HIDE DEF c, rest, r, p
    <3> QED
      BY <1>2, <1>3, <3>1, <3>2, <3>3, <3>4
  <2>2. Nav(mark)' = CollateralFree' + InCollateral(OtherFree', mark)
    BY DEF Nav, InCollateral
  <2> QED
    BY <2>1, <2>2
<1> HIDE DEF c, rest, r, p, k, q, left, t, w, d, m, b
<1>10. (b + 1) * t >= (c + k) * (t - w)
  <2>1. (((c + k) - r) - q + 1) * t >= (c + k) * (t - w)
    BY <1>2, <1>3, <1>4, <1>5, LeavingIsFair
  <2> QED
    BY <1>6, <2>1
<1>11. (Nav(mark)' + 1) * SharesStaying >= b * (SharesStaying + m)
  <2> DEFINE n == ((c + d) - r) + left + 1
  <2>1. n \in Nat /\ n >= b + d
    BY <1>2, <1>3, <1>4, <1>6
  <2>2. SharesStaying \in Nat
    BY <1>6
  <2>3. Nav(mark)' + 1 = n
    BY <1>2, <1>3, <1>4, <1>9
  <2> HIDE DEF n
  <2>4. n * SharesStaying >= b * (SharesStaying + m)
    BY <1>3, <1>6, <1>7, <2>1, <2>2, EnteringIsFair
  <2> QED
    BY <2>3, <2>4
<1> QED
  BY <1>6, <1>8, <1>10, <1>11 DEF RollKeepsWorth, b, t, c, k, w

\* Only the roll moves the epoch, and it does so at the mark it leaves behind.
LEMMA OnlyRollsMoveTheEpoch ==
  ASSUME VaultInv, VaultNext, epoch' > epoch
  PROVE  \E mark \in Marks : Roll(mark)
<1>1. epoch \in Nat
  BY DEF VaultInv, VaultTypeOK
<1>2. CASE DepositorStep
  <2>1. epoch' = epoch
    BY <1>2 DEF DepositorStep, Deposit, RequestWithdraw, VaultClaim, TransferShares, BurnShares,
                calendar
  <2> QED
    BY <1>1, <2>1
<1>3. CASE RollStep
  BY <1>3 DEF RollStep
<1>4. CASE WritingStep
  <2>1. epoch' = epoch
    BY <1>4 DEF WritingStep, Write, Returns, ComesBack, PaidIn, BuyBackPaid, calendar
  <2> QED
    BY <1>1, <2>1
<1>5. CASE AdminStep
  <2>1. epoch' = epoch
    BY <1>5 DEF AdminStep, SetHalt, BringForward, PushBack, calendar
  <2> QED
    BY <1>1, <2>1
<1> QED
  BY <1>2, <1>3, <1>4, <1>5 DEF VaultNext

\* Every step that ends an epoch is a roll, and keeps the worth of a share that stays.
LEMMA StepsKeepWorth ==
  ASSUME VaultInv, [VaultNext]_vaultVars, NEW mark \in Marks,
         epoch' > epoch, lastMark' = mark, totalShares > pending.withdraw
  PROVE  RollKeepsWorth(mark)
<1>1. CASE UNCHANGED vaultVars
  <2>1. epoch' = epoch /\ epoch \in Nat
    BY <1>1 DEF vaultVars, calendar, VaultInv, VaultTypeOK
  <2> QED
    BY <2>1
<1>2. CASE VaultNext
  <2>1. PICK m \in Marks : Roll(m)
    BY <1>2, OnlyRollsMoveTheEpoch
  <2>2. m = mark
    BY <2>1 DEF Roll
  <2> QED
    BY <2>1, <2>2, RollIsFair
<1> QED
  BY <1>1, <1>2

\* Neither leaving nor entering at a roll makes a share that stays worth less.
THEOREM VaultNeverDilutes == VaultSpec => NoDilution
<1>1. VaultInv /\ [VaultNext]_vaultVars =>
        [ \A mark \in Marks :
            epoch' > epoch /\ lastMark' = mark /\ totalShares > pending.withdraw =>
              RollKeepsWorth(mark) ]_vaultVars
  BY StepsKeepWorth
<1> QED
  BY <1>1, VaultAlways, PTL DEF VaultSpec, NoDilution

-----------------------------------------------------------------------------
(* The vault as a writer: locked_raw and what is out.                      *)

\* A slot of the vault is an account that adds up: what is sold or on the book
\* is held until it settles, and an unclaimed slot is empty.
SoundSlot(s, w) ==
  /\ w.withdrawn <= w.deposited /\ w.open <= w.sold
  /\ ~w.claimed => w = NoShort
  /\ w.settled => ExpiresAt[s] <= hour /\ w.withdrawn = w.deposited
  /\ ~w.settled => w.sold + w.resident <= w.deposited - w.withdrawn

\* While only the vault settles its slots, nothing else is locked in a covered
\* call than what they hold.
LockedExactly == CoveredCall /\ ~strangers => lockedIn = SumFunction(Collateral)

WriterInv ==
  /\ WriterTypeOK /\ \A s \in Written : SoundSlot(s, short[s])
  /\ LockedCovers /\ LockedExactly

\* What the assumptions say of the writing vault's parameters.
LEMMA WriterNumbers ==
  /\ CoveredCall \in BOOLEAN /\ IsFiniteSet(Written)
  /\ RawPerUnit \in Nat /\ RawPerUnit > 0 /\ UnitsInLot \in Nat /\ UnitsInLot > 0
  /\ RollInterval \in Nat /\ LostInTransfer \in Nat /\ Wealth \in Nat
  /\ \A n \in Sizes : n \in Nat /\ n > 0
  /\ \A s \in Written : PricePerUnit[s] \in Nat /\ PricePerUnit[s] > 0 /\ ExpiresAt[s] \in Nat
<1>1. /\ RawPerUnit \in Nat /\ RawPerUnit > 0 /\ UnitsInLot \in Nat /\ UnitsInLot > 0
      /\ RollInterval \in Nat /\ LostInTransfer \in Nat /\ Wealth \in Nat
  BY VaultWriterConstants DEF VaultWriterConstants
<1>2. \A n \in Sizes : n \in Nat /\ n > 0
  BY VaultWriterConstants DEF VaultWriterConstants
<1>3. \A s \in Written : PricePerUnit[s] \in Nat /\ PricePerUnit[s] > 0 /\ ExpiresAt[s] \in Nat
  BY VaultWriterConstants DEF VaultWriterConstants
<1>4. CoveredCall \in BOOLEAN /\ IsFiniteSet(Written)
  BY VaultWriterConstants, Zenon DEF VaultWriterConstants
<1> QED
  BY <1>1, <1>2, <1>3, <1>4, Zenon

\* What a round-up of a sum and of a difference takes.
LEMMA CeilingsAdd ==
  ASSUME NEW x \in Nat, NEW y \in Nat, NEW u \in Nat, u > 0
  PROVE  /\ (x + u - 1) \div u \in Nat
         /\ (x + y + u - 1) \div u <= (x + u - 1) \div u + (y + u - 1) \div u
         /\ y <= x => ((x - y) + u - 1) \div u + y \div u <= (x + u - 1) \div u
         /\ x > 0 => (x + u - 1) \div u > 0
<1> DEFINE a == (x + u - 1) \div u
           b == (y + u - 1) \div u
<1>1. /\ a \in Nat /\ x + u - 1 < a * u + u
      /\ b \in Nat /\ y + u - 1 < b * u + u
  BY DivBounds
<1>2. (x + y + u - 1) \div u <= a + b
  <2>1. x + y + u - 1 < (a + b) * u + u
    <3>1. (a + b) * u = a * u + b * u
      BY <1>1
    <3>2. a * u \in Nat /\ b * u \in Nat
      BY <1>1
    <3> HIDE DEF a, b
    <3> QED
      BY <1>1, <3>1, <3>2
  <2> HIDE DEF a, b
  <2> QED
    BY <1>1, <2>1, DivLeast
<1>3. ASSUME y <= x PROVE ((x - y) + u - 1) \div u + y \div u <= a
  <2> DEFINE d == (x - y) + u - 1
  <2>1. d \in Nat /\ d + y = x + u - 1
    BY <1>3
  <2> HIDE DEF d
  <2>2. d \div u + y \div u <= (d + y) \div u
    BY <2>1, FloorsOfSum
  <2> QED
    BY <2>1, <2>2 DEF d
<1>4. ASSUME x > 0 PROVE a > 0
  <2>1. 1 * u <= x + u - 1
    BY <1>4
  <2>2. 1 <= a
    BY <2>1, DivLeast
  <2> QED
    BY <1>1, <2>2
<1> QED
  BY <1>1, <1>2, <1>3, <1>4

\* An amount of collateral in and out, for lots together and apart.
LEMMA Amounts ==
  ASSUME NEW s \in Written, NEW m \in Nat, NEW n \in Nat
  PROVE  /\ AmountIn(s, n) \in Nat /\ AmountOut(s, n) \in Nat
         /\ AmountIn(s, 0) = 0
         /\ n > 0 => AmountIn(s, n) > 0
         /\ AmountIn(s, m + n) <= AmountIn(s, m) + AmountIn(s, n)
         /\ n <= m => AmountIn(s, m - n) + AmountOut(s, n) <= AmountIn(s, m)
         /\ CoveredCall => /\ AmountIn(s, m + n) = AmountIn(s, m) + AmountIn(s, n)
                           /\ n <= m => AmountIn(s, m - n) + AmountOut(s, n) = AmountIn(s, m)
<1>1. CASE CoveredCall
  <2>1. \A k \in Nat : AmountIn(s, k) = k * RawPerUnit /\ AmountOut(s, k) = k * RawPerUnit
    BY <1>1 DEF AmountIn, AmountOut
  <2>2. /\ (m + n) * RawPerUnit = m * RawPerUnit + n * RawPerUnit
        /\ n * RawPerUnit \in Nat /\ m * RawPerUnit \in Nat
        /\ 0 * RawPerUnit = 0
    BY WriterNumbers
  <2>3. n > 0 => n * RawPerUnit > 0
    BY WriterNumbers, MulPos
  <2>4. n <= m => m - n \in Nat /\ (m - n) * RawPerUnit + n * RawPerUnit = m * RawPerUnit
    BY WriterNumbers
  <2> QED
    BY <2>1, <2>2, <2>3, <2>4
<1>2. CASE ~CoveredCall
  <2> DEFINE p == PricePerUnit[s]
             x == m * p
             y == n * p
  <2>1. \A k \in Nat : /\ AmountIn(s, k) = (k * p + UnitsInLot - 1) \div UnitsInLot
                       /\ AmountOut(s, k) = (k * p) \div UnitsInLot
    BY <1>2 DEF AmountIn, AmountOut
  <2>2. p \in Nat /\ p > 0
    BY WriterNumbers
  <2>3. x \in Nat /\ y \in Nat /\ (m + n) * p = x + y /\ 0 * p = 0
    BY <2>2
  <2>4. n > 0 => y > 0
    BY <2>2, MulPos
  <2>5. n <= m => m - n \in Nat /\ (m - n) * p = x - y /\ y <= x
    <3>1. n <= m => y <= x
      BY <2>2, MulMono
    <3> QED
      BY <2>2, <3>1
  <2>6. (0 + UnitsInLot - 1) \div UnitsInLot = 0
    BY WriterNumbers, DivLeast, DivBounds
  <2>7. y \div UnitsInLot \in Nat
    BY <2>3, WriterNumbers, DivBounds
  <2> HIDE DEF x, y, p
  <2>8. /\ (y + UnitsInLot - 1) \div UnitsInLot \in Nat
        /\ (x + y + UnitsInLot - 1) \div UnitsInLot
             <= (x + UnitsInLot - 1) \div UnitsInLot + (y + UnitsInLot - 1) \div UnitsInLot
        /\ y <= x => ((x - y) + UnitsInLot - 1) \div UnitsInLot + y \div UnitsInLot
                       <= (x + UnitsInLot - 1) \div UnitsInLot
        /\ y > 0 => (y + UnitsInLot - 1) \div UnitsInLot > 0
    BY <2>3, WriterNumbers, CeilingsAdd
  <2>9. /\ AmountIn(s, m) = (x + UnitsInLot - 1) \div UnitsInLot
        /\ AmountIn(s, n) = (y + UnitsInLot - 1) \div UnitsInLot
        /\ AmountOut(s, n) = y \div UnitsInLot
        /\ AmountIn(s, 0) = 0
        /\ AmountIn(s, m + n) = (x + y + UnitsInLot - 1) \div UnitsInLot
        /\ n <= m => AmountIn(s, m - n) = ((x - y) + UnitsInLot - 1) \div UnitsInLot
    BY <2>1, <2>3, <2>5, <2>6 DEF x, y
  <2> QED
    BY <1>2, <2>4, <2>5, <2>7, <2>8, <2>9
<1> QED
  BY <1>1, <1>2

\* What every step needs of the state: one slot's numbers, and the amounts held.
LEMMA SlotNumbers ==
  ASSUME WriterInv, NEW s \in Written
  PROVE  /\ short[s] \in ShortType
         /\ short[s].deposited \in Nat /\ short[s].withdrawn \in Nat /\ short[s].sold \in Nat
         /\ short[s].open \in Nat /\ short[s].resident \in Nat
         /\ short[s].claimed \in BOOLEAN /\ short[s].settled \in BOOLEAN
         /\ short[s].withdrawn <= short[s].deposited /\ short[s].open <= short[s].sold
         /\ ~short[s].claimed => short[s] = NoShort
         /\ short[s].settled => ExpiresAt[s] <= hour /\ Held(s) = 0
         /\ ~short[s].settled => short[s].sold + short[s].resident <= Held(s)
         /\ Held(s) = short[s].deposited - short[s].withdrawn /\ Held(s) \in Nat
<1>1. short[s] \in ShortType /\ SoundSlot(s, short[s])
  BY DEF WriterInv, WriterTypeOK
<1>2. /\ short[s].deposited \in Nat /\ short[s].withdrawn \in Nat /\ short[s].sold \in Nat
      /\ short[s].open \in Nat /\ short[s].resident \in Nat
      /\ short[s].claimed \in BOOLEAN /\ short[s].settled \in BOOLEAN
  BY <1>1 DEF ShortType
<1> QED
  BY <1>1, <1>2 DEF SoundSlot, Held

\* The type invariant, variable by variable.
LEMMA WriterState ==
  ASSUME WriterInv
  PROVE  /\ short \in [Written -> ShortType]
         /\ lockedIn \in Nat /\ spendable \in Nat /\ nextRoll \in Nat /\ hour \in Nat
         /\ {accepting, strangers} \subseteq BOOLEAN
<1>1. WriterTypeOK
  BY DEF WriterInv
<1>2. {accepting, strangers} \subseteq BOOLEAN /\ short \in [Written -> ShortType]
  BY <1>1, Zenon DEF WriterTypeOK
<1>3. lockedIn \in Nat /\ spendable \in Nat /\ nextRoll \in Nat /\ hour \in Nat
  BY <1>1 DEF WriterTypeOK
<1> QED
  BY <1>2, <1>3, Zenon

\* The collateral of the vault's short positions adds up to a number.
LEMMA CollateralSums ==
  ASSUME WriterInv
  PROVE  /\ NatTerms(Collateral, Written)
         /\ SumFunction(Collateral) = SumFunctionOnSet(Collateral, Written)
         /\ SumFunction(Collateral) \in Nat
         /\ \A s \in Written : /\ Collateral[s] = AmountIn(s, Held(s))
                               /\ Collateral[s] \in Nat /\ Collateral[s] <= SumFunction(Collateral)
<1>1. \A s \in Written : Collateral[s] = AmountIn(s, Held(s)) /\ Collateral[s] \in Nat
  <2> TAKE s \in Written
  <2>1. Held(s) \in Nat
    BY SlotNumbers
  <2>2. AmountIn(s, Held(s)) \in Nat
    BY <2>1, Amounts
  <2> QED
    BY <2>2 DEF Collateral
<1>2. NatTerms(Collateral, Written)
  BY <1>1 DEF NatTerms
<1>3. SumFunction(Collateral) = SumFunctionOnSet(Collateral, Written)
  BY DEF SumFunction, Collateral
<1>4. /\ SumFunctionOnSet(Collateral, Written) \in Nat
      /\ \A s \in Written : Collateral[s] <= SumFunctionOnSet(Collateral, Written)
  BY <1>2, WriterNumbers, SumNat
<1> QED
  BY <1>1, <1>2, <1>3, <1>4

\* A step of one slot keeps the invariant if locked_raw moves at least as what
\* the slot holds does, and exactly so in a covered call only the vault settles.
LEMMA OneSlotMoves ==
  ASSUME WriterInv, NEW s \in Written, NEW w \in ShortType, short' = [short EXCEPT ![s] = w],
         SoundSlot(s, w), hour' = hour, nextRoll' = nextRoll,
         lockedIn' \in Nat, spendable' \in Nat, {accepting', strangers'} \subseteq BOOLEAN,
         lockedIn' + AmountIn(s, Held(s)) >= lockedIn + AmountIn(s, w.deposited - w.withdrawn),
         CoveredCall /\ ~strangers' =>
           /\ ~strangers
           /\ lockedIn' + AmountIn(s, Held(s)) = lockedIn + AmountIn(s, w.deposited - w.withdrawn)
  PROVE  WriterInv'
<1>1. /\ short' \in [Written -> ShortType]
      /\ short'[s] = w /\ \A x \in Written \ {s} : short'[x] = short[x]
  BY WriterState
<1>2. WriterTypeOK'
  <2>1. {lockedIn', spendable', nextRoll', hour'} \subseteq Nat
    BY WriterState
  <2> QED
    BY <1>1, <2>1, Zenon DEF WriterTypeOK
<1>3. \A x \in Written : SoundSlot(x, short[x])' 
  <2> TAKE x \in Written
  <2>1. SoundSlot(x, short[x])
    BY DEF WriterInv
  <2> QED
    BY <1>1, <2>1 DEF SoundSlot
<1>4. \A x \in Written \ {s} : Collateral'[x] = Collateral[x]
  BY <1>1 DEF Collateral, AmountIn, Held
<1>5. Collateral'[s] = AmountIn(s, w.deposited - w.withdrawn)
  BY <1>1 DEF Collateral, AmountIn, Held
<1>6. /\ AmountIn(s, w.deposited - w.withdrawn) \in Nat
      /\ Collateral[s] = AmountIn(s, Held(s)) /\ Collateral[s] \in Nat
      /\ lockedIn \in Nat /\ SumFunction(Collateral) \in Nat
  <2> DEFINE left == w.deposited - w.withdrawn
  <2>1. left \in Nat
    BY DEF SoundSlot, ShortType
  <2> HIDE DEF left
  <2>2. AmountIn(s, left) \in Nat
    BY <2>1, Amounts
  <2>3. /\ Collateral[s] = AmountIn(s, Held(s)) /\ Collateral[s] \in Nat
        /\ lockedIn \in Nat /\ SumFunction(Collateral) \in Nat
    BY CollateralSums, WriterState
  <2> QED
    BY <2>2, <2>3 DEF left
<1>7. SumFunction(Collateral)' = SumFunction(Collateral) - Collateral[s] + Collateral'[s]
  <2>1. IntTerms(Collateral, Written)
    BY CollateralSums, NatTermsAreInts
  <2>2. IntTerms(Collateral', Written)
    BY <1>4, <1>5, <1>6, CollateralSums DEF IntTerms
  <2>3. SumFunctionOnSet(Collateral', Written)
          = SumFunctionOnSet(Collateral, Written) - Collateral[s] + Collateral'[s]
    BY <1>4, <2>1, <2>2, WriterNumbers, SumUpdate
  <2>4. SumFunction(Collateral)' = SumFunctionOnSet(Collateral', Written)
    BY DEF SumFunction, Collateral
  <2> QED
    BY <2>3, <2>4, CollateralSums
<1>8. LockedCovers'
  <2>1. lockedIn >= SumFunction(Collateral)
    BY DEF WriterInv, LockedCovers
  <2>2. lockedIn' >= SumFunction(Collateral)'
    BY <1>5, <1>6, <1>7, <2>1
  <2> QED
    BY <2>2 DEF LockedCovers
<1>9. LockedExactly'
  <2> SUFFICES ASSUME CoveredCall, ~strangers' PROVE lockedIn' = SumFunction(Collateral)'
    BY DEF LockedExactly
  <2>1. lockedIn = SumFunction(Collateral)
    BY DEF WriterInv, LockedExactly
  <2> QED
    BY <1>5, <1>6, <1>7, <2>1
<1> QED
  BY <1>2, <1>3, <1>8, <1>9 DEF WriterInv

\* A vault that has written nothing has locked nothing.
LEMMA WriterStarts == WriterInit => WriterInv
<1> SUFFICES ASSUME WriterInit PROVE WriterInv
  OBVIOUS
<1> USE DEF WriterInit
<1>1. NoShort \in ShortType
  BY DEF NoShort, ShortType
<1>2. \A s \in Written : short[s] = NoShort
  OBVIOUS
<1>3. WriterTypeOK
  <2>1. short \in [Written -> ShortType]
    BY <1>1
  <2>2. {lockedIn, spendable, nextRoll, hour} \subseteq Nat
    BY WriterNumbers
  <2>3. {accepting, strangers} \subseteq BOOLEAN
    BY Zenon
  <2> QED
    BY <2>1, <2>2, <2>3, Zenon DEF WriterTypeOK
<1>4. \A s \in Written : SoundSlot(s, short[s])
  BY <1>2 DEF SoundSlot, NoShort
<1>5. \A s \in Written : Collateral[s] = 0
  <2> TAKE s \in Written
  <2>1. Held(s) = 0
    BY <1>2 DEF Held, NoShort
  <2>2. AmountIn(s, 0) = 0
    BY Amounts
  <2> QED
    BY <2>1, <2>2 DEF Collateral
<1>6. SumFunction(Collateral) = 0
  <2>1. SumFunctionOnSet(Collateral, Written) = 0
    BY <1>5, WriterNumbers, SumOfZeros
  <2> QED
    BY <2>1 DEF SumFunction, Collateral
<1> QED
  BY <1>3, <1>4, <1>6 DEF WriterInv, LockedCovers, LockedExactly

\* A quote locks the collateral that arrives in the series.
LEMMA QuoteCovers ==
  ASSUME WriterInv, NEW s \in Written, NEW lots \in Sizes \cup {0}, NEW ask \in Sizes,
         VaultQuote(s, lots, ask)
  PROVE  WriterInv'
<1> DEFINE r == short[s]
           credited == IF lots > 0 THEN Credited(AmountIn(s, lots), lots) ELSE 0
           more == r.deposited + credited
           asked == r.resident + ask
           taken == [r EXCEPT !.claimed = TRUE]
           paid == [taken EXCEPT !.deposited = more]
           w == [paid EXCEPT !.resident = asked]
<1>1. /\ hour < ExpiresAt[s] /\ AmountIn(s, lots) <= spendable /\ ask <= FreeOf(s) + credited
      /\ lockedIn' = lockedIn + AmountIn(s, credited)
      /\ spendable' = spendable - AmountIn(s, lots)
      /\ short' = [short EXCEPT ![s].claimed = TRUE, ![s].deposited = @ + credited,
                                ![s].resident = @ + ask]
      /\ UNCHANGED <<nextRoll, hour, accepting, strangers>>
  BY DEF VaultQuote, LockedFor
<1>2. lots \in Nat /\ ask \in Nat
  BY WriterNumbers
<1>3. AmountIn(s, lots) \in Nat
  BY <1>2, Amounts
<1>4. credited \in Nat
  <2>1. Arrived(AmountIn(s, lots)) \in Nat
    BY <1>3, WriterNumbers DEF Arrived
  <2>2. Arrived(AmountIn(s, lots)) \div RawPerUnit \in Nat
    BY <2>1, WriterNumbers, DivBounds
  <2> QED
    BY <1>2, <2>2 DEF Credited
<1> HIDE DEF credited
<1>5. /\ r \in ShortType /\ r.deposited \in Nat /\ r.withdrawn \in Nat /\ r.sold \in Nat
      /\ r.open \in Nat /\ r.resident \in Nat /\ r.settled \in BOOLEAN
      /\ r.withdrawn <= r.deposited /\ r.open <= r.sold
      /\ Held(s) = r.deposited - r.withdrawn /\ Held(s) \in Nat
      /\ ~r.settled => r.sold + r.resident <= Held(s)
      /\ r.settled => ExpiresAt[s] <= hour
      /\ FreeOf(s) = Held(s) - r.sold - r.resident
  BY SlotNumbers DEF FreeOf
<1>6. ~r.settled
  BY <1>1, <1>5, WriterNumbers, WriterState
<1>7. /\ w \in ShortType
      /\ w.claimed = TRUE /\ w.deposited = r.deposited + credited /\ w.withdrawn = r.withdrawn
      /\ w.sold = r.sold /\ w.open = r.open /\ w.resident = r.resident + ask
      /\ w.settled = r.settled
  <2>1. r \in ShortType /\ more \in Nat /\ asked \in Nat
    BY <1>2, <1>4, <1>5
  <2> HIDE DEF r, more, asked
  <2>2. /\ taken \in ShortType /\ taken.claimed = TRUE /\ taken.deposited = r.deposited
        /\ taken.withdrawn = r.withdrawn /\ taken.sold = r.sold /\ taken.open = r.open
        /\ taken.settled = r.settled
    BY <2>1 DEF ShortType
  <2> HIDE DEF taken
  <2>3. /\ paid \in ShortType /\ paid.claimed = taken.claimed /\ paid.deposited = more
        /\ paid.withdrawn = taken.withdrawn /\ paid.sold = taken.sold /\ paid.open = taken.open
        /\ paid.settled = taken.settled
    BY <2>1, <2>2 DEF ShortType
  <2> HIDE DEF paid
  <2>4. /\ w \in ShortType /\ w.claimed = paid.claimed /\ w.deposited = paid.deposited
        /\ w.withdrawn = paid.withdrawn /\ w.sold = paid.sold /\ w.open = paid.open
        /\ w.resident = asked /\ w.settled = paid.settled
    BY <2>1, <2>3 DEF ShortType
  <2> QED
    BY <2>2, <2>3, <2>4 DEF more, asked
<1>8. short' = [short EXCEPT ![s] = w]
  <2>1. short \in [Written -> ShortType]
    BY WriterState
  <2> QED
    BY <1>1, <2>1 DEF ShortType
<1> HIDE DEF w
<1>9. SoundSlot(s, w)
  BY <1>1, <1>2, <1>4, <1>5, <1>6, <1>7 DEF SoundSlot
<1>10. w.deposited - w.withdrawn = Held(s) + credited
  BY <1>4, <1>5, <1>7
<1>11. /\ AmountIn(s, Held(s) + credited) <= AmountIn(s, Held(s)) + AmountIn(s, credited)
       /\ CoveredCall => AmountIn(s, Held(s) + credited) = AmountIn(s, Held(s)) + AmountIn(s, credited)
       /\ AmountIn(s, Held(s)) \in Nat /\ AmountIn(s, credited) \in Nat
       /\ AmountIn(s, Held(s) + credited) \in Nat
  <2>1. Held(s) + credited \in Nat
    BY <1>4, <1>5
  <2> QED
    BY <1>4, <1>5, <2>1, Amounts
<1>12. lockedIn' \in Nat /\ spendable' \in Nat
  BY <1>1, <1>3, <1>11, WriterState
<1>13. {accepting', strangers'} \subseteq BOOLEAN
  BY <1>1, WriterState, Zenon
<1>14. lockedIn \in Nat
  BY WriterState
<1>15. /\ lockedIn' + AmountIn(s, Held(s)) >= lockedIn + AmountIn(s, w.deposited - w.withdrawn)
       /\ CoveredCall =>
            lockedIn' + AmountIn(s, Held(s)) = lockedIn + AmountIn(s, w.deposited - w.withdrawn)
  <2>1. lockedIn' = lockedIn + AmountIn(s, credited)
    BY <1>1
  <2> QED
    BY <1>10, <1>11, <1>14, <2>1
<1>16. hour' = hour /\ nextRoll' = nextRoll /\ strangers' = strangers
  BY <1>1
<1> QED
  BY <1>7, <1>8, <1>9, <1>12, <1>13, <1>15, <1>16, OneSlotMoves

\* A step of one slot that moves no collateral.
LEMMA HeldKept ==
  ASSUME WriterInv, NEW s \in Written, NEW w \in ShortType, short' = [short EXCEPT ![s] = w],
         SoundSlot(s, w), w.deposited - w.withdrawn = Held(s),
         UNCHANGED <<lockedIn, spendable, nextRoll, hour, accepting, strangers>>
  PROVE  WriterInv'
<1>1. AmountIn(s, w.deposited - w.withdrawn) = AmountIn(s, Held(s))
  OBVIOUS
<1>2. AmountIn(s, Held(s)) \in Nat
  BY SlotNumbers, Amounts
<1>3. lockedIn \in Nat /\ spendable \in Nat /\ {accepting, strangers} \subseteq BOOLEAN
  BY WriterState, Zenon
<1>4. {accepting', strangers'} \subseteq BOOLEAN
  BY <1>3, Zenon
<1>5. /\ lockedIn' = lockedIn /\ spendable' = spendable /\ strangers' = strangers
      /\ hour' = hour /\ nextRoll' = nextRoll
  OBVIOUS
<1>6. /\ lockedIn' + AmountIn(s, Held(s)) >= lockedIn + AmountIn(s, w.deposited - w.withdrawn)
      /\ lockedIn' + AmountIn(s, Held(s)) = lockedIn + AmountIn(s, w.deposited - w.withdrawn)
  BY <1>1, <1>2, <1>3, <1>5
<1>7. lockedIn' \in Nat /\ spendable' \in Nat
  BY <1>3, <1>5
<1> QED
  <2>1. CoveredCall /\ ~strangers' =>
          /\ ~strangers
          /\ lockedIn' + AmountIn(s, Held(s)) = lockedIn + AmountIn(s, w.deposited - w.withdrawn)
    BY <1>5, <1>6
  <2> QED
    BY <1>4, <1>5, <1>6, <1>7, <2>1, OneSlotMoves, Zenon

\* The book takes an ask off.
LEMMA CancelCovers ==
  ASSUME WriterInv, NEW s \in Written, VaultCancelAsk(s)
  PROVE  WriterInv'
<1> DEFINE r == short[s]
           w == [r EXCEPT !.resident = 0]
<1>1. /\ short' = [short EXCEPT ![s] = w]
      /\ UNCHANGED <<lockedIn, spendable, nextRoll, hour, accepting, strangers>>
  BY WriterState DEF VaultCancelAsk, ShortType
<1>2. /\ w \in ShortType /\ w.claimed = r.claimed /\ w.deposited = r.deposited
      /\ w.withdrawn = r.withdrawn /\ w.sold = r.sold /\ w.open = r.open /\ w.resident = 0
      /\ w.settled = r.settled
  <2>1. r \in ShortType
    BY SlotNumbers
  <2> HIDE DEF r
  <2> QED
    BY <2>1 DEF ShortType
<1>3. ~r.claimed => w = NoShort
  <2>1. ~r.claimed => r = NoShort
    BY SlotNumbers
  <2>2. r.resident > 0
    BY DEF VaultCancelAsk
  <2> QED
    BY <2>1, <2>2 DEF NoShort
<1> HIDE DEF w
<1>4. SoundSlot(s, w)
  BY <1>2, <1>3, SlotNumbers DEF SoundSlot
<1>5. w.deposited - w.withdrawn = Held(s)
  BY <1>2, SlotNumbers
<1> QED
  BY <1>1, <1>2, <1>4, <1>5, HeldKept

\* A buyer takes lots the vault has on the book.
LEMMA BuyCovers ==
  ASSUME WriterInv, NEW s \in Written, NEW lots \in Sizes, BuyFromVault(s, lots)
  PROVE  WriterInv'
<1> DEFINE r == short[s]
           rest == r.resident - lots
           more == r.sold + lots
           wide == r.open + lots
           gone == [r EXCEPT !.resident = rest]
           paid == [gone EXCEPT !.sold = more]
           w == [paid EXCEPT !.open = wide]
<1>1. /\ hour < ExpiresAt[s] /\ lots <= r.resident /\ lots \in Nat /\ lots > 0
      /\ UNCHANGED <<lockedIn, spendable, nextRoll, hour, accepting, strangers>>
  BY WriterNumbers DEF BuyFromVault
<1>2. short' = [short EXCEPT ![s] = w]
  BY WriterState DEF BuyFromVault, ShortType
<1>3. /\ r \in ShortType /\ r.deposited \in Nat /\ r.withdrawn \in Nat /\ r.sold \in Nat
      /\ r.open \in Nat /\ r.resident \in Nat /\ r.settled \in BOOLEAN
      /\ r.withdrawn <= r.deposited /\ r.open <= r.sold
      /\ Held(s) = r.deposited - r.withdrawn
      /\ ~r.settled => r.sold + r.resident <= Held(s)
      /\ r.settled => ExpiresAt[s] <= hour
      /\ ~r.claimed => r = NoShort
  BY SlotNumbers
<1>4. /\ w \in ShortType /\ w.claimed = r.claimed /\ w.deposited = r.deposited
      /\ w.withdrawn = r.withdrawn /\ w.sold = r.sold + lots /\ w.open = r.open + lots
      /\ w.resident = r.resident - lots /\ w.settled = r.settled
  <2>1. r \in ShortType /\ rest \in Nat /\ more \in Nat /\ wide \in Nat
    BY <1>1, <1>3
  <2> HIDE DEF r, rest, more, wide
  <2>2. /\ gone \in ShortType /\ gone.claimed = r.claimed /\ gone.deposited = r.deposited
        /\ gone.withdrawn = r.withdrawn /\ gone.resident = rest /\ gone.settled = r.settled
    BY <2>1 DEF ShortType
  <2> HIDE DEF gone
  <2>3. /\ paid \in ShortType /\ paid.claimed = gone.claimed /\ paid.deposited = gone.deposited
        /\ paid.withdrawn = gone.withdrawn /\ paid.sold = more /\ paid.resident = gone.resident
        /\ paid.settled = gone.settled
    BY <2>1, <2>2 DEF ShortType
  <2> HIDE DEF paid
  <2>4. /\ w \in ShortType /\ w.claimed = paid.claimed /\ w.deposited = paid.deposited
        /\ w.withdrawn = paid.withdrawn /\ w.sold = paid.sold /\ w.open = wide
        /\ w.resident = paid.resident /\ w.settled = paid.settled
    BY <2>1, <2>3 DEF ShortType
  <2> QED
    BY <2>2, <2>3, <2>4 DEF rest, more, wide
<1> HIDE DEF w
<1>5. ~r.settled /\ r.claimed
  <2>1. ~r.settled
    BY <1>1, <1>3, WriterNumbers, WriterState
  <2>2. ASSUME ~r.claimed PROVE FALSE
    BY <1>1, <1>3, <2>2 DEF NoShort
  <2> QED
    BY <2>1, <2>2
<1>6. SoundSlot(s, w)
  BY <1>1, <1>3, <1>4, <1>5 DEF SoundSlot
<1>7. w.deposited - w.withdrawn = Held(s)
  BY <1>3, <1>4
<1> QED
  BY <1>1, <1>2, <1>4, <1>6, <1>7, HeldKept

\* An exercise takes lots out of the open ones, and a sale back to the vault
\* takes them out of the sold ones too.
LEMMA AssignCovers ==
  ASSUME WriterInv, NEW s \in Written, NEW lots \in Sizes,
         Assign(s, lots) \/ BuyBackShort(s, lots)
  PROVE  WriterInv'
<1> DEFINE r == short[s]
           rest == r.open - lots
           less == r.sold - lots
           half == [r EXCEPT !.open = rest]
           w == [half EXCEPT !.sold = less]
<1>1. /\ hour < ExpiresAt[s] /\ lots <= r.open /\ lots \in Nat /\ lots > 0
      /\ UNCHANGED <<lockedIn, spendable, nextRoll, hour, accepting, strangers>>
  BY WriterNumbers DEF Assign, BuyBackShort
<1>2. \/ Assign(s, lots) /\ short' = [short EXCEPT ![s] = half]
      \/ BuyBackShort(s, lots) /\ short' = [short EXCEPT ![s] = w]
  BY WriterState DEF Assign, BuyBackShort, ShortType
<1>3. /\ r \in ShortType /\ r.deposited \in Nat /\ r.withdrawn \in Nat /\ r.sold \in Nat
      /\ r.open \in Nat /\ r.resident \in Nat /\ r.settled \in BOOLEAN
      /\ r.withdrawn <= r.deposited /\ r.open <= r.sold
      /\ Held(s) = r.deposited - r.withdrawn
      /\ ~r.settled => r.sold + r.resident <= Held(s)
      /\ r.settled => ExpiresAt[s] <= hour
      /\ ~r.claimed => r = NoShort
  BY SlotNumbers
<1>4. /\ half \in ShortType /\ half.claimed = r.claimed /\ half.deposited = r.deposited
      /\ half.withdrawn = r.withdrawn /\ half.sold = r.sold /\ half.open = r.open - lots
      /\ half.resident = r.resident /\ half.settled = r.settled
  <2>1. r \in ShortType /\ rest \in Nat
    BY <1>1, <1>3
  <2> HIDE DEF r, rest
  <2>2. /\ half \in ShortType /\ half.claimed = r.claimed /\ half.deposited = r.deposited
        /\ half.withdrawn = r.withdrawn /\ half.sold = r.sold /\ half.open = rest
        /\ half.resident = r.resident /\ half.settled = r.settled
    BY <2>1 DEF ShortType
  <2> QED
    BY <2>2 DEF rest
<1>5. /\ w \in ShortType /\ w.claimed = half.claimed /\ w.deposited = half.deposited
      /\ w.withdrawn = half.withdrawn /\ w.sold = r.sold - lots /\ w.open = half.open
      /\ w.resident = half.resident /\ w.settled = half.settled
  <2>1. half \in ShortType /\ less \in Nat
    BY <1>1, <1>3, <1>4
  <2> HIDE DEF half, less
  <2>2. /\ w \in ShortType /\ w.claimed = half.claimed /\ w.deposited = half.deposited
        /\ w.withdrawn = half.withdrawn /\ w.sold = less /\ w.open = half.open
        /\ w.resident = half.resident /\ w.settled = half.settled
    BY <2>1 DEF ShortType
  <2> QED
    BY <2>2 DEF less
<1> HIDE DEF w, half
<1>6. ~r.settled /\ r.claimed
  <2>1. ~r.settled
    BY <1>1, <1>3, WriterNumbers, WriterState
  <2>2. ASSUME ~r.claimed PROVE FALSE
    BY <1>1, <1>3, <2>2 DEF NoShort
  <2> QED
    BY <2>1, <2>2
<1>7. SoundSlot(s, half) /\ SoundSlot(s, w)
  BY <1>1, <1>3, <1>4, <1>5, <1>6 DEF SoundSlot
<1>8. half.deposited - half.withdrawn = Held(s) /\ w.deposited - w.withdrawn = Held(s)
  BY <1>3, <1>4, <1>5
<1> QED
  BY <1>1, <1>2, <1>4, <1>5, <1>7, <1>8, HeldKept

\* A slot that is used up is claimed by the next writer.
LEMMA RecycleCovers ==
  ASSUME WriterInv, NEW s \in Written, Recycle(s)
  PROVE  WriterInv'
<1>1. /\ Held(s) = 0 /\ short' = [short EXCEPT ![s] = NoShort]
      /\ UNCHANGED <<lockedIn, spendable, nextRoll, hour, accepting, strangers>>
  BY DEF Recycle
<1>2. NoShort \in ShortType /\ SoundSlot(s, NoShort) /\ NoShort.deposited - NoShort.withdrawn = 0
  BY DEF NoShort, ShortType, SoundSlot
<1> QED
  BY <1>1, <1>2, HeldKept

\* What saturates in a subtraction that never borrows.
LEMMA LoweredBy ==
  ASSUME NEW amount \in Nat, lockedIn \in Nat, amount <= lockedIn
  PROVE  Lowered(amount) = lockedIn - amount /\ Lowered(amount) \in Nat
BY DEF Lowered

\* Unsold collateral goes back: a put gives back less than it unlocks.
LEMMA WithdrawCovers ==
  ASSUME WriterInv, NEW s \in Written, NEW lots \in Sizes, VaultWithdrawUnsold(s, lots)
  PROVE  WriterInv'
<1> DEFINE r == short[s]
           more == r.withdrawn + lots
           w == [r EXCEPT !.withdrawn = more]
<1>1. /\ r.claimed /\ lots <= FreeOf(s) /\ lots \in Nat /\ lots > 0
      /\ lockedIn' = Lowered(AmountOut(s, lots))
      /\ spendable' = spendable + AmountOut(s, lots)
      /\ UNCHANGED <<nextRoll, hour, accepting, strangers>>
  BY WriterNumbers DEF VaultWithdrawUnsold
<1>2. short' = [short EXCEPT ![s] = w]
  BY WriterState DEF VaultWithdrawUnsold, ShortType
<1>3. /\ r \in ShortType /\ r.deposited \in Nat /\ r.withdrawn \in Nat /\ r.sold \in Nat
      /\ r.open \in Nat /\ r.resident \in Nat /\ r.settled \in BOOLEAN
      /\ r.withdrawn <= r.deposited /\ r.open <= r.sold
      /\ Held(s) = r.deposited - r.withdrawn /\ Held(s) \in Nat
      /\ ~r.settled => r.sold + r.resident <= Held(s)
      /\ r.settled => Held(s) = 0
      /\ FreeOf(s) = Held(s) - r.sold - r.resident
  BY SlotNumbers DEF FreeOf
<1>4. /\ w \in ShortType /\ w.claimed = r.claimed /\ w.deposited = r.deposited
      /\ w.withdrawn = r.withdrawn + lots /\ w.sold = r.sold /\ w.open = r.open
      /\ w.resident = r.resident /\ w.settled = r.settled
  <2>1. r \in ShortType /\ more \in Nat
    BY <1>1, <1>3
  <2> HIDE DEF r, more
  <2>2. /\ w \in ShortType /\ w.claimed = r.claimed /\ w.deposited = r.deposited
        /\ w.withdrawn = more /\ w.sold = r.sold /\ w.open = r.open
        /\ w.resident = r.resident /\ w.settled = r.settled
    BY <2>1 DEF ShortType
  <2> QED
    BY <2>2 DEF more
<1> HIDE DEF w
<1>5. ~r.settled /\ lots <= Held(s)
  BY <1>1, <1>3
<1>6. SoundSlot(s, w)
  BY <1>1, <1>3, <1>4, <1>5 DEF SoundSlot
<1>7. w.deposited - w.withdrawn = Held(s) - lots
  BY <1>1, <1>3, <1>4
<1>8. /\ AmountIn(s, Held(s)) \in Nat /\ AmountOut(s, lots) \in Nat
      /\ AmountIn(s, Held(s) - lots) \in Nat
      /\ AmountIn(s, Held(s) - lots) + AmountOut(s, lots) <= AmountIn(s, Held(s))
      /\ CoveredCall => AmountIn(s, Held(s) - lots) + AmountOut(s, lots) = AmountIn(s, Held(s))
  <2>1. Held(s) - lots \in Nat
    BY <1>1, <1>3, <1>5
  <2> QED
    BY <1>1, <1>3, <1>5, <2>1, Amounts
<1>9. AmountIn(s, Held(s)) <= lockedIn /\ lockedIn \in Nat /\ spendable \in Nat
  BY CollateralSums, WriterState DEF WriterInv, LockedCovers
<1>10. /\ lockedIn' = lockedIn - AmountOut(s, lots)
       /\ lockedIn' \in Nat /\ spendable' \in Nat
  <2>1. AmountOut(s, lots) <= lockedIn
    BY <1>8, <1>9
  <2>2. Lowered(AmountOut(s, lots)) = lockedIn - AmountOut(s, lots)
    BY <1>8, <1>9, <2>1, LoweredBy
  <2> QED
    BY <1>1, <1>8, <1>9, <2>1, <2>2
<1>11. {accepting', strangers'} \subseteq BOOLEAN
  BY <1>1, WriterState, Zenon
<1>12. /\ lockedIn' + AmountIn(s, Held(s)) >= lockedIn + AmountIn(s, w.deposited - w.withdrawn)
       /\ CoveredCall /\ ~strangers' =>
            /\ ~strangers
            /\ lockedIn' + AmountIn(s, Held(s)) = lockedIn + AmountIn(s, w.deposited - w.withdrawn)
  <2>1. strangers' = strangers
    BY <1>1
  <2> QED
    BY <1>7, <1>8, <1>9, <1>10, <2>1
<1>13. hour' = hour /\ nextRoll' = nextRoll
  BY <1>1
<1> QED
  BY <1>2, <1>4, <1>6, <1>10, <1>11, <1>12, <1>13, OneSlotMoves

\* A slot that settles is left empty, whoever settles it.
LEMMA SettleCovers ==
  ASSUME WriterInv, NEW s \in Written, VaultSettle(s) \/ SettleWriter(s)
  PROVE  WriterInv'
<1> DEFINE r == short[s]
           done == [r EXCEPT !.settled = TRUE]
           back == [done EXCEPT !.withdrawn = r.deposited]
           w == [back EXCEPT !.open = 0]
           free == Held(s) - r.sold + r.open
<1>1. /\ r.claimed /\ ~r.settled /\ hour >= ExpiresAt[s]
      /\ spendable' = spendable + AmountOut(s, free)
      /\ UNCHANGED <<nextRoll, hour, accepting>>
  BY DEF VaultSettle, SettleWriter, Settled
<1>2. short' = [short EXCEPT ![s] = w]
  BY WriterState DEF VaultSettle, SettleWriter, Settled, ShortType
<1>3. /\ r \in ShortType /\ r.deposited \in Nat /\ r.withdrawn \in Nat /\ r.sold \in Nat
      /\ r.open \in Nat /\ r.resident \in Nat
      /\ r.withdrawn <= r.deposited /\ r.open <= r.sold
      /\ Held(s) = r.deposited - r.withdrawn /\ Held(s) \in Nat
      /\ ~r.settled => r.sold + r.resident <= Held(s)
  BY SlotNumbers
<1>4. /\ w \in ShortType /\ w.claimed = r.claimed /\ w.deposited = r.deposited
      /\ w.withdrawn = r.deposited /\ w.sold = r.sold /\ w.open = 0
      /\ w.resident = r.resident /\ w.settled = TRUE
  <2>1. r \in ShortType /\ r.deposited \in Nat
    BY <1>3
  <2> HIDE DEF r
  <2>2. /\ done \in ShortType /\ done.claimed = r.claimed /\ done.deposited = r.deposited
        /\ done.sold = r.sold /\ done.resident = r.resident /\ done.settled = TRUE
    BY <2>1 DEF ShortType
  <2> HIDE DEF done
  <2>3. /\ back \in ShortType /\ back.claimed = done.claimed /\ back.deposited = done.deposited
        /\ back.withdrawn = r.deposited /\ back.sold = done.sold
        /\ back.resident = done.resident /\ back.settled = done.settled
    BY <2>1, <2>2 DEF ShortType
  <2> HIDE DEF back
  <2>4. /\ w \in ShortType /\ w.claimed = back.claimed /\ w.deposited = back.deposited
        /\ w.withdrawn = back.withdrawn /\ w.sold = back.sold /\ w.open = 0
        /\ w.resident = back.resident /\ w.settled = back.settled
    BY <2>3 DEF ShortType
  <2> QED
    BY <2>2, <2>3, <2>4
<1> HIDE DEF w
<1>5. SoundSlot(s, w)
  BY <1>1, <1>3, <1>4, WriterNumbers, WriterState DEF SoundSlot
<1>6. w.deposited - w.withdrawn = 0
  BY <1>3, <1>4
<1>7. free \in Nat
  BY <1>1, <1>3
<1> HIDE DEF free
<1>8. /\ AmountIn(s, Held(s)) \in Nat /\ AmountOut(s, free) \in Nat /\ AmountIn(s, 0) = 0
  BY <1>3, <1>7, Amounts
<1>9. AmountIn(s, Held(s)) <= lockedIn /\ lockedIn \in Nat /\ spendable \in Nat
  BY CollateralSums, WriterState DEF WriterInv, LockedCovers
<1>10. spendable' \in Nat
  BY <1>1, <1>8, <1>9
<1>11. AmountIn(s, w.deposited - w.withdrawn) = 0
  BY <1>6, <1>8
<1>12. hour' = hour /\ nextRoll' = nextRoll
  BY <1>1
<1>13. CASE VaultSettle(s)
  <2>1. /\ lockedIn' = Lowered(AmountIn(s, Held(s))) /\ strangers' = strangers
    BY <1>13 DEF VaultSettle
  <2>2. lockedIn' = lockedIn - AmountIn(s, Held(s)) /\ lockedIn' \in Nat
    BY <1>8, <1>9, <2>1, LoweredBy
  <2>3. {accepting', strangers'} \subseteq BOOLEAN
    BY <1>1, <2>1, WriterState, Zenon
  <2>4. /\ lockedIn' + AmountIn(s, Held(s)) >= lockedIn + AmountIn(s, w.deposited - w.withdrawn)
        /\ CoveredCall /\ ~strangers' =>
             /\ ~strangers
             /\ lockedIn' + AmountIn(s, Held(s)) = lockedIn + AmountIn(s, w.deposited - w.withdrawn)
    BY <1>8, <1>9, <1>11, <2>1, <2>2
  <2> QED
    BY <1>2, <1>4, <1>5, <1>10, <1>12, <2>2, <2>3, <2>4, OneSlotMoves
<1>14. CASE SettleWriter(s)
  <2>1. lockedIn' = lockedIn /\ strangers' = TRUE
    BY <1>14 DEF SettleWriter
  <2>2. {accepting', strangers'} \subseteq BOOLEAN
    BY <1>1, <2>1, WriterState, Zenon
  <2>3. lockedIn' + AmountIn(s, Held(s)) >= lockedIn + AmountIn(s, w.deposited - w.withdrawn)
    BY <1>8, <1>9, <1>11, <2>1
  <2>4. CoveredCall /\ ~strangers' =>
          /\ ~strangers
          /\ lockedIn' + AmountIn(s, Held(s)) = lockedIn + AmountIn(s, w.deposited - w.withdrawn)
    BY <2>1
  <2>5. lockedIn' \in Nat
    BY <1>9, <2>1
  <2> QED
    BY <1>2, <1>4, <1>5, <1>10, <1>12, <2>2, <2>3, <2>4, <2>5, OneSlotMoves
<1> QED
  BY <1>13, <1>14

\* What leaves the slots and locked_raw alone keeps the invariant as time goes on.
LEMMA OthersCover ==
  ASSUME WriterInv, UNCHANGED <<short, lockedIn, spendable, strangers>>,
         hour' \in Nat, hour' >= hour, nextRoll' \in Nat, accepting' \in BOOLEAN
  PROVE  WriterInv'
<1>1. WriterTypeOK'
  <2>1. short' \in [Written -> ShortType] /\ {accepting', strangers'} \subseteq BOOLEAN
    BY WriterState, Zenon
  <2>2. {lockedIn', spendable', nextRoll', hour'} \subseteq Nat
    BY WriterState
  <2> QED
    BY <2>1, <2>2, Zenon DEF WriterTypeOK
<1>2. \A x \in Written : SoundSlot(x, short[x])'
  <2> TAKE x \in Written
  <2>1. SoundSlot(x, short[x]) /\ ExpiresAt[x] \in Nat /\ hour \in Nat
    BY WriterNumbers, WriterState DEF WriterInv
  <2> QED
    BY <2>1 DEF SoundSlot
<1>3. Collateral' = Collateral
  BY DEF Collateral, AmountIn, Held
<1>4. LockedCovers' /\ LockedExactly'
  BY <1>3 DEF WriterInv, LockedCovers, LockedExactly
<1> QED
  BY <1>1, <1>2, <1>4 DEF WriterInv

\* Every step keeps the invariant.
LEMMA WriterSteps == WriterInv /\ [WriterNext]_writerVars => WriterInv'
<1> SUFFICES ASSUME WriterInv, [WriterNext]_writerVars PROVE WriterInv'
  OBVIOUS
<1>1. ASSUME NEW s \in Written, Manage(s) PROVE WriterInv'
  BY <1>1, QuoteCovers, CancelCovers, WithdrawCovers DEF Manage
<1>2. ASSUME NEW s \in Written, Trade(s) PROVE WriterInv'
  BY <1>2, BuyCovers, AssignCovers, RecycleCovers DEF Trade
<1>3. ASSUME NEW s \in Written, VaultSettle(s) \/ SettleWriter(s) PROVE WriterInv'
  BY <1>3, SettleCovers
<1>4. hour \in Nat /\ nextRoll \in Nat /\ accepting \in BOOLEAN
  BY WriterState, Zenon
<1>5. CASE VaultRoll
  <2>1. /\ hour' = hour /\ accepting' = accepting /\ nextRoll' = NextRollAfter(hour)
        /\ UNCHANGED <<short, lockedIn, spendable, strangers>>
    BY <1>5 DEF VaultRoll
  <2>2. hour \div RollInterval \in Nat /\ RollInterval \in Nat
    BY <1>4, WriterNumbers, DivBounds, VaultWriterConstants DEF VaultWriterConstants
  <2>3. NextRollAfter(hour) \in Nat
    BY <2>2 DEF NextRollAfter
  <2> QED
    BY <1>4, <2>1, <2>3, OthersCover
<1>6. CASE SetAccepting
  <2>1. accepting' \in BOOLEAN
    BY <1>4, <1>6, Zenon DEF SetAccepting
  <2> QED
    BY <1>4, <1>6, <2>1, OthersCover DEF SetAccepting
<1>7. CASE ClockTick
  BY <1>4, <1>7, OthersCover DEF ClockTick
<1>8. ASSUME NEW time \in 1 .. LastTime, MoveRoll(time) PROVE WriterInv'
  <2>1. time \in Nat
    OBVIOUS
  <2> QED
    BY <1>4, <1>8, <2>1, OthersCover DEF MoveRoll
<1>9. CASE UNCHANGED writerVars
  BY <1>4, <1>9, OthersCover DEF writerVars
<1> QED
  BY <1>1, <1>2, <1>3, <1>5, <1>6, <1>7, <1>8, <1>9 DEF WriterNext

\* It holds in every reachable state.
LEMMA WriterAlways == WriterSpec => []WriterInv
BY WriterStarts, WriterSteps, PTL DEF WriterSpec

\* locked_raw covers what the vault's slots hold in every series, on either
\* side, whatever the prices, caps and transfer fees: no roll prices the shares
\* while some of the collateral is out (handle_vault_roll).
THEOREM LockedAlwaysCovers == WriterSpec => []LockedCovers
<1>1. WriterInv => LockedCovers
  BY DEF WriterInv
<1> QED
  BY <1>1, WriterAlways, PTL

\* A covered call's locked_raw comes down to nothing with its slots, transfer
\* fees and dust included, as long as the vault settles them itself.
THEOREM NothingStaysLocked == WriterSpec => []NothingLeftLocked
<1>1. WriterInv => NothingLeftLocked
  <2> SUFFICES ASSUME WriterInv, CoveredCall, ~strangers, \A s \in Written : Held(s) = 0
               PROVE  lockedIn = 0
    BY DEF NothingLeftLocked
  <2>1. \A s \in Written : Collateral[s] = 0
    BY Amounts DEF Collateral
  <2>2. SumFunctionOnSet(Collateral, Written) = 0
    BY <2>1, WriterNumbers, SumOfZeros
  <2> QED
    BY <2>2, CollateralSums DEF WriterInv, LockedExactly
<1> QED
  BY <1>1, WriterAlways, PTL

\* No roll passes an obligation by, wherever the manager moved it to: with
\* nothing locked, every slot of the vault is empty.
THEOREM RollsPassNothingBy == WriterSpec => RollsWithNothingOut
<1>1. WriterInv /\ [WriterNext]_writerVars =>
        [VaultRoll => \A s \in Written : Held(s) = 0]_writerVars
  <2> SUFFICES ASSUME WriterInv, VaultRoll, NEW s \in Written PROVE Held(s) = 0
    OBVIOUS
  <2>1. lockedIn = 0
    BY DEF VaultRoll
  <2>2. AmountIn(s, Held(s)) <= lockedIn /\ AmountIn(s, Held(s)) \in Nat
    BY CollateralSums, WriterState DEF WriterInv, LockedCovers
  <2>3. Held(s) \in Nat /\ (Held(s) > 0 => AmountIn(s, Held(s)) > 0)
    BY SlotNumbers, Amounts
  <2> QED
    BY <2>1, <2>2, <2>3
<1> QED
  BY <1>1, WriterAlways, PTL DEF WriterSpec, RollsWithNothingOut
=============================================================================
