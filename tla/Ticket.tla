------------------------------- MODULE Ticket -------------------------------
(***************************************************************************)
(* A purchase from the ticket to the charge: what the web application      *)
(* shows for a size, walking the asks it has read, and what the program    *)
(* charges when the transaction lands on a book that has moved since.      *)
(*                                                                         *)
(* Between the two, asks are posted, cancelled and filled by others.  An   *)
(* ask is its price per lot and its lots; a lot is PerLot units of size.   *)
(***************************************************************************)
EXTENDS Integers, Sequences, SequencesExt, FiniteSetsExt, Functions

CONSTANTS
  AskPrices,        (* prices per lot                                       *)
  AskSizes,         (* sizes of an ask, in units                            *)
  TicketSizes,      (* sizes a buyer enters                                 *)
  PerLot,           (* LOT6                                                 *)
  TakerFee,         (* fee_bps, in tenths                                   *)
  WalkLimit,        (* MAX_WALK                                             *)
  MaxAsks           (* MAX_ASKS                                             *)

ASSUME TicketConstants ==
  /\ {PerLot, WalkLimit, MaxAsks} \subseteq Nat \ {0} /\ TakerFee \in 0 .. 10
  /\ AskPrices \cup AskSizes \cup TicketSizes \subseteq Nat \ {0}

VARIABLES
  ladder,           (* the asks of the series, cheapest first               *)
  ticket,           (* what was shown, and for which size                   *)
  moved,            (* what the book has done since it was read             *)
  charge            (* what the program took and gave                       *)

ticketVars == <<ladder, ticket, moved, charge>>

NoTicket == [size |-> 0, filled |-> 0, premium |-> 0, fee |-> 0, limit |-> 0]
Uncharged == [filled |-> 0, premium |-> 0, fee |-> 0]

TicketInit ==
  ladder = <<>> /\ ticket = NoTicket /\ moved = {} /\ charge = Uncharged

-----------------------------------------------------------------------------
\* premium_for and fee_ceil.
PremiumFor(units, price) == (units * price) \div PerLot
FeeCeilOf(premium) == (premium * TakerFee + 9) \div 10

TakeFrom(ask, wanted) == IF ask.units < wanted THEN ask.units ELSE wanted

\* What is left to fill after each ask of a walk.
StillWanted(asks, size) ==
  LET left[k \in 0 .. Len(asks)] ==
        IF k = 0 THEN size ELSE left[k - 1] - TakeFrom(asks[k], left[k - 1])
  IN  left

\* The first n asks walked: what they fill, and the premium floored for each.
Walked(asks, size, n) ==
  LET left == StillWanted(asks, size)
      premiums == [k \in 1 .. n |-> PremiumFor(left[k - 1] - left[k], asks[k].price)]
  IN  [filled |-> size - left[n], premium |-> SumFunction(premiums)]

\* Mutant of WalkAsks: the whole book is walked.
WalkAsksAll(asks, size) == Walked(asks, size, Len(asks))
\* walkAsks: the cheapest WalkLimit asks.
WalkAsks(asks, size) ==
  Walked(asks, size, IF Len(asks) < WalkLimit THEN Len(asks) ELSE WalkLimit)

\* costOf: the fee is taken on the whole premium, and the limit that goes into the
\* transaction is the dearest ask of the whole book.
CostOf(asks, size) ==
  LET w == WalkAsks(asks, size)
  IN  [size |-> size, filled |-> w.filled, premium |-> w.premium,
       fee |-> FeeCeilOf(w.premium),
       limit |-> IF asks = <<>> THEN 0 ELSE asks[Len(asks)].price]

\* A page shows the cost; only a size that can be filled can be signed.
ShowTicket(size) ==
  LET c == CostOf(ladder, size)
  IN  /\ c.filled = size
      /\ ticket' = c /\ moved' = {} /\ charge' = Uncharged
      /\ UNCHANGED ladder

-----------------------------------------------------------------------------
\* The units of the asks before the i-th of the book.
UnitsBefore(i) == SumFunction([j \in 1 .. i - 1 |-> ladder[j].units])

\* What the program takes of each ask of the book, up to the limit.
Takes(size, limit) ==
  [i \in 1 .. Len(ladder) |->
     IF i > WalkLimit \/ ladder[i].price > limit \/ UnitsBefore(i) >= size
       THEN 0 ELSE TakeFrom(ladder[i], size - UnitsBefore(i))]

\* buy: each ask is charged its own premium and fee.  The asks emptied leave from
\* the front: the walk goes past an ask only when it has emptied it.
BuyLands ==
  LET Book == 1 .. Len(ladder)
      takes == Takes(ticket.size, ticket.limit)
      premiums == [i \in Book |-> PremiumFor(takes[i], ladder[i].price)]
      fees == [i \in Book |-> FeeCeilOf(premiums[i])]
      rest == [i \in Book |-> [ladder[i] EXCEPT !.units = @ - takes[i]]]
      emptied == Cardinality({i \in Book : rest[i].units = 0})
  IN  /\ ticket # NoTicket /\ charge = Uncharged
      /\ SumFunction(takes) > 0
      /\ charge' = [filled |-> SumFunction(takes), premium |-> SumFunction(premiums),
                    fee |-> SumFunction(fees)]
      /\ ladder' = SubSeq(rest, emptied + 1, Len(ladder))
      /\ UNCHANGED <<ticket, moved>>

\* The transaction is refused, because nothing can be filled any more, or is lost.
BuyFails ==
  /\ ticket # NoTicket /\ ticket' = NoTicket /\ moved' = {} /\ charge' = Uncharged
  /\ UNCHANGED ladder

-----------------------------------------------------------------------------
\* What others do between the page and the charge is remembered.
OthersMove(how) ==
  /\ moved' = IF ticket = NoTicket \/ charge # Uncharged THEN moved ELSE moved \cup {how}
  /\ UNCHANGED <<ticket, charge>>

\* Somebody posts an ask, behind those of its price.  On a full book it evicts
\* the dearest ask, if it is cheaper.
OthersPost ==
  \E price \in AskPrices, units \in AskSizes :
    LET kept == IF Len(ladder) = MaxAsks THEN Front(ladder) ELSE ladder
        dearer == {i \in 1 .. Len(kept) : price < kept[i].price}
        place == IF dearer = {} THEN Len(kept) + 1 ELSE Min(dearer)
    IN  /\ Len(ladder) = MaxAsks => price < Last(ladder).price
        /\ ladder' = InsertAt(kept, place, [price |-> price, units |-> units])
        /\ OthersMove("more")

\* An ask is cancelled, or filled in part or whole by another buyer.
OthersTake ==
  \E i \in 1 .. Len(ladder) : \E units \in 0 .. ladder[i].units - 1 :
    /\ ladder' = IF units = 0 THEN RemoveAt(ladder, i) ELSE [ladder EXCEPT ![i].units = units]
    /\ OthersMove("less")

TicketNext ==
  \/ \E size \in TicketSizes : ShowTicket(size)
  \/ BuyLands \/ BuyFails \/ OthersPost \/ OthersTake

TicketSpec == TicketInit /\ [][TicketNext]_ticketVars

-----------------------------------------------------------------------------
(* Properties.                                                             *)

Charged == charge # Uncharged

\* "Walk the asks ... the way `buy` does on-chain" (model.ts): on the book it was
\* read from, a ticket that could be signed is filled whole at the premium shown.
\* If others have only posted asks, the buyer pays no more than shown, but for a
\* unit of rounding per ask walked.  Whatever others have done, no lot costs more
\* than the limit.
TicketHonoured ==
  Charged =>
    /\ moved = {} => charge.filled = ticket.size /\ charge.premium = ticket.premium
    /\ "less" \notin moved => charge.premium < ticket.premium + WalkLimit
    /\ charge.premium * PerLot <= ticket.limit * charge.filled

\* "The exact cost ... the way `buy` computes it: premium, fee, total"
\* (model.ts:391): the total shown is what leaves the buyer's account.
TicketIsTheCharge ==
  Charged /\ moved = {} => charge.premium = ticket.premium + ticket.fee
=============================================================================
