------------------------------- MODULE Quoting -------------------------------
(***************************************************************************)
(* The asks of packages/quoter on one series: in every tick the treasury's *)
(* leg and then the vault's, each of which reads the series, decides from  *)
(* that copy, cancels what it read and posts what is missing, while buyers *)
(* take asks in between.  Every send may be lost, may land with its answer *)
(* lost, or may land after the quoter has given it up.                     *)
(*                                                                         *)
(* A price is a level, and two levels are within the reprice tolerance     *)
(* when they differ by no more than Tolerance.  The premium claim and the  *)
(* bid of the vault's leg move no ask and are left out.                    *)
(***************************************************************************)
EXTENDS Integers, FiniteSets, FiniteSetsExt, Functions

Quoters == {"treasury", "vault"}

CONSTANTS
  Levels,           (* what the model may price an ask at                   *)
  Tolerance,        (* repriceTolerance                                     *)
  LotsPerSeries,    (* lots of one side's ask                               *)
  AskMinimum,       (* the market's min_lots6                               *)
  VaultCap,         (* the vault's cap on the series                        *)
  Backings,         (* bound: the lots each can back at the start           *)
  BesideVault       (* QUOTER_BESIDE_VAULT: both quote a vault's side       *)

ASSUME QuotingConstants ==
  /\ Levels \subseteq Nat \ {0} /\ Tolerance \in Nat
  /\ {LotsPerSeries, AskMinimum, VaultCap} \subseteq Nat \ {0} /\ BesideVault \in BOOLEAN
  /\ Backings \subseteq [Quoters -> Nat]
Sights == {"fine", "stale", "none"}

VARIABLES
  book,             (* the resident asks of the two: [who, seq, lots, price] *)
  held,             (* who -> lots of its slot that are not sold            *)
  sold,             (* who -> lots sold                                     *)
  purse,            (* who -> lots it can still deposit                     *)
  leg,              (* the leg of the tick under way                        *)
  late              (* sends given up that may still land                   *)

quotingVars == <<book, held, sold, purse, leg, late>>
onChain == <<book, held, sold, purse>>

\* What the pass knows: the level the model gives the series; whether the price is
\* "fine", one a breaker of the cycle refuses ("stale"), or "none" a cycle may
\* start from; whether the expiry is one the treasury keeps quoting.
NoPost == [lots |-> 0, deposit |-> 0, price |-> 0]
Between == [who |-> "nobody", at |-> "over", level |-> 0, sight |-> "fine", quoted |-> FALSE, todo |-> {},
            post |-> NoPost, gives |-> FALSE, clean |-> FALSE]

QuotingInit ==
  /\ book = {} /\ held = [w \in Quoters |-> 0] /\ sold = [w \in Quoters |-> 0]
  /\ purse \in Backings
  /\ leg = Between /\ late = {}

OwnAsks(w) == {a \in book : a.who = w}
LotsIn(as) == SumFunctionOnSet([a \in as |-> a.lots], as)
Off(price, level) == IF price > level THEN price - level ELSE level - price

-----------------------------------------------------------------------------
\* What a leg does with the asks it read.  The asks of the account are sorted by
\* price and then age, and both quoters look at the first of their own.
Ahead(a, b) == a.price < b.price \/ (a.price = b.price /\ a.seq < b.seq)

\* Mutant of Current: the dearest ask stands for all of them.
Dearest(own) == CHOOSE a \in own : \A b \in own \ {a} : Ahead(b, a)
Current(own) == CHOOSE a \in own : \A b \in own \ {a} : Ahead(a, b)

\* todo: the asks to cancel.  gives: a cancel that fails ends the leg.
Plan(todo, post, gives) == [todo |-> todo, post |-> post, gives |-> gives]
LeaveBe == Plan({}, NoPost, FALSE)

\* Mutant of PullAll: the breaker only stops quoting.
StopQuoting(own) == LeaveBe
PullAll(own) == Plan({a.seq : a \in own}, NoPost, FALSE)

Repost(own, want, deposit, level) ==
  Plan({a.seq : a \in own}, [lots |-> want, deposit |-> deposit, price |-> level], TRUE)

\* Quoter.cycle.  funded: what canDeposit answers.  paused: the
\* vault is halted.
TreasuryPlan(own, level, seen, funded, paused) ==
  LET deposit == IF held.treasury >= LotsPerSeries THEN 0 ELSE LotsPerSeries - held.treasury
      pays == deposit = 0 \/ funded
      want == IF pays THEN LotsPerSeries ELSE held.treasury
  IN  IF seen # "fine" \/ (~paused /\ ~BesideVault) THEN PullAll(own)
      ELSE IF ~leg.quoted THEN LeaveBe
      ELSE IF /\ own # {} /\ Off(Current(own).price, level) <= Tolerance
              /\ LotsIn(own) * 2 >= LotsPerSeries THEN LeaveBe
      ELSE IF want < AskMinimum THEN LeaveBe
      ELSE Repost(own, want, IF pays THEN deposit ELSE 0, level)

\* VaultQuoter.cycle.
VaultPlan(own, level, paused) ==
  LET wish == Min({LotsPerSeries, VaultCap - sold.vault})
      deposit == Min({IF held.vault >= wish THEN 0 ELSE wish - held.vault, purse.vault})
      want == IF held.vault + deposit < wish THEN held.vault + deposit ELSE wish
  IN  IF paused \/ sold.vault >= VaultCap THEN PullAll(own)
      ELSE IF own # {} /\ Off(Current(own).price, level) <= Tolerance THEN LeaveBe
      ELSE IF want < AskMinimum THEN LeaveBe
      ELSE Repost(own, want, deposit, level)

-----------------------------------------------------------------------------
\* A tick: the treasury's leg, with what is known of the price and the expiries.
BeginPass(level, sight, quotable) ==
  /\ leg.who = "nobody"
  /\ leg' = [Between EXCEPT !.who = "treasury", !.at = "reads", !.level = level, !.sight = sight,
                         !.quoted = quotable]
  /\ UNCHANGED <<onChain, late>>

\* The vault's leg follows.  Without a price it is not started.
NextLeg ==
  /\ leg.who # "nobody" /\ leg.at = "over"
  /\ leg' = IF leg.who = "treasury" /\ leg.sight # "none"
              THEN [leg EXCEPT !.who = "vault", !.at = "reads"]
              ELSE [Between EXCEPT !.sight = leg.sight]
  /\ UNCHANGED <<onChain, late>>

ReadBook(funded, paused) ==
  /\ leg.at = "reads"
  /\ funded => purse[leg.who] >= LotsPerSeries - held[leg.who]
  /\ LET own == OwnAsks(leg.who)
         plan == IF leg.who = "treasury" THEN TreasuryPlan(own, leg.level, leg.sight, funded, paused)
                 ELSE VaultPlan(own, leg.level, paused)
     IN  leg' = [leg EXCEPT !.at = "sends", !.todo = plan.todo, !.post = plan.post,
                            !.gives = plan.gives, !.clean = TRUE]
  /\ UNCHANGED <<onChain, late>>

\* What the program makes of a cancel, and of a quote: the deposit is credited, a
\* vault's within its cap, and what is not sold and not in another ask must cover
\* the new one.
Cancelled(w, k) ==
  /\ \E a \in OwnAsks(w) : a.seq = k
  /\ book' = {a \in book : ~(a.who = w /\ a.seq = k)}
  /\ UNCHANGED <<held, sold, purse>>

Unused == CHOOSE k \in 1 .. Cardinality(book) + Cardinality(leg.todo) + Cardinality(late) + 1 :
            k \notin {a.seq : a \in book} \cup leg.todo \cup {t.seq : t \in late}

Quoted(w, post) ==
  /\ post.deposit <= purse[w] /\ post.lots >= AskMinimum
  /\ w = "vault" => held[w] + sold[w] + post.deposit <= VaultCap
  /\ held[w] + post.deposit - LotsIn(OwnAsks(w)) >= post.lots
  /\ book' = book \cup {[who |-> w, seq |-> Unused, lots |-> post.lots, price |-> post.price]}
  /\ held' = [held EXCEPT ![w] = @ + post.deposit]
  /\ purse' = [purse EXCEPT ![w] = @ - post.deposit]
  /\ UNCHANGED sold

\* A cancel that lands and is answered.
CancelLands(k) ==
  /\ leg.at = "sends" /\ k \in leg.todo
  /\ Cancelled(leg.who, k)
  /\ leg' = [leg EXCEPT !.todo = @ \ {k}]
  /\ UNCHANGED late

\* A cancel reported as failed: refused or lost, landed all the same, or still to
\* land.  Where it was to make room for a new ask the leg ends.
GivesUpOn(k) ==
  leg' = IF leg.gives THEN [leg EXCEPT !.at = "over", !.todo = {}, !.post = NoPost, !.clean = FALSE]
         ELSE [leg EXCEPT !.todo = @ \ {k}, !.clean = FALSE]

CancelFails(k) ==
  /\ leg.at = "sends" /\ k \in leg.todo
  /\ GivesUpOn(k)
  /\ \/ UNCHANGED <<onChain, late>>
     \/ Cancelled(leg.who, k) /\ UNCHANGED late
     \/ /\ late = {} /\ late' = {[who |-> leg.who, seq |-> k, post |-> NoPost]}
        /\ UNCHANGED onChain

PostLands ==
  /\ leg.at = "sends" /\ leg.todo = {} /\ leg.post # NoPost
  /\ Quoted(leg.who, leg.post)
  /\ leg' = [leg EXCEPT !.post = NoPost]
  /\ UNCHANGED late

PostFails ==
  /\ leg.at = "sends" /\ leg.todo = {} /\ leg.post # NoPost
  /\ leg' = [leg EXCEPT !.post = NoPost, !.clean = FALSE]
  /\ \/ UNCHANGED <<onChain, late>>
     \/ Quoted(leg.who, leg.post) /\ UNCHANGED late
     \/ /\ late = {} /\ late' = {[who |-> leg.who, seq |-> 0, post |-> leg.post]}
        /\ UNCHANGED onChain

EndLeg ==
  /\ leg.at = "sends" /\ leg.todo = {} /\ leg.post = NoPost
  /\ leg' = [leg EXCEPT !.at = "over"]
  /\ UNCHANGED <<onChain, late>>

\* A send given up long ago lands, or its blockhash runs out.
LateSend(t) ==
  /\ t \in late /\ late' = {}
  /\ leg' = [leg EXCEPT !.clean = FALSE]
  /\ \/ UNCHANGED onChain
     \/ t.post = NoPost /\ Cancelled(t.who, t.seq)
     \/ t.post # NoPost /\ Quoted(t.who, t.post)

-----------------------------------------------------------------------------
\* Buyers take the ask in front.
Fill(n) ==
  /\ book # {}
  /\ \E a \in book :
       /\ \A b \in book \ {a} : a.price <= b.price
       /\ n <= a.lots
       /\ book' = (book \ {a}) \cup (IF n = a.lots THEN {} ELSE {[a EXCEPT !.lots = @ - n]})
       /\ held' = [held EXCEPT ![a.who] = @ - n] /\ sold' = [sold EXCEPT ![a.who] = @ + n]
  /\ UNCHANGED <<purse, leg, late>>

QuoterSteps ==
  \/ \E level \in Levels, sight \in Sights, quotable \in BOOLEAN : BeginPass(level, sight, quotable)
  \/ \E funded, paused \in BOOLEAN : ReadBook(funded, paused)
  \/ NextLeg \/ EndLeg
  \/ \E k \in leg.todo : CancelLands(k) \/ CancelFails(k)
  \/ PostLands \/ PostFails

QuotingNext ==
  \/ QuoterSteps
  \/ \E t \in late : LateSend(t)
  \/ \E n \in 1 .. LotsPerSeries : Fill(n)

QuotingSpec == QuotingInit /\ [][QuotingNext]_quotingVars

\* The timer starts pass after pass, every await ends, what was given up lands or
\* runs out, and cancels do not fail for ever.
QuotingFairness ==
  /\ WF_quotingVars(QuoterSteps)
  /\ WF_quotingVars(\E t \in late : LateSend(t))
  /\ SF_quotingVars(leg.who = "treasury" /\ \E k \in leg.todo : CancelLands(k))
FairQuotingSpec == QuotingSpec /\ QuotingFairness

-----------------------------------------------------------------------------
(* Properties.                                                             *)

QuotingTypeOK ==
  /\ book \subseteq [who : Quoters, seq : Nat \ {0}, lots : Nat \ {0}, price : Levels]
  /\ \A f \in {held, sold, purse} : f \in [Quoters -> Nat]
  /\ leg.who \in Quoters \cup {"nobody"} /\ leg.sight \in Sights /\ leg.at \in {"reads", "sends", "over"}
  /\ leg.todo \subseteq Nat /\ Cardinality(late) <= 1

Whole(w) == leg.who = w /\ leg.at = "over" /\ leg.clean

\* Every ask a quoter keeps is worth its price: after a leg in which no send
\* failed, what it has on the book below the model by more than the tolerance is
\* less than the smallest ask, whatever arrived late before or was taken since.
CheapIsDust ==
  \A w \in Quoters :
    Whole(w) /\ leg.sight = "fine" /\ (w = "treasury" => leg.quoted) =>
      LotsIn({a \in OwnAsks(w) : a.price + Tolerance < leg.level}) < AskMinimum

\* "A breaker pulls the treasury's own asks: a resident ask priced on a stale or
\* missing input is the loss" (quoter.ts): with no price from some time on, its
\* asks are gone from some time on.
QuietWhenBlind == <>[](leg.sight # "fine") => <>[](OwnAsks("treasury") = {})

\* "The breakers that stop the treasury's own asks stop the vault's too"
\* (vault-quoter.ts:5): no pass that pulled the treasury's asks on a breaker ends
\* with the vault's still on the book.
VaultStopsToo ==
  leg.sight # "fine" /\ Whole("vault") => OwnAsks("vault") = {}
=============================================================================
