-------------------------------- MODULE Grid --------------------------------
(***************************************************************************)
(* The grid of one market: which expiries are on the calendar, which       *)
(* series exist and which of them are quoted.  A pass of the services is   *)
(* Keeper.rollGrid, the closing of what has expired, and the first half of *)
(* Quoter.cycle, which creates the series gridPlan asks for while the      *)
(* market's cap on live series has room.  Every send may be lost.          *)
(*                                                                         *)
(* Time is counted in units of which one pass at least falls in each; an   *)
(* expiry of the calendar comes every Gap units.  The forward is one of a  *)
(* few levels, in units of the strike step.                                *)
(***************************************************************************)
EXTENDS Integers, FiniteSets

CONSTANTS
  Gap,              (* from one expiry of the calendar to the next          *)
  ExpiriesAhead,    (* how many of them rollGrid keeps                      *)
  Extra,            (* expiries beside the calendar's                       *)
  GraceTime,        (* graceSecs                                            *)
  Tier,             (* 1 or 2: tier 3 is not quoted                         *)
  MaxLiveSeries,    (* the market's cap                                     *)
  StrikesPerSide,   (* at most 3                                            *)
  Forwards,         (* levels of the forward                                *)
  LastPassTime      (* bound: the last unit of time                         *)

ASSUME GridConstants ==
  /\ {Gap, ExpiriesAhead, MaxLiveSeries, LastPassTime} \subseteq Nat \ {0}
  /\ GraceTime \in Nat /\ Tier \in {1, 2} /\ StrikesPerSide \in 1 .. 3
  /\ Forwards \subseteq Nat \ {0} /\ Extra \subseteq Nat

VARIABLES
  hour,             (* the chain's clock                                    *)
  allowed,          (* MarketConfig.allowed_expiries                        *)
  listed,           (* the live series, each with side, strike and expiry   *)
  forward,          (* price times multiplier                               *)
  lastPass,         (* when the last pass was, -1 before the first          *)
  missed            (* history: some send of a pass was lost                *)

gridVars == <<hour, allowed, listed, forward, lastPass, missed>>

Sides == <<"call", "put">>

GridInit ==
  /\ hour = 0 /\ allowed = {} /\ listed = {}
  /\ forward \in Forwards /\ lastPass = -1 /\ missed = FALSE

-----------------------------------------------------------------------------
\* The n smallest members of a set of numbers.
Soonest(n, S) == {e \in S : Cardinality({f \in S : f < e}) < n}

\* nextExpiries: 16:00 on the next days of the calendar.
NextExpiries(t, n) == Soonest(n, {k * Gap : k \in (t \div Gap + 1) .. (t \div Gap + n)})

\* rollGrid keeps the next four of the calendar's and the extra ones.
Calendar(t) == Soonest(4, {e \in Extra \cup NextExpiries(t, ExpiriesAhead) : e > t})

\* gridStrikes: at the forward, and a fortieth and a twentieth out of the money,
\* a call's strike rounded up and a put's down.
Strike(side, rank) ==
  IF side = "call" THEN -((-(forward * (40 + rank))) \div 40) ELSE (forward * (40 - rank)) \div 40

\* gridPlan: an expiry within the grace is quoted, while its series last, but a
\* series is created for a later one only.
AheadOf(expiries) == {e \in expiries : e > hour}
Creatable(expiries) == {e \in AheadOf(expiries) : e - hour > GraceTime}
Quotable(expiries) ==
  IF Tier = 2
    THEN Soonest(Cardinality(AheadOf(expiries) \ Creatable(expiries)) + 2, AheadOf(expiries))
    ELSE AheadOf(expiries)

Pair(side, rank, expiry) == [side |-> side, rank |-> rank, expiry |-> expiry]
Planned(expiries) ==
  {Pair(Sides[i], rank, e) : i \in 1 .. 2, rank \in 0 .. StrikesPerSide - 1,
                             e \in Creatable(expiries) \cap Quotable(expiries)}

\* Strike rank goes first across the next two expiries, both sides, and then
\* further expiries.
Band(p, expiries) == IF p.expiry \in Soonest(2, Creatable(expiries)) THEN 0 ELSE 1
\* Mutant of PlaceOf: an expiry is filled before the next one is begun.
PlaceOfByExpiry(p, expiries) ==
  <<Band(p, expiries), p.expiry, p.rank, IF p.side = "call" THEN 0 ELSE 1>>
PlaceOf(p, expiries) ==
  <<Band(p, expiries), p.rank, p.expiry, IF p.side = "call" THEN 0 ELSE 1>>

\* Whether the plan puts one pair before another.
Precedes(p, q, expiries) ==
  LET a == PlaceOf(p, expiries)
      b == PlaceOf(q, expiries)
  IN  \E i \in DOMAIN a : a[i] < b[i] /\ \A j \in 1 .. i - 1 : a[j] = b[j]

Term(p) == [side |-> p.side, strike |-> Strike(p.side, p.rank), expiry |-> p.expiry]

-----------------------------------------------------------------------------
\* What closing leaves: a series closes a grace after its expiry.
Unclosed(kept) == {s \in listed : s.expiry + GraceTime > hour} \cup kept

\* Quoter.cycle creates what is missing, in the plan's order, while there is room;
\* a creation that fails takes no place, and the next pair is tried.
Created(expiries, left, lost) ==
  LET missing == {p \in Planned(expiries) : Term(p) \notin left \cup lost}
      before(p) == {Term(q) : q \in {q \in missing : Precedes(q, p, expiries)}}
  IN  {Term(p) : p \in {p \in missing : Cardinality(left \cup before(p)) < MaxLiveSeries}}

\* One pass: rollGrid, Keeper.cycle, Quoter.cycle.  One send at most is lost: the
\* update of the calendar, a closing, or a creation.
PassWith(expiries, kept, lost) ==
  /\ allowed' = expiries
  /\ listed' = Unclosed(kept) \cup Created(expiries, Unclosed(kept), lost)
  /\ lastPass' = hour
  /\ UNCHANGED <<hour, forward>>

WholePass == PassWith(Calendar(hour), {}, {}) /\ UNCHANGED missed

PassWithoutRoll ==
  /\ allowed # Calendar(hour)
  /\ PassWith(allowed, {}, {}) /\ missed' = TRUE

PassWithoutClosing ==
  \E s \in listed \ Unclosed({}) :
    PassWith(Calendar(hour), {s}, {}) /\ missed' = TRUE

PassWithoutCreation ==
  \E s \in Created(Calendar(hour), Unclosed({}), {}) :
    PassWith(Calendar(hour), {}, {s}) /\ missed' = TRUE

GridPass == WholePass \/ PassWithoutRoll \/ PassWithoutClosing \/ PassWithoutCreation

ForwardMoves ==
  /\ forward' \in Forwards \ {forward}
  /\ UNCHANGED <<hour, allowed, listed, lastPass, missed>>

HourPasses ==
  /\ lastPass = hour /\ hour < LastPassTime /\ hour' = hour + 1
  /\ UNCHANGED <<allowed, listed, forward, lastPass, missed>>

GridNext == GridPass \/ ForwardMoves \/ HourPasses

GridSpec == GridInit /\ [][GridNext]_gridVars

-----------------------------------------------------------------------------
(* Properties.                                                             *)

\* There is something to quote on each side.
Lit == \A i \in 1 .. 2 : \E s \in listed : s.side = Sides[i] /\ s.expiry \in Quotable(allowed)

\* "The cap is spread so the book never goes dark at an expiry ... When the nearer
\* expiry passes, the later one already carries both sides" (quoter.ts): wherever
\* the forward has moved since the series were created, an expiry leaves a call
\* and a put to quote, unless a send was lost.
NeverDarkAtExpiry == lastPass >= 0 /\ ~missed => Lit

\* One lost send is made good: the pass after the next expiry's closings has a
\* call and a put to quote again.
LitEveryCycle ==
  lastPass = hour /\ hour % Gap = GraceTime /\ allowed = Calendar(hour) => Lit

\* Both: the grid is spread so that an expiry never darkens a side, and a lost
\* send darkens it for one cycle at most.
GridStaysLit == NeverDarkAtExpiry /\ LitEveryCycle
=============================================================================
