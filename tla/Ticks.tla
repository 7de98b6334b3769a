-------------------------------- MODULE Ticks --------------------------------
(***************************************************************************)
(* The tick of packages/services/src/main.ts: every market read, cranked,  *)
(* quoted and indexed by the workers of one mapLimit, then one pull of the *)
(* events.  Any await of it may throw: nothing in a market's pass catches, *)
(* so the worker is over, the fan-out is rejected and the tick has failed, *)
(* while the fan-out's other workers go on through the markets left.       *)
(***************************************************************************)
EXTENDS Integers, Sequences, FiniteSets

CONSTANTS
  Launch,           (* the launch set, in order: a sequence of markets      *)
  MarketConcurrency,  (* MARKET_CONCURRENCY                                *)
  MaxTicks          (* bound: ticks                                         *)

ASSUME TicksConstants ==
  /\ Len(Launch) \in Nat \ {0} /\ DOMAIN Launch = 1 .. Len(Launch)
  /\ {MarketConcurrency, MaxTicks} \subseteq Nat \ {0}

Ticks == 1 .. MaxTicks
Markets == {Launch[i] : i \in DOMAIN Launch}

\* The awaits of one market's pass that touch something shared, in order: reads
\* and price, the keeper's cranks, the treasury's quotes, the vaults, the index.
Stages == <<"read", "keeper", "quoter", "vaults", "index">>

VARIABLES
  inFlight,         (* the timer's flag                                     *)
  tick,             (* how many ticks have begun                            *)
  nextMarket,       (* tick -> mapLimit's index                             *)
  passes,           (* the markets' passes under way: [tick, market, stage] *)
  finished,         (* tick -> markets whose pass ran to its end            *)
  failed,           (* ticks whose fan-out was rejected                     *)
  pulling,          (* the tick is at its last await, pullEvents            *)
  lastTick          (* what /v1/health reports                              *)

tickVars == <<inFlight, tick, nextMarket, passes, finished, failed, pulling, lastTick>>

TickInit ==
  /\ inFlight = FALSE /\ tick = 0 /\ nextMarket = [t \in Ticks |-> 1] /\ passes = {}
  /\ finished = [t \in Ticks |-> {}] /\ failed = {} /\ pulling = FALSE
  /\ lastTick = 0

\* setInterval: a tick still in flight is left alone.
BeginTick ==
  /\ ~inFlight /\ tick < MaxTicks
  /\ inFlight' = TRUE /\ tick' = tick + 1
  /\ UNCHANGED <<nextMarket, passes, finished, failed, pulling, lastTick>>

Workers(t) == {p \in passes : p.tick = t}

\* A worker takes the next market.  One that threw has not come back, so a
\* failed tick has a worker fewer for each.
Lost(t) == IF t \in failed THEN nextMarket[t] - 1 - Cardinality(finished[t]) - Cardinality(Workers(t)) ELSE 0
TakeMarket(t) ==
  /\ t \in 1 .. tick /\ nextMarket[t] <= Len(Launch)
  /\ Cardinality(Workers(t)) < MarketConcurrency - Lost(t)
  /\ passes' = passes \cup {[tick |-> t, market |-> Launch[nextMarket[t]], stage |-> 1]}
  /\ nextMarket' = [nextMarket EXCEPT ![t] = @ + 1]
  /\ UNCHANGED <<inFlight, tick, finished, failed, pulling, lastTick>>

\* One stage ends.
Advance(p) ==
  /\ p \in passes
  /\ IF p.stage = Len(Stages)
       THEN passes' = passes \ {p} /\ finished' = [finished EXCEPT ![p.tick] = @ \cup {p.market}]
       ELSE passes' = (passes \ {p}) \cup {[p EXCEPT !.stage = @ + 1]} /\ UNCHANGED finished
  /\ UNCHANGED <<inFlight, tick, nextMarket, failed, pulling, lastTick>>

\* Mutant of Reject: the failure of one market is swallowed.
Swallow(p) ==
  /\ p \in passes /\ passes' = passes \ {p}
  /\ finished' = finished /\ failed' = failed /\ inFlight' = inFlight
\* A stage throws.  The first to do so ends the tick, and the flag comes down.
Reject(p) ==
  /\ p \in passes /\ passes' = passes \ {p}
  /\ UNCHANGED finished
  /\ failed' = failed \cup {p.tick}
  /\ inFlight' = IF p.tick = tick /\ p.tick \notin failed THEN FALSE ELSE inFlight

Throw(p) ==
  /\ Reject(p)
  /\ UNCHANGED <<tick, nextMarket, pulling, lastTick>>

\* Every worker has run out of markets, and none threw: the events are pulled.
Resolve ==
  /\ inFlight /\ ~pulling /\ tick \notin failed
  /\ nextMarket[tick] > Len(Launch) /\ Workers(tick) = {}
  /\ pulling' = TRUE
  /\ UNCHANGED <<inFlight, tick, nextMarket, passes, finished, failed, lastTick>>

\* pullEvents never throws: lastTick moves, the cached answers are dropped.
Complete ==
  /\ pulling
  /\ pulling' = FALSE /\ inFlight' = FALSE /\ lastTick' = tick
  /\ UNCHANGED <<tick, nextMarket, passes, finished, failed>>

TickNext ==
  \/ BeginTick \/ Resolve \/ Complete
  \/ \E t \in Ticks : TakeMarket(t)
  \/ \E p \in passes : Advance(p) \/ Throw(p)

TickSpec == TickInit /\ [][TickNext]_tickVars

-----------------------------------------------------------------------------
(* Properties.                                                             *)

TicksTypeOK ==
  /\ inFlight \in BOOLEAN /\ tick \in 0 .. MaxTicks /\ nextMarket \in [Ticks -> 1 .. Len(Launch) + 1]
  /\ passes \subseteq [tick : Ticks, market : Markets, stage : DOMAIN Stages]
  /\ finished \in [Ticks -> SUBSET Markets] /\ failed \subseteq Ticks
  /\ pulling \in BOOLEAN /\ lastTick \in 0 .. MaxTicks

\* What /v1/health reports as the last tick is one in which every market was
\* read, cranked, quoted and indexed.
LastTickWasWhole ==
  lastTick > 0 => finished[lastTick] = Markets

\* "One tick at a time: a slow tick (many sends) must not overlap the next, or
\* the keeper and quoter race themselves" (main.ts:577).
OneTickAtATime == \A p, q \in passes : p.tick = q.tick
=============================================================================
