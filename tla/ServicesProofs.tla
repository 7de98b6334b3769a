--------------------------- MODULE ServicesProofs ---------------------------
(***************************************************************************)
(* The off-chain services and what the web application shows of them: the  *)
(* gate over the RPC, the market ticks, the indexer, the memo of a read,   *)
(* the verdicts on a transaction, the failover of RPC calls, the prices an *)
(* ask may stand on, the ticket of a purchase and the grid of a market.    *)
(* For any number of workers, markets, endpoints, pages, presses, blocks,  *)
(* asks, series and failures.                                              *)
(***************************************************************************)
EXTENDS Concurrency, Ticks, Indexer, Memo, TxFlow, RpcFailover, Quoting, Marks, Ticket,
        Grid, NumberTheorems, FiniteSetTheorems, TLAPS

-----------------------------------------------------------------------------
(* The gate lets in exactly as many jobs as it should: GateIsExact of      *)
(* Concurrency.                                                            *)

\* The workers of a queue, each in one place of it.
In(q) == {q[i] : i \in DOMAIN q}
Distinct(q) == \A i, j \in DOMAIN q : q[i] = q[j] => i = j
Queues ==
  /\ ready \in Seq(FanWorkers) /\ waiting \in Seq(FanWorkers)
  /\ Distinct(ready) /\ Distinct(waiting)

\* A worker is in one place at a time, and one of a fan-out not started in none.
Apart ==
  /\ In(ready) \cap In(waiting) = {} /\ In(ready) \cap inside = {} /\ In(waiting) \cap inside = {}
  /\ woken \notin In(ready) \cup In(waiting) \cup inside
  /\ \A f \in Fans : outcome[f] = "unborn" =>
       \A k \in 1 .. Width : <<f, k>> \notin In(ready) \cup In(waiting) \cup inside \cup {woken}

\* The count is of the jobs inside.
Counted ==
  /\ inside \subseteq FanWorkers /\ IsFiniteSet(inside) /\ active = Cardinality(inside)
  /\ woken \in FanWorkers \cup {Nobody} /\ DOMAIN outcome = Fans /\ DOMAIN nextItem = Fans

GateInv == Queues /\ Apart /\ Counted /\ Taken <= Gate /\ NobodyForgotten

\* The head of a queue leaves it: what is left is distinct and without it.
LEMMA HeadLeaves ==
  ASSUME NEW q \in Seq(FanWorkers), q # <<>>, Distinct(q)
  PROVE  /\ Head(q) \in FanWorkers /\ Tail(q) \in Seq(FanWorkers) /\ Distinct(Tail(q))
         /\ In(q) = In(Tail(q)) \cup {Head(q)} /\ Head(q) \notin In(Tail(q))
<1>1. Len(q) \in Nat \ {0} /\ DOMAIN q = 1 .. Len(q) /\ Head(q) = q[1] /\ q[1] \in FanWorkers
  OBVIOUS
<1>2. /\ Tail(q) \in Seq(FanWorkers) /\ Len(Tail(q)) = Len(q) - 1
      /\ \A i \in 1 .. Len(q) - 1 : Tail(q)[i] = q[i + 1]
  BY <1>1
<1>3. DOMAIN Tail(q) = 1 .. Len(q) - 1
  BY <1>2
<1>4. Distinct(Tail(q))
  BY <1>1, <1>2, <1>3 DEF Distinct
<1>5. In(q) \subseteq In(Tail(q)) \cup {Head(q)}
  <2> SUFFICES ASSUME NEW i \in 1 .. Len(q) PROVE q[i] \in In(Tail(q)) \cup {Head(q)}
    BY <1>1 DEF In
  <2>1. CASE i = 1
    BY <2>1, <1>1
  <2>2. CASE i # 1
    <3>1. i - 1 \in 1 .. Len(q) - 1 /\ q[i] = Tail(q)[i - 1]
      BY <1>1, <1>2, <2>2
    <3>2. QED
      BY <1>3, <3>1 DEF In
  <2>3. QED
    BY <2>1, <2>2
<1>6. In(Tail(q)) \cup {Head(q)} \subseteq In(q)
  <2>1. ASSUME NEW i \in 1 .. Len(q) - 1 PROVE i + 1 \in 1 .. Len(q) /\ Tail(q)[i] = q[i + 1]
    BY <1>1, <1>2
  <2>2. QED
    BY <1>1, <1>3, <2>1 DEF In
<1>7. Head(q) \notin In(Tail(q))
  BY <1>1, <1>2, <1>3 DEF In, Distinct
<1>8. QED
  BY <1>1, <1>2, <1>4, <1>5, <1>6, <1>7

\* One joins at the end of a queue it is not in.
LEMMA TailJoins ==
  ASSUME NEW q \in Seq(FanWorkers), NEW w \in FanWorkers, Distinct(q), w \notin In(q)
  PROVE  /\ Append(q, w) \in Seq(FanWorkers) /\ Append(q, w) # <<>>
         /\ Distinct(Append(q, w)) /\ In(Append(q, w)) = In(q) \cup {w}
<1>1. Len(q) \in Nat /\ DOMAIN q = 1 .. Len(q)
  OBVIOUS
<1>2. /\ Append(q, w) \in Seq(FanWorkers) /\ Len(Append(q, w)) = Len(q) + 1
      /\ Append(q, w)[Len(q) + 1] = w /\ \A i \in 1 .. Len(q) : Append(q, w)[i] = q[i]
  BY <1>1
<1>3. DOMAIN Append(q, w) = 1 .. Len(q) + 1
  BY <1>2
<1>4. Distinct(Append(q, w))
  BY <1>1, <1>2, <1>3 DEF Distinct, In
<1>5. In(Append(q, w)) = In(q) \cup {w}
  BY <1>1, <1>2, <1>3 DEF In
<1>6. QED
  BY <1>2, <1>3, <1>4, <1>5

\* The constants as numbers.
LEMMA ConstantsOfTheGate ==
  /\ Width \in Nat \ {0} /\ Gate \in Nat \ {0} /\ Nobody \notin FanWorkers
  /\ FanWorkers = Fans \X (1 .. Width)
  BY ConcurrencyConstants DEF FanWorkers

\* Nobody is anywhere at first.
LEMMA InitGate == GateInit => GateInv
<1> SUFFICES ASSUME GateInit PROVE GateInv
  OBVIOUS
<1>1. In(<<>>) = {} /\ Distinct(<<>>) /\ <<>> \in Seq(FanWorkers)
  BY DEF In, Distinct
<1>2. Queues
  BY <1>1 DEF GateInit, Queues
<1>3. Apart
  BY <1>1, ConstantsOfTheGate DEF GateInit, Apart
<1>4. Counted
  BY FS_EmptySet DEF GateInit, Counted
<1>5. Taken <= Gate /\ NobodyForgotten
  BY ConstantsOfTheGate DEF GateInit, Taken, NobodyForgotten
<1>6. QED
  BY <1>2, <1>3, <1>4, <1>5 DEF GateInv

\* A new fan-out's workers are in no place yet.
LEMMA StartKeeps == ASSUME NEW f \in Fans, GateInv, StartFan(f) PROVE GateInv'
<1> DEFINE born == [k \in 1 .. Width |-> <<f, k>>]
<1>1. born \in Seq(FanWorkers) /\ DOMAIN born = 1 .. Width
  BY ConstantsOfTheGate
<1>2. Distinct(born) /\ In(born) = {<<f, k>> : k \in 1 .. Width}
  BY <1>1 DEF Distinct, In
<1>3. /\ ready' = born /\ UNCHANGED <<nextItem, inside, woken, waiting, active>>
      /\ outcome[f] = "unborn" /\ outcome' = [outcome EXCEPT ![f] = "pending"]
  BY DEF StartFan
<1>4. Queues'
  BY <1>1, <1>2, <1>3 DEF GateInv, Queues
<1>5. Apart'
  BY <1>2, <1>3 DEF GateInv, Apart, Counted
<1>6. Counted' /\ (Taken <= Gate)' /\ NobodyForgotten'
  BY <1>3 DEF GateInv, Counted, Taken, NobodyForgotten
<1>7. QED
  BY <1>4, <1>5, <1>6 DEF GateInv

\* A worker takes a place if there is one, and queues otherwise.
LEMMA TakeItemKeeps == GateInv /\ TakeItem => GateInv'
<1> SUFFICES ASSUME GateInv, TakeItem PROVE GateInv'
  OBVIOUS
<1> DEFINE w == Head(ready)
<1>0. ready \in Seq(FanWorkers) /\ waiting \in Seq(FanWorkers) /\ Distinct(ready) /\ Distinct(waiting)
  BY DEF GateInv, Queues
<1>1. /\ ready # <<>> /\ ready' = Tail(ready) /\ woken = Nobody /\ UNCHANGED <<woken, outcome>>
  BY DEF TakeItem, WokenFirst
<1>2. /\ w \in FanWorkers /\ Tail(ready) \in Seq(FanWorkers) /\ Distinct(Tail(ready))
      /\ In(ready) = In(Tail(ready)) \cup {w} /\ w \notin In(Tail(ready))
  BY <1>0, <1>1, HeadLeaves
<1>3. w \notin In(waiting) /\ w \notin inside /\ active \in Nat /\ Taken = active
  BY <1>1, <1>2, FS_CardinalityType DEF GateInv, Apart, Counted, Taken
<1>4. w[1] \in Fans /\ w = <<w[1], w[2]>>
  BY <1>2 DEF FanWorkers
<1> HIDE DEF w
<1>5. DOMAIN nextItem' = Fans
  BY DEF TakeItem, GateInv, Counted
<1>6. CASE UNCHANGED <<inside, waiting, active>>
  <2>1. Queues'
    BY <1>0, <1>1, <1>2, <1>6 DEF Queues
  <2>2. Apart'
    BY <1>1, <1>2, <1>6 DEF GateInv, Apart
  <2>3. Counted' /\ (Taken <= Gate)' /\ NobodyForgotten'
    BY <1>1, <1>5, <1>6 DEF GateInv, Counted, Taken, NobodyForgotten
  <2>4. QED
    BY <2>1, <2>2, <2>3 DEF GateInv
<1>7. ASSUME active >= Gate, waiting' = Append(waiting, w), UNCHANGED <<inside, active>>
      PROVE  GateInv'
  <2>1. /\ waiting' \in Seq(FanWorkers) /\ waiting' # <<>> /\ Distinct(waiting')
        /\ In(waiting') = In(waiting) \cup {w}
    BY <1>0, <1>2, <1>3, <1>7, TailJoins
  <2>2. Queues'
    BY <1>1, <1>2, <2>1 DEF Queues
  <2>3. Apart'
    BY <1>1, <1>2, <1>3, <1>7, <2>1 DEF GateInv, Apart
  <2>4. Counted' /\ (Taken <= Gate)' /\ NobodyForgotten'
    BY <1>1, <1>3, <1>5, <1>7, ConstantsOfTheGate DEF GateInv, Counted, Taken, NobodyForgotten
  <2>5. QED
    BY <2>2, <2>3, <2>4 DEF GateInv
<1>8. ASSUME ~(active >= Gate), active' = active + 1, inside' = inside \cup {w}, UNCHANGED waiting
      PROVE  GateInv'
  <2>1. Queues'
    BY <1>0, <1>1, <1>2, <1>8 DEF Queues
  <2>2. Apart'
    BY <1>1, <1>2, <1>3, <1>8 DEF GateInv, Apart
  <2>3. IsFiniteSet(inside') /\ Cardinality(inside') = Cardinality(inside) + 1
    BY <1>3, <1>8, FS_AddElement DEF GateInv, Counted
  <2>4. Counted'
    BY <1>1, <1>2, <1>5, <1>8, <2>3 DEF GateInv, Counted
  <2>5. (Taken <= Gate)' /\ NobodyForgotten'
    BY <1>1, <1>3, <1>8, ConstantsOfTheGate DEF GateInv, Taken, NobodyForgotten
  <2>6. QED
    BY <2>1, <2>2, <2>4, <2>5 DEF GateInv
<1>9. QED
  BY <1>6, <1>7, <1>8 DEF TakeItem, w

\* The woken job's place was counted already.
LEMMA GoOnKeeps == GateInv /\ GoOn => GateInv'
<1> SUFFICES ASSUME GateInv, GoOn PROVE GateInv'
  OBVIOUS
<1>1. /\ woken \in FanWorkers /\ woken \notin inside /\ woken' = Nobody /\ active' = active + 1
      /\ inside' = inside \cup {woken} /\ UNCHANGED <<nextItem, ready, waiting, outcome>>
  BY DEF GoOn, GateInv, Counted, Apart
<1>2. active \in Nat /\ Taken = active + 1 /\ Taken' = active + 1
  BY <1>1, ConstantsOfTheGate, FS_CardinalityType DEF GateInv, Counted, Taken
<1>3. Queues'
  BY <1>1 DEF GateInv, Queues
<1>4. In(ready) \subseteq FanWorkers /\ In(waiting) \subseteq FanWorkers
  BY DEF GateInv, Queues, In
<1>5. Apart'
  BY <1>1, <1>4, ConstantsOfTheGate DEF GateInv, Apart, Counted
<1>6. Counted'
  BY <1>1, FS_AddElement DEF GateInv, Counted
<1>7. (Taken <= Gate)' /\ NobodyForgotten'
  BY <1>1, <1>2 DEF GateInv, NobodyForgotten
<1>8. QED
  BY <1>3, <1>5, <1>6, <1>7 DEF GateInv

\* A place given back goes to the head of the queue, if anybody waits.
LEMMA LeaveKeeps ==
  ASSUME GateInv, NEW w \in FanWorkers, Leave(w), UNCHANGED nextItem,
         \/ ready' = <<w>> /\ UNCHANGED outcome
         \/ UNCHANGED ready /\ outcome' = [outcome EXCEPT ![w[1]] = "rejected"]
  PROVE  GateInv'
<1>1. /\ woken = Nobody /\ ready = <<>> /\ w \in inside /\ active' = active - 1 /\ inside' = inside \ {w}
  BY DEF Leave, Drained
<1>2. In(<<>>) = {} /\ In(<<w>>) = {w} /\ Distinct(<<>>) /\ Distinct(<<w>>)
      /\ <<>> \in Seq(FanWorkers) /\ <<w>> \in Seq(FanWorkers)
  BY DEF In, Distinct
<1>3. /\ ready' \in Seq(FanWorkers) /\ Distinct(ready') /\ In(ready') \subseteq {w}
  BY <1>1, <1>2
<1>4. /\ active \in Nat /\ active > 0 /\ Taken = active
      /\ IsFiniteSet(inside') /\ Cardinality(inside') = active - 1
  BY <1>1, FS_RemoveElement, FS_CardinalityType, FS_EmptySet DEF GateInv, Counted, Taken
<1>5. /\ DOMAIN outcome' = Fans /\ DOMAIN nextItem' = Fans
      /\ \A f \in Fans : outcome'[f] = "unborn" => outcome[f] = "unborn" /\ (ready' = ready \/ f # w[1])
  <2>1. w[1] \in Fans /\ w = <<w[1], w[2]>> /\ w[2] \in 1 .. Width
    BY DEF FanWorkers
  <2>2. outcome[w[1]] # "unborn"
    BY <1>1, <2>1 DEF GateInv, Apart
  <2>3. QED
    BY <2>1, <2>2 DEF GateInv, Counted
<1>6. /\ waiting \in Seq(FanWorkers) /\ Distinct(waiting) /\ w \notin In(waiting)
      /\ In(waiting) \cap inside = {} /\ In(waiting) \subseteq FanWorkers
  BY <1>1 DEF GateInv, Queues, Apart, In
<1>7. CASE waiting = <<>>
  <2>1. UNCHANGED <<woken, waiting>>
    BY <1>7 DEF Leave
  <2>2. Queues'
    BY <1>3, <1>6, <2>1 DEF Queues
  <2>3. Apart'
    <3>1. /\ Nobody \notin FanWorkers /\ woken' = Nobody /\ In(waiting)' = In(waiting)
          /\ inside' \subseteq inside /\ w \notin inside' /\ inside \subseteq FanWorkers
          /\ In(ready) = {}
      BY <1>1, <1>2, <2>1, ConstantsOfTheGate DEF GateInv, Counted, In
    <3>2. /\ In(ready') \cap In(waiting) = {} /\ In(ready') \cap inside' = {}
          /\ In(waiting) \cap inside' = {}
          /\ Nobody \notin In(ready') \cup In(waiting) \cup inside'
      BY <1>3, <1>6, <3>1
    <3>3. ASSUME NEW f \in Fans, outcome'[f] = "unborn", NEW k \in 1 .. Width
          PROVE  <<f, k>> \notin In(ready') \cup In(waiting) \cup inside' \cup {woken'}
      <4>1. /\ <<f, k>> \notin In(ready) \cup In(waiting) \cup inside \cup {woken}
            /\ ready' = ready \/ f # w[1]
        BY <1>5, <3>3 DEF GateInv, Apart
      <4>2. <<f, k>> # w \/ ready' = ready
        BY <4>1
      <4>3. <<f, k>> \notin In(ready')
        BY <1>3, <4>1, <4>2
      <4> QED
        BY <1>1, <3>1, <4>1, <4>3
    <3> QED
      BY <3>1, <3>2, <3>3 DEF Apart, In
  <2>4. Counted' /\ (Taken <= Gate)' /\ NobodyForgotten'
    BY <1>1, <1>4, <1>5, <1>7, <2>1, ConstantsOfTheGate DEF GateInv, Counted, Taken, NobodyForgotten
  <2>5. QED
    BY <2>2, <2>3, <2>4 DEF GateInv
<1>8. CASE waiting # <<>>
  <2>1. woken' = Head(waiting) /\ waiting' = Tail(waiting)
    BY <1>8 DEF Leave
  <2>2. /\ woken' \in FanWorkers /\ waiting' \in Seq(FanWorkers) /\ Distinct(waiting')
        /\ In(waiting) = In(waiting') \cup {woken'} /\ woken' \notin In(waiting')
    BY <1>6, <1>8, <2>1, HeadLeaves
  <2>3. Queues'
    BY <1>3, <2>2 DEF Queues
  <2>4. Apart'
    BY <1>1, <1>3, <1>5, <1>6, <2>2 DEF GateInv, Apart
  <2>5. Taken' = active /\ Taken = Gate
    BY <1>1, <1>4, <1>8, <2>2, ConstantsOfTheGate DEF GateInv, Taken, NobodyForgotten
  <2>6. Counted' /\ (Taken <= Gate)' /\ NobodyForgotten'
    BY <1>1, <1>4, <1>5, <2>2, <2>5, ConstantsOfTheGate DEF GateInv, Counted, NobodyForgotten
  <2>7. QED
    BY <2>3, <2>4, <2>6 DEF GateInv
<1>9. QED
  BY <1>7, <1>8

\* For any fan-outs, widths and places, in every order in which jobs end and
\* throw: never too many inside, and nobody waits while there is a place.
THEOREM GateStaysExact == GateSpec => []GateIsExact
<1>1. GateInv /\ [GateNext]_gateVars => GateInv'
  <2> SUFFICES ASSUME GateInv, [GateNext]_gateVars PROVE GateInv'
    OBVIOUS
  <2>1. ASSUME NEW w \in FanWorkers, Answered(w) \/ Thrown(w) PROVE GateInv'
    BY <2>1, LeaveKeeps DEF Answered, Thrown
  <2>2. CASE UNCHANGED gateVars
    BY <2>2 DEF gateVars, GateInv, Queues, Apart, Counted, Taken, NobodyForgotten
  <2>3. QED
    BY <2>1, <2>2, StartKeeps, TakeItemKeeps, GoOnKeeps DEF GateNext
<1>2. GateInv => GateIsExact
  <2> SUFFICES ASSUME GateInv PROVE GateIsExact
    OBVIOUS
  <2>1. active \in Nat /\ Gate \in Nat /\ active = Cardinality(inside)
    BY ConstantsOfTheGate, FS_CardinalityType DEF GateInv, Counted
  <2>2. active <= Gate
    BY <2>1 DEF GateInv, Taken
  <2>3. QED
    BY <2>1, <2>2 DEF GateInv, GateIsExact, AtMostLimit
<1>3. QED
  BY InitGate, <1>1, <1>2, PTL DEF GateSpec

-----------------------------------------------------------------------------
(* The last tick reported went through every market, whatever throws:      *)
(* LastTickWasWhole of Ticks.                                              *)

\* A market of a tick that has not failed is done or under way once it is taken.
Accounted(t) ==
  \A i \in 1 .. nextMarket[t] - 1 :
    Launch[i] \in finished[t] \/ \E p \in passes : p.tick = t /\ p.market = Launch[i]

TicksInv ==
  /\ tick \in Nat /\ lastTick \in 0 .. MaxTicks /\ tick <= MaxTicks
  /\ inFlight => tick \in Ticks
  /\ nextMarket \in [Ticks -> Nat \ {0}]
  /\ DOMAIN finished = Ticks /\ \A t \in Ticks : finished[t] \subseteq Markets
  /\ \A p \in passes : /\ {"tick", "market", "stage"} \subseteq DOMAIN p
                       /\ p.tick \in Ticks /\ p.market \in Markets
  /\ \A t \in Ticks \ failed : Accounted(t)

\* The tick under way at its last await has read everything, and nothing of it
\* can throw any more.
PullingInv ==
  pulling => /\ inFlight /\ tick \in Ticks /\ finished[tick] = Markets
             /\ nextMarket[tick] > Len(Launch) /\ \A p \in passes : p.tick # tick

WholeInv == TicksInv /\ PullingInv /\ LastTickWasWhole

\* The bounds as numbers.
LEMMA BoundsOfTicks ==
  /\ MaxTicks \in Nat \ {0} /\ Len(Launch) \in Nat \ {0} /\ DOMAIN Launch = 1 .. Len(Launch)
  BY TicksConstants

\* No market has been taken at first.
LEMMA InitTicks == TickInit => WholeInv
  BY BoundsOfTicks DEF TickInit, WholeInv, TicksInv, PullingInv, LastTickWasWhole, Accounted, Ticks

\* The timer starts a tick only when none is under way.
LEMMA BeginKeeps == WholeInv /\ BeginTick => WholeInv'
  BY BoundsOfTicks DEF BeginTick, WholeInv, TicksInv, PullingInv, LastTickWasWhole, Accounted, Ticks

\* A market taken is under way.
LEMMA TakeMarketKeeps == ASSUME NEW t \in Ticks, WholeInv, TakeMarket(t) PROVE WholeInv'
<1> DEFINE m == Launch[nextMarket[t]]
           new == [tick |-> t, market |-> m, stage |-> 1]
<1>1. nextMarket[t] \in Nat \ {0} /\ nextMarket[t] <= Len(Launch) /\ m \in Markets
  <2>1. nextMarket[t] \in 1 .. Len(Launch)
    BY BoundsOfTicks DEF TakeMarket, WholeInv, TicksInv
  <2>2. DOMAIN Launch = 1 .. Len(Launch)
    BY BoundsOfTicks
  <2>3. QED
    BY <2>1, <2>2 DEF Markets
<1>2. /\ passes' = passes \cup {new} /\ nextMarket' = [nextMarket EXCEPT ![t] = @ + 1]
      /\ UNCHANGED <<inFlight, tick, finished, failed, pulling, lastTick>>
  BY DEF TakeMarket
<1>3. new.tick = t /\ new.market = m /\ DOMAIN new = {"tick", "market", "stage"}
  OBVIOUS
<1> HIDE DEF new
<1>4. \A x \in Ticks \ failed' : Accounted(x)'
  <2> SUFFICES ASSUME NEW x \in Ticks \ failed', NEW i \in 1 .. nextMarket'[x] - 1
               PROVE  Launch[i] \in finished'[x]
                        \/ \E p \in passes' : p.tick = x /\ p.market = Launch[i]
    BY DEF Accounted
  <2>1. Accounted(x) /\ nextMarket[x] \in Nat
    BY <1>2 DEF WholeInv, TicksInv
  <2>2. CASE i \in 1 .. nextMarket[x] - 1
    BY <1>2, <2>1, <2>2 DEF Accounted
  <2>3. CASE i \notin 1 .. nextMarket[x] - 1
    <3>1. x = t /\ i = nextMarket[t]
      BY <1>1, <1>2, <2>1, <2>3 DEF WholeInv, TicksInv
    <3>2. QED
      BY <1>2, <1>3, <3>1
  <2>4. QED
    BY <2>2, <2>3
<1>5. TicksInv'
  BY <1>1, <1>2, <1>3, <1>4 DEF WholeInv, TicksInv
<1>6. PullingInv' /\ LastTickWasWhole'
  BY <1>1, <1>2, <1>3 DEF WholeInv, TicksInv, PullingInv, LastTickWasWhole
<1>7. QED
  BY <1>5, <1>6 DEF WholeInv

\* A market whose pass moves on is under way still, or done.
LEMMA AdvanceKeeps == ASSUME NEW p \in passes, WholeInv, Advance(p) PROVE WholeInv'
<1>1. /\ p.tick \in Ticks /\ p.market \in Markets /\ {"tick", "market", "stage"} \subseteq DOMAIN p
      /\ UNCHANGED <<inFlight, tick, nextMarket, failed, pulling, lastTick>>
  BY DEF Advance, WholeInv, TicksInv
<1>2. CASE p.stage = Len(Stages)
  <2>1. passes' = passes \ {p} /\ finished' = [finished EXCEPT ![p.tick] = @ \cup {p.market}]
    BY <1>2 DEF Advance
  <2>2. \A x \in Ticks \ failed' : Accounted(x)'
    BY <1>1, <2>1 DEF WholeInv, TicksInv, Accounted
  <2>3. TicksInv'
    BY <1>1, <2>1, <2>2 DEF WholeInv, TicksInv
  <2>4. PullingInv' /\ LastTickWasWhole'
    BY <1>1, <2>1, BoundsOfTicks DEF WholeInv, TicksInv, PullingInv, LastTickWasWhole, Ticks
  <2>5. QED
    BY <2>3, <2>4 DEF WholeInv
<1>3. CASE p.stage # Len(Stages)
  <2> DEFINE next == [p EXCEPT !.stage = @ + 1]
  <2>1. passes' = (passes \ {p}) \cup {next} /\ finished' = finished
    BY <1>3 DEF Advance
  <2>2. next.tick = p.tick /\ next.market = p.market /\ DOMAIN next = DOMAIN p
    BY <1>1
  <2> HIDE DEF next
  <2>3. \A x \in Ticks \ failed' : Accounted(x)'
    BY <1>1, <2>1, <2>2 DEF WholeInv, TicksInv, Accounted
  <2>4. TicksInv'
    BY <1>1, <2>1, <2>2, <2>3 DEF WholeInv, TicksInv
  <2>5. PullingInv' /\ LastTickWasWhole'
    BY <1>1, <2>1, <2>2 DEF WholeInv, TicksInv, PullingInv, LastTickWasWhole
  <2>6. QED
    BY <2>4, <2>5 DEF WholeInv
<1>4. QED
  BY <1>2, <1>3

\* A pass that throws takes its tick out of what is promised.
LEMMA ThrowKeeps == ASSUME NEW p \in passes, WholeInv, Throw(p) PROVE WholeInv'
<1>1. /\ passes' = passes \ {p} /\ failed' = failed \cup {p.tick}
      /\ UNCHANGED <<tick, nextMarket, finished, pulling, lastTick>>
      /\ p.tick # tick => inFlight' = inFlight
  BY DEF Throw, Reject
<1>2. \A x \in Ticks \ failed' : Accounted(x)'
  BY <1>1 DEF WholeInv, TicksInv, Accounted
<1>3. TicksInv'
  BY <1>1, <1>2 DEF WholeInv, TicksInv
<1>4. PullingInv' /\ LastTickWasWhole'
  BY <1>1 DEF WholeInv, PullingInv, LastTickWasWhole
<1>5. QED
  BY <1>3, <1>4 DEF WholeInv

\* When no market is left and none is under way, all are done.
LEMMA ResolveKeeps == WholeInv /\ Resolve => WholeInv'
<1> SUFFICES ASSUME WholeInv, Resolve PROVE WholeInv'
  OBVIOUS
<1>1. /\ inFlight /\ tick \notin failed /\ nextMarket[tick] > Len(Launch) /\ Workers(tick) = {}
      /\ UNCHANGED <<inFlight, tick, nextMarket, passes, finished, failed, lastTick>>
  BY DEF Resolve
<1>2. tick \in Ticks
  BY <1>1 DEF WholeInv, TicksInv
<1>3. \A p \in passes : p.tick # tick
  BY <1>1 DEF Workers
<1>4. finished[tick] = Markets
  <2>1. nextMarket[tick] \in Nat /\ Len(Launch) \in Nat /\ finished[tick] \subseteq Markets /\ Accounted(tick)
    BY <1>1, <1>2, BoundsOfTicks DEF WholeInv, TicksInv
  <2>2. ASSUME NEW i \in 1 .. Len(Launch) PROVE Launch[i] \in finished[tick]
    BY <1>1, <1>3, <2>1 DEF Accounted
  <2>3. QED
    BY <2>1, <2>2, BoundsOfTicks DEF Markets
<1>5. TicksInv'
  BY <1>1 DEF WholeInv, TicksInv, Accounted
<1>6. QED
  BY <1>1, <1>2, <1>3, <1>4, <1>5 DEF WholeInv, PullingInv, LastTickWasWhole

\* The tick reported is the one that has just been pulled for.
LEMMA CompleteKeeps == WholeInv /\ Complete => WholeInv'
<1> SUFFICES ASSUME WholeInv, Complete PROVE WholeInv'
  OBVIOUS
<1>1. /\ pulling /\ pulling' = FALSE /\ lastTick' = tick
      /\ UNCHANGED <<tick, nextMarket, passes, finished, failed>>
  BY DEF Complete
<1>2. tick \in Ticks /\ finished[tick] = Markets
  BY <1>1 DEF WholeInv, PullingInv
<1>3. TicksInv'
  BY <1>1, <1>2, BoundsOfTicks DEF WholeInv, TicksInv, Accounted, Ticks
<1>4. QED
  BY <1>1, <1>2, <1>3 DEF WholeInv, PullingInv, LastTickWasWhole

\* For any launch set, workers and ticks, whatever throws and whenever: the last
\* tick reported is one in which every market's pass ran to its end.
THEOREM ReportedTicksAreWhole == TickSpec => []LastTickWasWhole
<1>1. WholeInv /\ [TickNext]_tickVars => WholeInv'
  <2> SUFFICES ASSUME WholeInv, [TickNext]_tickVars PROVE WholeInv'
    OBVIOUS
  <2>1. CASE UNCHANGED tickVars
    BY <2>1 DEF tickVars, WholeInv, TicksInv, PullingInv, LastTickWasWhole, Accounted
  <2>2. QED
    BY <2>1, BeginKeeps, TakeMarketKeeps, AdvanceKeeps, ThrowKeeps, ResolveKeeps, CompleteKeeps
    DEF TickNext
<1>2. WholeInv => LastTickWasWhole
  BY DEF WholeInv
<1>3. QED
  BY InitTicks, <1>1, <1>2, PTL DEF TickSpec

-----------------------------------------------------------------------------
(* What the pulls leave behind has been read: NothingIsLost of Indexer.    *)

\* A page is the newest `limit` signatures up to some one.
Page(top, limit) == {s \in 1 .. top : s > top - limit}

\* The pull under way: its page, and that what is being marked is in the store.
PullInv ==
  /\ {"at", "limit", "before", "pages", "page", "fresh", "left", "writing"} \subseteq DOMAIN pull
  /\ pull.limit \in Nat /\ pull.before \in Nat
  /\ pull.at # "idle" => pull.limit > 0
  /\ pull.writing # 0 => pull.writing \in stored
  /\ pull.at = "ingest head" => \E top \in Nat : pull.page = Page(top, pull.limit)
  /\ pull.at = "ingest backfill" =>
       /\ cursor # 0 /\ pull.page = Page(cursor - 1, pull.limit)
       /\ pull.page \subseteq pull.fresh \cup marked

StoreInv ==
  /\ newest \in Nat /\ cursor \in Nat /\ firstCursor \in Nat
  /\ MarkedAreStored /\ NothingPassedUnread

ReadInv == PullInv /\ StoreInv

\* The constants as numbers.
LEMMA PagesAreNumbers ==
  /\ FullPage \in Nat \ {0} /\ BackfillPage \in Nat \ {0} /\ MaxSignatures \in Nat
  BY IndexerConstants

\* A page has an oldest signature, and everything from there up to its top.
LEMMA OldestOfPage ==
  ASSUME NEW top \in Nat, NEW limit \in Nat, Page(top, limit) # {}
  PROVE  /\ Min(Page(top, limit)) \in 1 .. top
         /\ \A s \in Min(Page(top, limit)) .. top : s \in Page(top, limit)
<1> DEFINE P == Page(top, limit)
           low == IF top - limit >= 1 THEN top - limit + 1 ELSE 1
<1>1. low \in P /\ \A s \in P : low <= s
  BY DEF Page
<1>2. Min(P) \in P /\ \A s \in P : Min(P) <= s
  BY <1>1 DEF Min
<1>3. QED
  BY <1>2 DEF Page

\* A page as long as its limit is not empty.
LEMMA FullPageIsThere ==
  ASSUME ReadInv, pull.at # "idle", FullyListed PROVE pull.page # {}
<1>1. pull.limit \in Nat /\ pull.limit > 0
  BY DEF ReadInv, PullInv
<1>2. Cardinality(pull.page) = pull.limit /\ Cardinality({}) = 0
  BY FS_EmptySet DEF FullyListed
<1>3. QED
  BY <1>1, <1>2

\* Nothing is listed or read at first.
LEMMA InitIndexed == IndexInit => ReadInv
  BY PagesAreNumbers DEF IndexInit, Idle, ReadInv, PullInv, StoreInv, MarkedAreStored, NothingPassedUnread

\* Nothing is asked of a pull that is not under way.
LEMMA IdlePull == pull' = Idle => PullInv'
  BY DEF PullInv, Idle

\* A pull that is over, or has not begun, promises nothing.
LEMMA IdleKeeps ==
  ASSUME ReadInv, pull' = Idle, UNCHANGED <<newest, stored, marked, cursor, firstCursor>>
  PROVE  ReadInv'
  BY DEF ReadInv, PullInv, StoreInv, Idle, MarkedAreStored, NothingPassedUnread

\* The top of a page is a number.
LEMMA TopIsNumber ==
  ASSUME NEW n \in Nat, NEW before \in Nat PROVE (IF before = 0 THEN n ELSE before - 1) \in Nat
  OBVIOUS

\* A listing above or below is a page; the backfill's starts under the cursor.
LEMMA ListingKeeps == ReadInv /\ (ListHead \/ ListBackfill) => ReadInv'
<1> SUFFICES ASSUME ReadInv, ListHead \/ ListBackfill PROVE ReadInv'
  OBVIOUS
<1> USE DEF ReadInv, PullInv, StoreInv, MarkedAreStored, NothingPassedUnread
<1>1. CASE ListHead
  <2>1. PICK top \in Nat : Listed(pull.before, pull.limit) = Page(top, pull.limit)
    <3>1. Listed(pull.before, pull.limit) = Page(IF pull.before = 0 THEN newest ELSE pull.before - 1, pull.limit)
      BY DEF Listed, Page
    <3>2. (IF pull.before = 0 THEN newest ELSE pull.before - 1) \in Nat
      <4>1. newest \in Nat /\ pull.before \in Nat
        OBVIOUS
      <4>2. QED
        BY <4>1, TopIsNumber
    <3>3. QED
      BY <3>1, <3>2
  <2>2. QED
    BY <1>1, <2>1 DEF ListHead, List, store
<1>2. CASE ListBackfill
  <2>1. cursor # 0 /\ Listed(cursor, pull.limit) = Page(cursor - 1, pull.limit)
    BY <1>2 DEF ListBackfill, Listed, Page
  <2>2. QED
    BY <1>2, <2>1 DEF ListBackfill, List, store
<1>3. QED
  BY <1>1, <1>2

\* A signature's events are stored before its mark.
LEMMA IngestKeeps == ReadInv /\ (StoreEvents \/ MarkSignature \/ SkipUnserved) => ReadInv'
<1> SUFFICES ASSUME ReadInv, StoreEvents \/ MarkSignature \/ SkipUnserved PROVE ReadInv'
  OBVIOUS
<1> USE DEF ReadInv, PullInv, StoreInv, MarkedAreStored, NothingPassedUnread
<1>1. CASE StoreEvents
  BY <1>1 DEF StoreEvents
<1>2. CASE MarkSignature
  BY <1>2 DEF MarkSignature
<1>3. CASE SkipUnserved
  BY <1>3 DEF SkipUnserved, store
<1>4. QED
  BY <1>1, <1>2, <1>3

\* The head pass sets the cursor once, where nothing is passed yet.
LEMMA HeadDoneKeeps == ReadInv /\ HeadPageDone => ReadInv'
<1> SUFFICES ASSUME ReadInv, HeadPageDone PROVE ReadInv'
  OBVIOUS
<1>1. CASE ~FullyListed
  BY <1>1, IdleKeeps DEF HeadPageDone
<1>2. CASE FullyListed
  <2>1. pull.at = "ingest head" /\ pull.page # {}
    BY <1>2, FullPageIsThere DEF HeadPageDone
  <2>2. PICK top \in Nat : pull.page = Page(top, pull.limit)
    BY <2>1 DEF ReadInv, PullInv
  <2>3. Min(pull.page) \in Nat \ {0}
    <3>1. pull.limit \in Nat
      BY DEF ReadInv, PullInv
    <3>2. Min(pull.page) \in 1 .. top
      BY <2>1, <2>2, <3>1, OldestOfPage
    <3>3. QED
      BY <3>2
  <2>4. /\ UNCHANGED <<newest, stored, marked>>
        /\ \/ cursor' = cursor /\ firstCursor' = firstCursor
           \/ cursor' = Min(pull.page) /\ firstCursor' = Min(pull.page)
        /\ \/ pull' = [pull EXCEPT !.at = "backfill", !.pages = 0]
           \/ pull' = [pull EXCEPT !.at = "head", !.before = Min(pull.page), !.pages = @ + 1]
    BY <1>2 DEF HeadPageDone
  <2>5. StoreInv'
    BY <2>3, <2>4 DEF ReadInv, StoreInv, MarkedAreStored, NothingPassedUnread
  <2>6. PullInv'
    BY <2>1, <2>3, <2>4 DEF ReadInv, PullInv
  <2>7. QED
    BY <2>5, <2>6 DEF ReadInv
<1>3. QED
  BY <1>1, <1>2

\* The backfill moves the cursor over a page that has been read in full.
LEMMA BackfillDoneKeeps == ReadInv /\ BackfillPageDone => ReadInv'
<1> SUFFICES ASSUME ReadInv, BackfillPageDone PROVE ReadInv'
  OBVIOUS
<1>1. pull.at = "ingest backfill" /\ UNCHANGED <<newest, stored, marked, firstCursor>>
  BY DEF BackfillPageDone
<1>2. CASE ~ReadInFull
  BY <1>1, <1>2, IdleKeeps DEF BackfillPageDone
<1>3. CASE ReadInFull /\ ~FullyListed
  BY <1>1, <1>3, IdleKeeps DEF BackfillPageDone
<1>4. CASE ReadInFull /\ FullyListed
  <2>1. /\ cursor - 1 \in Nat /\ pull.limit \in Nat /\ pull.page = Page(cursor - 1, pull.limit)
        /\ pull.page # {} /\ pull.page \subseteq marked
    <3>1. /\ cursor \in Nat /\ cursor # 0 /\ pull.limit \in Nat /\ pull.page = Page(cursor - 1, pull.limit)
          /\ pull.page \subseteq pull.fresh \cup marked
      BY <1>1 DEF ReadInv, PullInv, StoreInv
    <3>2. pull.fresh \subseteq marked
      BY <1>4 DEF ReadInFull
    <3>3. pull.page # {}
      BY <1>1, <1>4, FullPageIsThere
    <3>4. QED
      BY <3>1, <3>2, <3>3
  <2>2. /\ Min(pull.page) \in 1 .. cursor - 1 /\ \A s \in Min(pull.page) .. cursor - 1 : s \in marked
    BY <2>1, OldestOfPage
  <2>3. cursor' = Min(pull.page)
        /\ (pull' = Idle \/ pull' = [pull EXCEPT !.at = "backfill", !.pages = @ + 1])
    BY <1>4 DEF BackfillPageDone
  <2>4. StoreInv'
    <3>0. /\ newest' = newest /\ stored' = stored /\ marked' = marked /\ firstCursor' = firstCursor
          /\ newest \in Nat /\ cursor \in Nat /\ firstCursor \in Nat /\ MarkedAreStored
          /\ cursor # 0 /\ cursor <= firstCursor /\ \A s \in cursor .. firstCursor - 1 : s \in marked
      BY <1>1 DEF ReadInv, PullInv, StoreInv, NothingPassedUnread
    <3>1. cursor' \in Nat /\ cursor' <= firstCursor'
      BY <2>2, <2>3, <3>0
    <3>2. ASSUME NEW s \in cursor' .. firstCursor' - 1 PROVE s \in marked'
      BY <2>2, <2>3, <3>0
    <3>3. QED
      BY <3>0, <3>1, <3>2 DEF StoreInv, MarkedAreStored, NothingPassedUnread
  <2>5. PullInv'
    <3>1. CASE pull' = Idle
      BY <1>1, <3>1, IdlePull DEF ReadInv
    <3>2. CASE pull' = [pull EXCEPT !.at = "backfill", !.pages = @ + 1]
      BY <1>1, <3>2 DEF ReadInv, PullInv
    <3>3. QED
      BY <2>3, <3>1, <3>2
  <2>6. QED
    BY <2>4, <2>5 DEF ReadInv
<1>5. QED
  BY <1>2, <1>3, <1>4

\* The other steps leave the store alone.
LEMMA OthersKeep ==
  ReadInv /\ (Emit \/ Crash \/ BeginPull \/ HeadRefused \/ SkipBackfill \/ BackfillRefused) => ReadInv'
<1> SUFFICES ASSUME ReadInv, Emit \/ Crash \/ BeginPull \/ HeadRefused \/ SkipBackfill \/ BackfillRefused
             PROVE  ReadInv'
  OBVIOUS
<1>1. CASE Emit
  <2>1. newest' = newest + 1 /\ UNCHANGED <<stored, marked, cursor, firstCursor, pull>>
    BY <1>1 DEF Emit, store
  <2>2. PullInv' /\ NothingPassedUnread' /\ MarkedAreStored'
    BY <2>1 DEF ReadInv, PullInv, StoreInv, NothingPassedUnread, MarkedAreStored
  <2>3. QED
    BY <2>1, <2>2 DEF ReadInv, StoreInv
<1>2. CASE BeginPull
  BY <1>2, PagesAreNumbers DEF BeginPull, store, Idle, ReadInv, PullInv, StoreInv, MarkedAreStored,
     NothingPassedUnread
<1>3. CASE HeadRefused /\ pull' # Idle
  BY <1>3 DEF HeadRefused, store, ReadInv, PullInv, StoreInv, MarkedAreStored, NothingPassedUnread
<1>4. QED
  BY <1>1, <1>2, <1>3, IdleKeeps DEF Crash, HeadRefused, SkipBackfill, BackfillRefused, store

\* For any number of signatures, pages, stops and refusals: what is marked has
\* its events in the store, and the cursor has passed nothing unread.
THEOREM PullsLoseNothing == IndexSpec => []NothingIsLost
<1>1. ReadInv /\ [IndexNext]_indexVars => ReadInv'
  <2> SUFFICES ASSUME ReadInv, [IndexNext]_indexVars PROVE ReadInv'
    OBVIOUS
  <2>1. CASE UNCHANGED indexVars
    BY <2>1 DEF indexVars, ReadInv, PullInv, StoreInv, MarkedAreStored, NothingPassedUnread
  <2>2. QED
    BY <2>1, ListingKeeps, IngestKeeps, HeadDoneKeeps, BackfillDoneKeeps, OthersKeep
    DEF IndexNext, PullStep
<1>2. ReadInv => NothingIsLost
  BY DEF ReadInv, StoreInv, NothingIsLost
<1>3. QED
  BY InitIndexed, <1>1, <1>2, PTL DEF IndexSpec

-----------------------------------------------------------------------------
(* The memo: NeverBackwards of Memo.                                       *)

\* The one request under way is the memo's, and was made after its value was.
OneUnderWay ==
  /\ second \in Nat /\ served \in Nat /\ memo.value \in Nat /\ memo.inflight \in Nat
  /\ memo = [at |-> memo.at, value |-> memo.value, inflight |-> memo.inflight]
  /\ memo.inflight = 0 => requests = {}
  /\ \A r1, r2 \in requests : r1 = r2
  /\ \A r \in requests : r.since \in Nat /\ r.since >= memo.value /\ r.since <= second
  /\ served = memo.value /\ served <= second

\* Nothing is under way at first.
LEMMA InitUnderWay == MemoInit => OneUnderWay
  BY DEF MemoInit, OneUnderWay

\* A request is only made when none is under way, so its name is 1 or later.
LEMMA AskKeepsUnderWay == ASSUME NEW p \in Pages, OneUnderWay, Ask(p) PROVE OneUnderWay'
<1>1. CASE FreshIn \/ UnderWay
  BY <1>1 DEF Ask, OneUnderWay
<1>2. CASE ~(FreshIn \/ UnderWay)
  <2>1. requests = {} /\ memo.inflight = 0
    BY <1>2 DEF OneUnderWay, UnderWay
  <2>2. NextId = 1
    BY <2>1, FS_EmptySet DEF NextId
  <2>3. requests' = {[id |-> 1, since |-> second]} /\ memo' = [memo EXCEPT !.inflight = 1]
        /\ UNCHANGED <<second, served>>
    BY <1>2, <2>1, <2>2 DEF Ask
  <2>4. QED
    BY <2>3 DEF OneUnderWay
<1>3. QED
  BY <1>1, <1>2

\* The answer is no older than the value it replaces, and nothing is left under way.
LEMMA AnswerIsNewer ==
  ASSUME OneUnderWay, NEW r \in requests, ServicesAnswer(r)
  PROVE  OneUnderWay' /\ memo'.value >= memo.value
<1>1. PICK made \in 1 .. second :
        /\ made >= r.since \/ made >= served
        /\ served' = made /\ memo' = MemoFilled(made)
  BY DEF ServicesAnswer
<1>2. requests' = {} /\ second' = second
  BY DEF ServicesAnswer, OneUnderWay
<1>3. made >= memo.value
  BY <1>1 DEF OneUnderWay
<1>4. QED
  BY <1>1, <1>2, <1>3 DEF OneUnderWay, MemoFilled

\* A failure leaves the value.
LEMMA FailureKeepsUnderWay ==
  ASSUME OneUnderWay, NEW r \in requests, ServicesFail(r)
  PROVE  OneUnderWay' /\ memo'.value = memo.value
<1>1. requests' = {} /\ UNCHANGED <<second, served>> /\ memo' = [memo EXCEPT !.inflight = 0]
  BY DEF ServicesFail, OneUnderWay, MemoAfterFailure
<1>2. QED
  BY <1>1 DEF OneUnderWay

\* Every step keeps it, and only an answer touches the value.
LEMMA StepUnderWay == OneUnderWay /\ [MemoNext]_memoVars => OneUnderWay' /\ memo'.value >= memo.value
<1> SUFFICES ASSUME OneUnderWay, [MemoNext]_memoVars
             PROVE  OneUnderWay' /\ memo'.value >= memo.value
  OBVIOUS
<1>1. CASE Second
  BY <1>1 DEF Second, OneUnderWay
<1>2. ASSUME NEW p \in Pages, Ask(p) PROVE OneUnderWay' /\ memo'.value >= memo.value
  <2>1. memo'.value = memo.value
    BY <1>2 DEF Ask, OneUnderWay
  <2>2. QED
    BY <1>2, <2>1, AskKeepsUnderWay DEF OneUnderWay
<1>3. ASSUME NEW p \in Pages, PageDone(p) PROVE OneUnderWay' /\ memo'.value >= memo.value
  BY <1>3 DEF PageDone, OneUnderWay
<1>4. ASSUME NEW r \in requests, ServicesAnswer(r) PROVE OneUnderWay' /\ memo'.value >= memo.value
  BY <1>4, AnswerIsNewer
<1>5. ASSUME NEW r \in requests, ServicesFail(r) PROVE OneUnderWay' /\ memo'.value >= memo.value
  <2>1. OneUnderWay' /\ memo'.value = memo.value
    BY <1>5, FailureKeepsUnderWay
  <2>2. QED
    BY <2>1 DEF OneUnderWay
<1>6. CASE UNCHANGED memoVars
  BY <1>6 DEF memoVars, OneUnderWay
<1>7. QED
  BY <1>1, <1>2, <1>3, <1>4, <1>5, <1>6 DEF MemoNext

\* For any lifetimes, however many pages ask at once and whatever fails: the
\* app's entry only ever moves to a newer answer of the services.
THEOREM AnswersOnlyGetNewer == MemoSpec => NeverBackwards
<1>1. OneUnderWay /\ [MemoNext]_memoVars => [memo'.value >= memo.value]_memoVars
  BY StepUnderWay
<1>2. QED
  BY InitUnderWay, StepUnderWay, <1>1, PTL DEF MemoSpec, NeverBackwards

-----------------------------------------------------------------------------
(* The transaction flow: VerdictsStand of TxFlow.                          *)

\* The types the steps lean on.
Shapes ==
  /\ screen = Screen(screen.status, screen.code, screen.run) /\ screen.run \in 0 .. MaxRuns
  /\ bound \in [Runs -> Nat] /\ DOMAIN relay = Runs /\ DOMAIN landing = Runs
  /\ height \in Nat

\* A run is named whenever the hook is not idle, and a verdict needs a failure.
ScreenMeansRun ==
  /\ screen.status # "idle" => screen.run \in Runs
  /\ screen.code # "none" => screen.status = "failed"

\* The relay has never heard of a run that is not signed yet, or of a later one.
Unheard(r) == relay[r] = "none" /\ landing[r] = "unsent"
UnsignedIsUnheard ==
  /\ \A r \in Runs : r > screen.run => Unheard(r)
  /\ screen.status \in {"building", "signing"} => Unheard(screen.run)
  /\ screen.code = "rejected" => Unheard(screen.run)

\* A request is submitted once.
ReceivedIsUnsent == \A r \in Runs : relay[r] = "received" => landing[r] = "unsent"

VerdictInv ==
  Shapes /\ ScreenMeansRun /\ UnsignedIsUnheard /\ ReceivedIsUnsent /\ VerdictsStand

\* The bounds as numbers.
LEMMA BoundsAreNumbers ==
  BlockhashLife \in Nat /\ HeightSlack \in Nat /\ MaxRuns \in Nat /\ MaxRuns > 0
  BY TxFlowConstants

\* A screen made of its fields has them.
LEMMA ScreenFields ==
  ASSUME NEW s, NEW c, NEW r
  PROVE  /\ Screen(s, c, r).status = s /\ Screen(s, c, r).code = c /\ Screen(s, c, r).run = r
         /\ [Screen(s, c, r) EXCEPT !.status = "signing"] = Screen("signing", c, r)
         /\ [Screen(s, c, r) EXCEPT !.status = "sending"] = Screen("sending", c, r)
  BY DEF Screen

\* The screen knows nothing at first, and nothing was sent.
LEMMA InitVerdicts == TxInit => VerdictInv
<1> SUFFICES ASSUME TxInit PROVE VerdictInv
  OBVIOUS
<1>1. screen.status = "idle" /\ screen.code = "none" /\ screen.run = 0
  BY ScreenFields DEF TxInit
<1>2. QED
  BY <1>1, BoundsAreNumbers DEF TxInit, VerdictInv, Shapes, ScreenMeansRun, UnsignedIsUnheard, Unheard,
       ReceivedIsUnsent, VerdictsStand, Runs

\* The hook's own steps: only Sign hands a run over, and Decline never does.
LEMMA HookKeepsVerdicts == VerdictInv /\ HookStep => VerdictInv'
<1> SUFFICES ASSUME VerdictInv, HookStep PROVE VerdictInv'
  OBVIOUS
<1>a. ASSUME NEW s, NEW c, NEW r, screen' = Screen(s, c, r)
      PROVE  screen'.status = s /\ screen'.code = c /\ screen'.run = r /\ screen' = Screen(screen'.status, screen'.code, screen'.run)
  BY <1>a, ScreenFields
<1>b. screen = Screen(screen.status, screen.code, screen.run)
  BY DEF VerdictInv, Shapes
<1> USE BoundsAreNumbers DEF VerdictInv, Shapes, ScreenMeansRun, UnsignedIsUnheard, Unheard,
        ReceivedIsUnsent, VerdictsStand, Runs
<1>1. CASE Press
  BY <1>1, <1>a DEF Press, Busy
<1>2. CASE Reset
  BY <1>2, <1>a DEF Reset
<1>3. CASE Built
  <2>1. screen' = Screen("signing", screen.code, screen.run)
    BY <1>3, <1>b, ScreenFields DEF Built
  <2>2. QED
    BY <1>3, <2>1, <1>a DEF Built
<1>4. ASSUME NEW code \in Codes, BuildFails(code) PROVE VerdictInv'
  <2>1. code \notin {"none", "rejected", "expired"}
    BY <1>4 DEF Codes, ProgramCodes
  <2>2. QED
    BY <1>4, <2>1, <1>a DEF BuildFails, Fail
<1>5. CASE Sign
  <2>1. screen' = Screen("sending", screen.code, screen.run)
    BY <1>5, <1>b, ScreenFields DEF Sign
  <2>2. /\ screen'.status = "sending" /\ screen'.code = screen.code /\ screen'.run = screen.run
        /\ relay' = [relay EXCEPT ![screen.run] = "received"] /\ UNCHANGED <<bound, landing, height>>
        /\ screen.status = "signing" /\ screen.code = "none" /\ Unheard(screen.run)
    BY <1>5, <2>1, <1>a DEF Sign
  <2>3. Shapes' /\ ScreenMeansRun'
    BY <2>1, <2>2, <1>a
  <2>4. UnsignedIsUnheard' /\ ReceivedIsUnsent' /\ VerdictsStand'
    BY <2>2
  <2>5. QED
    BY <2>3, <2>4
<1>6. CASE Decline
  BY <1>6, <1>a DEF Decline, Fail
<1>7. CASE SendTimesOut
  BY <1>7, <1>a DEF SendTimesOut, GivesUp, Fail
<1>8. QED
  BY <1>1, <1>2, <1>3, <1>4, <1>5, <1>6, <1>7 DEF HookStep

\* What an answer leaves on the screen.
LEMMA AnswerShows ==
  ASSUME Shapes, NEW run \in Runs, NEW s, NEW c, Answer(run, Screen(s, c, run))
  PROVE  /\ \/ screen' = screen
            \/ /\ screen.status = "sending" /\ screen.run = run
               /\ screen' = Screen(s, c, run)
               /\ screen'.status = s /\ screen'.code = c /\ screen'.run = run
         /\ relay' = [relay EXCEPT ![run] = "none"]
  BY ScreenFields DEF Answer

\* Such an answer keeps the verdicts if it is true and the chain stands still.
LEMMA AnswerKeepsVerdicts ==
  ASSUME VerdictInv, NEW run \in Runs, NEW s \in {"done", "failed"}, NEW c,
         Answer(run, Screen(s, c, run)),
         c # "rejected", s = "done" => c = "none" /\ landing[run] = "landed",
         c = "expired" => height > bound[run], UNCHANGED <<bound, landing, height>>
  PROVE  VerdictInv'
<1>0. Shapes
  BY DEF VerdictInv
<1>1. /\ \/ screen' = screen
         \/ /\ screen.status = "sending" /\ screen.run = run
            /\ screen' = Screen(screen'.status, screen'.code, screen'.run)
            /\ screen'.status = s /\ screen'.code = c /\ screen'.run = run
      /\ relay' = [relay EXCEPT ![run] = "none"]
  BY <1>0, AnswerShows
<1>2. Shapes'
  BY <1>0, <1>1 DEF Shapes, Runs
<1>3. ScreenMeansRun' /\ VerdictsStand'
  BY <1>1 DEF VerdictInv, ScreenMeansRun, VerdictsStand
<1>4. ReceivedIsUnsent'
  BY <1>0, <1>1 DEF VerdictInv, Shapes, ReceivedIsUnsent
<1>5. UnsignedIsUnheard'
  BY <1>0, <1>1 DEF VerdictInv, Shapes, UnsignedIsUnheard, Unheard
<1>6. QED
  BY <1>2, <1>3, <1>4, <1>5 DEF VerdictInv

\* So does one that fails with a code that promises nothing, or a true expiry.
LEMMA FailureKeepsVerdicts ==
  ASSUME VerdictInv, NEW run \in Runs, NEW c, Answer(run, Fail(c)), c # "rejected",
         c = "expired" => height > bound[run], UNCHANGED <<bound, landing, height>>
  PROVE  VerdictInv'
<1>1. CASE screen.run = run
  BY <1>1, AnswerKeepsVerdicts DEF Fail
<1>2. CASE screen.run # run
  <2>1. Answer(run, Screen("failed", c, run))
    BY <1>2 DEF Answer
  <2>2. QED
    BY <2>1, AnswerKeepsVerdicts
<1>3. QED
  BY <1>1, <1>2

\* The relay's steps for one run: it reports a landing it saw, and an expiry
\* only past the bound.
LEMMA RelayKeepsVerdicts == ASSUME NEW run \in Runs, VerdictInv, RelayStep(run) PROVE VerdictInv'
<1>1. CASE Refuse(run)
  BY <1>1, FailureKeepsVerdicts DEF Refuse
<1>2. CASE Submit(run)
  BY <1>2 DEF Submit, VerdictInv, Shapes, ScreenMeansRun, UnsignedIsUnheard, Unheard, ReceivedIsUnsent,
       VerdictsStand
<1>3. CASE SubmitUnanswered(run)
  <2> USE <1>3 DEF VerdictInv, SubmitUnanswered
  <2>1. /\ \/ screen' = screen
           \/ /\ screen.status = "sending" /\ screen.run = run /\ screen' = Screen("failed", "rpc", run)
        /\ relay' = [relay EXCEPT ![run] = "none"] /\ landing' = [landing EXCEPT ![run] = "pending"]
        /\ relay[run] = "received" /\ landing[run] = "unsent" /\ UNCHANGED <<bound, height>>
    BY DEF Answer, Fail, ReceivedIsUnsent
  <2>2. screen' = screen \/ /\ screen.status = "sending" /\ screen.run = run
                            /\ screen' = Screen(screen'.status, screen'.code, screen'.run)
                            /\ screen'.status = "failed" /\ screen'.code = "rpc" /\ screen'.run = run
    BY <2>1, ScreenFields
  <2>3. Shapes'
    BY <2>1, <2>2 DEF Shapes, Runs
  <2>4. ScreenMeansRun' /\ ReceivedIsUnsent'
    BY <2>1, <2>2 DEF ScreenMeansRun, ReceivedIsUnsent, Shapes
  <2>5. UnsignedIsUnheard' /\ VerdictsStand'
    BY <2>1, <2>2 DEF UnsignedIsUnheard, Unheard, VerdictsStand, Shapes, ScreenMeansRun, Runs
  <2>6. QED
    BY <2>3, <2>4, <2>5
<1>4. ASSUME NEW code \in ProgramCodes \cup {"rpc"}, PreflightFails(run, code) PROVE VerdictInv'
  <2>1. code # "rejected" /\ code # "expired"
    BY <1>4 DEF ProgramCodes
  <2>2. QED
    BY <1>4, <2>1, FailureKeepsVerdicts DEF PreflightFails
<1>5. CASE PollSeen(run)
  <2>1. CASE landing[run] = "landed"
    <3>1. Answer(run, Screen("done", "none", run)) /\ UNCHANGED <<bound, landing, height>>
      BY <1>5, <2>1 DEF PollSeen
    <3>2. QED
      BY <2>1, <3>1, AnswerKeepsVerdicts
  <2>2. CASE landing[run] # "landed"
    <3>1. Answer(run, Fail("other")) /\ UNCHANGED <<bound, landing, height>>
      BY <1>5, <2>2 DEF PollSeen
    <3>2. QED
      BY <3>1, FailureKeepsVerdicts
  <2>3. QED
    BY <2>1, <2>2
<1>6. CASE PollUnseen(run)
  BY <1>6 DEF PollUnseen, VerdictInv, Shapes, ScreenMeansRun, UnsignedIsUnheard, Unheard,
       ReceivedIsUnsent, VerdictsStand
<1>7. CASE PollHeight(run)
  <2>1. CASE PastBound(run)
    <3>1. Answer(run, Fail("expired")) /\ UNCHANGED <<bound, landing, height>>
      BY <1>7, <2>1 DEF PollHeight
    <3>2. QED
      BY <2>1, <3>1, FailureKeepsVerdicts DEF PastBound
  <2>2. CASE ~PastBound(run)
    BY <1>7, <2>2 DEF PollHeight, VerdictInv, Shapes, ScreenMeansRun, UnsignedIsUnheard, Unheard,
         ReceivedIsUnsent, VerdictsStand
  <2>3. QED
    BY <2>1, <2>2
<1>8. ASSUME NEW code \in {"rpc", "other"}, RelayGivesUp(run, code) PROVE VerdictInv'
  BY <1>8, FailureKeepsVerdicts DEF RelayGivesUp
<1>9. QED
  BY <1>1, <1>2, <1>3, <1>4, <1>5, <1>6, <1>7, <1>8 DEF RelayStep

\* The chain lands only what is within its bound, so nothing reported as expired.
LEMMA ChainKeepsVerdicts == VerdictInv /\ ChainStep => VerdictInv'
<1> SUFFICES ASSUME VerdictInv, ChainStep PROVE VerdictInv'
  OBVIOUS
<1> USE BoundsAreNumbers DEF VerdictInv, Shapes, ScreenMeansRun, UnsignedIsUnheard, Unheard,
        ReceivedIsUnsent, VerdictsStand, Runs
<1>1. ASSUME NEW run \in Runs, NEW how \in {"landed", "reverted"}, Land(run, how) PROVE VerdictInv'
  BY <1>1 DEF Land
<1>2. CASE Block
  BY <1>2 DEF Block
<1>3. QED
  BY <1>1, <1>2 DEF ChainStep

\* A restarted server forgets its requests; what was sent stays sent.
LEMMA RestartKeepsVerdicts == VerdictInv /\ Restart => VerdictInv'
<1> SUFFICES ASSUME VerdictInv, Restart PROVE VerdictInv'
  OBVIOUS
<1> USE DEF VerdictInv, Shapes, ScreenMeansRun, UnsignedIsUnheard, Unheard, ReceivedIsUnsent,
        VerdictsStand, Runs
<1>1. CASE screen.status = "sending"
  BY <1>1, ScreenFields DEF Restart, Fail
<1>2. CASE screen.status # "sending"
  BY <1>2 DEF Restart
<1>3. QED
  BY <1>1, <1>2

\* Forgetting a message changes nothing the verdicts are about.
LEMMA ForgetKeepsVerdicts == ASSUME NEW run \in Runs, VerdictInv, Forget(run) PROVE VerdictInv'
  BY DEF Forget, VerdictInv, Shapes, ScreenMeansRun, UnsignedIsUnheard, Unheard, ReceivedIsUnsent,
         VerdictsStand

\* For any number of presses, requests in flight, restarts and blocks: a
\* receipt is of a transaction that landed, and one reported as expired or
\* declined never lands afterwards.
THEOREM VerdictsAreFinal == TxSpec => []VerdictsStand
<1>1. VerdictInv /\ [TxNext]_txVars => VerdictInv'
  <2> SUFFICES ASSUME VerdictInv, [TxNext]_txVars PROVE VerdictInv'
    OBVIOUS
  <2>1. CASE TxNext
    BY <2>1, HookKeepsVerdicts, ChainKeepsVerdicts, RestartKeepsVerdicts, RelayKeepsVerdicts,
       ForgetKeepsVerdicts DEF TxNext
  <2>2. CASE UNCHANGED txVars
    BY <2>2 DEF txVars, VerdictInv, Shapes, ScreenMeansRun, UnsignedIsUnheard, Unheard,
       ReceivedIsUnsent, VerdictsStand
  <2>3. QED
    BY <2>1, <2>2
<1>2. VerdictInv => VerdictsStand
  BY DEF VerdictInv
<1>3. QED
  BY InitVerdicts, <1>1, <1>2, PTL DEF TxSpec

-----------------------------------------------------------------------------
(* A call of the failover asks every endpoint that was open when it began, *)
(* unless another call disturbed it: FailsAfterAll of RpcFailover.         *)

CallType ==
  [at : {"idle", "asking", "served", "failed"}, began : Nat, anyOpen : BOOLEAN, i : Nat,
   url : Urls, untried : SUBSET Urls, disturbed : BOOLEAN]
RpcShapes ==
  /\ preferred \in Urls /\ preferredSince \in Nat /\ moment \in Nat
  /\ benchedUntil \in [Urls -> Nat] /\ call \in [Calls -> CallType]

\* What a call has not asked yet lies ahead of it, and nothing has it skipped.
StillAhead(r, home, bench, i) ==
  \A u \in r.untried : bench[u] <= r.began /\ \E j \in i .. Endpoints - 1 : u = At(home, j)
Asked == \A c \in Calls : call[c].at = "asking" => call[c].url \notin call[c].untried
InReach == \A c \in Calls : call[c].at = "asking" /\ ~call[c].disturbed =>
             StillAhead(call[c], preferred, benchedUntil, call[c].i + 1)

RpcInv == RpcShapes /\ Asked /\ InReach /\ FailsAfterAll

\* Where the chain wraps around.
LEMMA Wraps ==
  ASSUME NEW E \in Nat \ {0}, NEW u \in 0 .. E - 1
  PROVE  u % E = u /\ (u + E) % E = u
  OBVIOUS

\* An index of the loop is an endpoint.
LEMMA AtIsUrl == ASSUME NEW home \in Urls, NEW i \in Nat PROVE At(home, i) \in Urls
  BY RpcConstants DEF At, Urls

\* From any endpoint on, the loop comes to every endpoint of the chain.
LEMMA AllReached ==
  ASSUME NEW home \in Urls, NEW u \in Urls
  PROVE  \E j \in 0 .. Endpoints - 1 : u = At(home, j)
<1>1. CASE u >= home
  <2>1. u - home \in 0 .. Endpoints - 1 /\ home + (u - home) = u
    BY <1>1, RpcConstants DEF Urls
  <2>2. u = At(home, u - home)
    BY <2>1, Wraps, RpcConstants DEF At, Urls
  <2> QED
    BY <2>1, <2>2
<1>2. CASE u < home
  <2>1. u + Endpoints - home \in 0 .. Endpoints - 1 /\ home + (u + Endpoints - home) = u + Endpoints
    BY <1>2, RpcConstants DEF Urls
  <2>2. u = At(home, u + Endpoints - home)
    BY <2>1, Wraps, RpcConstants DEF At, Urls
  <2> QED
    BY <2>1, <2>2
<1> QED
  BY <1>1, <1>2 DEF Urls

\* A call that has not begun.
LEMMA FreshIsCall == Fresh \in CallType /\ Fresh.at = "idle" /\ Fresh.disturbed = FALSE
  BY RpcConstants DEF Fresh, CallType, Urls

\* Going on from where everything not asked lies ahead, a call asks the next that
\* it may, and the rest lies ahead of that; or it fails with nothing left out.
LEMMA GoesOn ==
  ASSUME NEW r \in CallType, NEW home \in Urls, NEW bench \in [Urls -> Nat], NEW i \in Nat,
         NEW next, next = GoOnFrom(r, home, bench, i)
  PROVE  /\ next \in CallType /\ next.disturbed = r.disturbed
         /\ next.at = "asking" => next.url \notin next.untried
         /\ StillAhead(r, home, bench, i) =>
              /\ next.at = "asking" => StillAhead(next, home, bench, next.i + 1)
              /\ next.at = "failed" => next.untried = {}
<1> DEFINE left == Reached(r, home, bench, i)
           m == Min(left)
<1>1. left \subseteq Nat /\ \A j \in left : j \in i .. Endpoints - 1
  BY RpcConstants DEF Reached
<1>2. ASSUME StillAhead(r, home, bench, i), NEW u \in r.untried
      PROVE  \E j \in left : u = At(home, j)
  <2>1. PICK j \in i .. Endpoints - 1 : u = At(home, j)
    BY <1>2 DEF StillAhead
  <2>2. bench[u] <= r.began /\ bench[u] \in Nat /\ r.began \in Nat
    BY <1>2 DEF StillAhead, CallType
  <2> QED
    BY <2>1, <2>2 DEF Reached
<1>3. CASE left = {}
  <2>1. next = [Fresh EXCEPT !.at = "failed", !.untried = r.untried, !.disturbed = r.disturbed]
    BY <1>3 DEF GoOnFrom
  <2>2. r.untried \in SUBSET Urls /\ r.disturbed \in BOOLEAN
    BY DEF CallType
  <2>3. /\ next.at = "failed" /\ next.untried = r.untried /\ next.disturbed = r.disturbed
        /\ next \in CallType
    BY <2>1, <2>2, FreshIsCall DEF CallType
  <2> QED
    BY <1>2, <1>3, <2>3
<1>4. CASE left # {}
  <2>1. m \in left /\ \A j \in left : m <= j
    BY <1>1, <1>4, LeastNat DEF Min
  <2>2. m \in Nat /\ At(home, m) \in Urls
    BY <1>1, <2>1, AtIsUrl
  <2>3. next = [r EXCEPT !.at = "asking", !.i = m, !.url = At(home, m),
                         !.untried = @ \ {At(home, m)}]
    BY <1>4 DEF GoOnFrom
  <2> HIDE DEF left, m
  <2>4. /\ next.at = "asking" /\ next.i = m /\ next.untried = r.untried \ {At(home, m)}
        /\ next.disturbed = r.disturbed /\ next.began = r.began /\ next.url = At(home, m)
        /\ next \in CallType
    BY <2>2, <2>3 DEF CallType
  <2>5. ASSUME StillAhead(r, home, bench, i) PROVE StillAhead(next, home, bench, next.i + 1)
    <3> SUFFICES ASSUME NEW u \in next.untried
                 PROVE  bench[u] <= next.began /\ \E j \in m + 1 .. Endpoints - 1 : u = At(home, j)
      BY <2>4 DEF StillAhead
    <3>1. u \in r.untried /\ u # At(home, m)
      BY <2>4
    <3>2. bench[u] <= next.began
      BY <2>4, <2>5, <3>1 DEF StillAhead
    <3>3. PICK j \in left : u = At(home, j)
      BY <1>2, <2>5, <3>1
    <3>4. j # m /\ m <= j /\ j \in i .. Endpoints - 1
      BY <1>1, <2>1, <3>1, <3>3
    <3>5. j \in m + 1 .. Endpoints - 1
      BY <2>2, <3>4, RpcConstants
    <3> QED
      BY <3>2, <3>3, <3>5
  <2> QED
    BY <2>4, <2>5
<1> QED
  BY <1>3, <1>4

\* A step of one call that leaves its own record right leaves every other one
\* right: what it changes for them disturbs them.
LEMMA OthersDisturbed ==
  ASSUME RpcInv, NEW c \in Calls, NEW r \in CallType, call' = After(c, r),
         preferred' \in Urls, preferredSince' \in Nat, benchedUntil' \in [Urls -> Nat],
         moment' \in Nat,
         r.at = "asking" /\ ~r.disturbed => StillAhead(r, preferred', benchedUntil', r.i + 1),
         r.at = "failed" /\ ~r.disturbed => r.untried = {},
         r.at = "asking" => r.url \notin r.untried
  PROVE  RpcInv'
<1>1. call' \in [Calls -> CallType] /\ call'[c] = r
  BY DEF RpcInv, RpcShapes, After, CallType
<1>2. ASSUME NEW d \in Calls, d # c
      PROVE  \/ call'[d] = call[d] /\ (call[d].at = "asking" => shared' = shared)
             \/ /\ call'[d].at = "asking" /\ call'[d].disturbed /\ call[d].at = "asking"
                /\ call'[d].url = call[d].url /\ call'[d].untried = call[d].untried
  <2>1. call'[d] = IF shared' # shared /\ call[d].at = "asking"
                     THEN [call[d] EXCEPT !.disturbed = TRUE] ELSE call[d]
    BY <1>2 DEF After
  <2>2. call[d] \in CallType
    BY DEF RpcInv, RpcShapes
  <2> QED
    BY <2>1, <2>2 DEF CallType
<1>3. InReach'
  <2> SUFFICES ASSUME NEW d \in Calls, call'[d].at = "asking", ~call'[d].disturbed
               PROVE  StillAhead(call'[d], preferred', benchedUntil', call'[d].i + 1)
    BY DEF InReach, StillAhead, At
  <2>1. CASE d = c
    BY <1>1, <2>1
  <2>2. CASE d # c
    <3>1. call'[d] = call[d] /\ preferred' = preferred /\ benchedUntil' = benchedUntil
      BY <1>2, <2>2 DEF shared
    <3> QED
      BY <3>1 DEF RpcInv, InReach
  <2> QED
    BY <2>1, <2>2
<1>4. FailsAfterAll'
  BY <1>1, <1>2 DEF RpcInv, FailsAfterAll
<1>5. Asked'
  BY <1>1, <1>2 DEF RpcInv, Asked
<1> QED
  BY <1>1, <1>3, <1>4, <1>5 DEF RpcInv, RpcShapes

\* For any number of endpoints and of calls at once: a call nobody disturbed
\* fails only after every endpoint that was open when it began.
THEOREM UndisturbedAskAll == RpcSpec => []FailsAfterAll
<1>1. RpcInit => RpcInv
  <2>1. ASSUME RpcInit PROVE 0 \in Urls /\ Fresh \in CallType
    BY RpcConstants DEF Urls, Fresh, CallType
  <2> QED
    BY <2>1 DEF RpcInit, RpcInv, RpcShapes, Asked, InReach, FailsAfterAll, Fresh
<1>2. RpcInv /\ [RpcNext]_rpcVars => RpcInv'
  <2> SUFFICES ASSUME RpcInv, [RpcNext]_rpcVars PROVE RpcInv'
    OBVIOUS
  <2>1. CASE Pass
    BY <2>1 DEF Pass, shared, RpcInv, RpcShapes, Asked, InReach, FailsAfterAll, StillAhead, At
  <2>2. ASSUME NEW c \in Calls, BeginCall(c) PROVE RpcInv'
    <3> DEFINE open == {u \in Urls : benchedUntil[u] <= moment}
               r == [Fresh EXCEPT !.began = moment, !.anyOpen = (open # {}), !.untried = open]
               next == GoOnFrom(r, preferred', benchedUntil, 0)
    <3>1. /\ preferred' \in Urls /\ benchedUntil' = benchedUntil /\ moment' = moment
          /\ preferredSince' = preferredSince /\ call' = After(c, next)
      BY <2>2, RpcConstants DEF BeginCall, RpcInv, RpcShapes, Urls
    <3>2. /\ r \in CallType /\ r.untried = open /\ r.began = moment /\ r.disturbed = FALSE
      <4>1. open \in SUBSET Urls /\ moment \in Nat /\ (open # {}) \in BOOLEAN
        BY DEF RpcInv, RpcShapes
      <4> HIDE DEF open
      <4> QED
        BY <4>1, FreshIsCall DEF CallType
    <3>3. StillAhead(r, preferred', benchedUntil, 0)
      BY <3>1, <3>2, AllReached DEF StillAhead
    <3> HIDE DEF r, next
    <3>4. /\ next \in CallType
          /\ next.at = "asking" => /\ next.url \notin next.untried
                                   /\ StillAhead(next, preferred', benchedUntil, next.i + 1)
          /\ next.at = "failed" => next.untried = {}
      BY <3>1, <3>2, <3>3, GoesOn DEF next, RpcInv, RpcShapes
    <3> QED
      BY <3>1, <3>4, OthersDisturbed DEF RpcInv, RpcShapes
  <2>3. ASSUME NEW c \in Calls, Served(c) PROVE RpcInv'
    <3>1. [Fresh EXCEPT !.at = "served"] \in CallType /\ [Fresh EXCEPT !.at = "served"].at = "served"
      BY FreshIsCall DEF CallType
    <3>2. /\ preferred' \in Urls /\ preferredSince' \in Nat /\ benchedUntil' = benchedUntil
          /\ moment' = moment /\ call' = After(c, [Fresh EXCEPT !.at = "served"])
      BY <2>3 DEF Served, RpcInv, RpcShapes, CallType
    <3> QED
      BY <3>1, <3>2, OthersDisturbed DEF RpcInv, RpcShapes
  <2>4. ASSUME NEW c \in Calls, Refused(c) PROVE RpcInv'
    <3> DEFINE next == GoOnFrom(call[c], preferred, benchedUntil', call[c].i + 1)
    <3>1. call[c] \in CallType /\ call[c].at = "asking" /\ call[c].i \in Nat /\ call[c].url \in Urls
      BY <2>4 DEF Refused, RpcInv, RpcShapes, CallType
    <3>2. /\ preferred' = preferred /\ preferredSince' = preferredSince /\ moment' = moment
          /\ benchedUntil' = [benchedUntil EXCEPT ![call[c].url] = moment + Bench]
          /\ call' = After(c, next)
      BY <2>4 DEF Refused
    <3>3. benchedUntil' \in [Urls -> Nat]
      BY <3>1, <3>2, RpcConstants DEF RpcInv, RpcShapes
    <3>4. ~call[c].disturbed => StillAhead(call[c], preferred, benchedUntil', call[c].i + 1)
      <4>1. call[c].url \notin call[c].untried /\ call[c].untried \subseteq Urls
        BY <3>1 DEF RpcInv, Asked, CallType
      <4>2. \A u \in call[c].untried : benchedUntil'[u] = benchedUntil[u]
        BY <3>2, <4>1 DEF RpcInv, RpcShapes
      <4> QED
        BY <3>1, <4>2 DEF RpcInv, InReach, StillAhead
    <3> HIDE DEF next
    <3>5. /\ next \in CallType /\ next.disturbed = call[c].disturbed
          /\ next.at = "asking" => next.url \notin next.untried
          /\ ~next.disturbed /\ next.at = "asking" => StillAhead(next, preferred, benchedUntil', next.i + 1)
          /\ ~next.disturbed /\ next.at = "failed" => next.untried = {}
      <4>1. call[c].i + 1 \in Nat /\ preferred \in Urls
        BY <3>1 DEF RpcInv, RpcShapes
      <4>2. next \in CallType
        BY <3>1, <3>3, <4>1, GoesOn DEF next
      <4>3. next.disturbed = call[c].disturbed
        BY <3>1, <3>3, <4>1, GoesOn DEF next
      <4>4. next.at = "asking" => next.url \notin next.untried
        BY <3>1, <3>3, <4>1, GoesOn DEF next
      <4>5. ASSUME StillAhead(call[c], preferred, benchedUntil', call[c].i + 1)
            PROVE  /\ next.at = "asking" => StillAhead(next, preferred, benchedUntil', next.i + 1)
                   /\ next.at = "failed" => next.untried = {}
        BY <3>1, <3>3, <4>1, <4>5, GoesOn DEF next
      <4> QED
        BY <3>4, <4>2, <4>3, <4>4, <4>5
    <3> QED
      BY <3>2, <3>3, <3>5, OthersDisturbed DEF RpcInv, RpcShapes
  <2>5. ASSUME NEW c \in Calls, GivenUp(c) PROVE RpcInv'
    <3> DEFINE next == GoOnFrom(call[c], preferred, benchedUntil, call[c].i + 1)
    <3>1. call[c] \in CallType /\ call[c].at = "asking" /\ call[c].i + 1 \in Nat
      BY <2>5 DEF GivenUp, RpcInv, RpcShapes, CallType
    <3>2. UNCHANGED <<preferred, preferredSince, benchedUntil, moment>> /\ call' = After(c, next)
      BY <2>5 DEF GivenUp, shared
    <3>3. ~call[c].disturbed => StillAhead(call[c], preferred, benchedUntil, call[c].i + 1)
      BY <3>1 DEF RpcInv, InReach
    <3> HIDE DEF next
    <3>4. /\ next \in CallType /\ next.disturbed = call[c].disturbed
          /\ next.at = "asking" => next.url \notin next.untried
          /\ ~next.disturbed /\ next.at = "asking" => StillAhead(next, preferred, benchedUntil, next.i + 1)
          /\ ~next.disturbed /\ next.at = "failed" => next.untried = {}
      BY <3>1, <3>3, GoesOn DEF next, RpcInv, RpcShapes
    <3> QED
      BY <3>2, <3>4, OthersDisturbed DEF RpcInv, RpcShapes
  <2>6. ASSUME NEW c \in Calls, Return(c) PROVE RpcInv'
    <3>2. /\ call' = [call EXCEPT ![c] = Fresh]
          /\ UNCHANGED <<preferred, preferredSince, benchedUntil, moment>>
      BY <2>6 DEF Return, shared
    <3> QED
      BY <3>2, FreshIsCall DEF RpcInv, RpcShapes, Asked, InReach, FailsAfterAll, StillAhead, At
  <2>7. CASE UNCHANGED rpcVars
    BY <2>7 DEF rpcVars, RpcInv, RpcShapes, Asked, InReach, FailsAfterAll, StillAhead, At
  <2> QED
    BY <2>1, <2>2, <2>3, <2>4, <2>5, <2>6, <2>7 DEF RpcNext
<1>3. RpcInv => FailsAfterAll
  BY DEF RpcInv
<1> QED
  BY <1>1, <1>2, <1>3, PTL DEF RpcSpec
-----------------------------------------------------------------------------
(* What an ask is priced on: OracleMarksAreFresh of Marks.                 *)

\* Times are times, and what the last tick quoted passed its checks when it did.
MarksInv ==
  /\ {minute, published, decided.on.taken, issuerCache.taken, snapCache.taken} \subseteq Nat
  /\ OracleMarksAreFresh

\* A cache keeps the time its price was true, or has the time now.
LEMMA CachesKeepTimes ==
  ASSUME MarksInv, NEW answer \in Answers
  PROVE  IssuerAfter(answer).taken \in Nat /\ SnapsAfter(answer).taken \in Nat
  BY DEF MarksInv, IssuerAfter, SnapsAfter, Refreshed

\* What markFor finds is never the oracle's, and has a time.
LEMMA MarksHaveTimes ==
  ASSUME MarksInv, NEW issuer, NEW snaps, issuer.taken \in Nat, snaps.taken \in Nat,
         NEW routed \in BOOLEAN, NEW quoted \in BOOLEAN
  PROVE  MarkFor(issuer, snaps, routed, quoted).taken \in Nat
<1> DEFINE marks == <<[source |-> "prestocks", taken |-> IF asset.preIpo THEN issuer.taken ELSE 0],
                      [source |-> "tokens.xyz", taken |-> snaps.taken],
                      [source |-> "jupiter", taken |-> IF routed THEN minute ELSE 0],
                      [source |-> "xstocks", taken |-> IF quoted THEN minute ELSE 0]>>
           found == {i \in DOMAIN marks : marks[i].taken > 0}
<1>1. DOMAIN marks = 1 .. 4 /\ \A i \in 1 .. 4 : marks[i].taken \in Nat
  BY DEF MarksInv
<1>2. CASE found = {}
  BY <1>2 DEF MarkFor, Unpriced
<1>3. CASE found # {}
  <2> HIDE DEF marks
  <2>1. found \in SUBSET Nat
    BY <1>1
  <2>2. Min(found) \in found
    <3> HIDE DEF found
    <3> QED
      BY <1>3, <2>1, LeastNat DEF Min
  <2>3. MarkFor(issuer, snaps, routed, quoted) = marks[Min(found)]
    BY <1>3 DEF MarkFor, marks
  <2> QED
    BY <1>1, <2>2, <2>3
<1> QED
  BY <1>2, <1>3

\* For any life of the caches and any bound on a price's age, whatever the
\* sources answer or refuse: on a real cluster an ask is priced by the oracle or
\* by the token's issuer, and never on a price of the oracle older than the bound.
THEOREM OracleMarksStayFresh == MarksSpec => []OracleMarksAreFresh
<1>1. MarksInit => MarksInv
  BY DEF MarksInit, MarksInv, Unpriced, OracleMarksAreFresh, Quotes
<1>2. MarksInv /\ [MarksNext]_marksVars => MarksInv'
  <2> SUFFICES ASSUME MarksInv, [MarksNext]_marksVars PROVE MarksInv'
    OBVIOUS
  <2>1. ASSUME NEW issuerAnswer \in Answers, NEW snapAnswer \in Answers,
               NEW sample \in {0} \cup {t \in 1 .. minute : t >= published},
               NEW routed \in BOOLEAN, NEW quoted \in BOOLEAN, NEW volKnown \in BOOLEAN,
               Price(issuerAnswer, snapAnswer, sample, routed, quoted, volKnown)
        PROVE  MarksInv'
    <3> DEFINE issuer == IF sample = 0 THEN IssuerAfter(issuerAnswer) ELSE issuerCache
               snaps == SnapsAfter(snapAnswer)
               mark == IF sample > 0 THEN [source |-> "hermes", taken |-> sample]
                                     ELSE MarkFor(issuer, snaps, routed, quoted)
    <3>1. issuer.taken \in Nat /\ snaps.taken \in Nat /\ sample \in Nat /\ minute \in Nat
      BY CachesKeepTimes DEF MarksInv
    <3>2. mark.taken \in Nat
      BY <3>1, MarksHaveTimes
    <3>3. /\ issuerCache' = issuer /\ snapCache' = snaps /\ minute' = minute /\ asset' = asset
          /\ published' = IF sample > 0 THEN sample ELSE published
          /\ decided'.on = mark
          /\ decided'.does = "quote" => CanQuote(mark) /\ AgeSecs(mark) <= MaxPriceAge
      BY <2>1 DEF Price
    <3> HIDE DEF issuer, snaps, mark
    <3>4. OracleMarksAreFresh'
      BY <3>1, <3>2, <3>3, MarksConstants DEF OracleMarksAreFresh, Quotes, Old, CanQuote, AgeSecs
    <3> QED
      BY <3>1, <3>2, <3>3, <3>4 DEF MarksInv
  <2>2. CASE MinutePasses
    BY <2>2 DEF MinutePasses, MarksInv, OracleMarksAreFresh, Quotes, Unpriced
  <2>3. CASE UNCHANGED marksVars
    BY <2>3 DEF marksVars, MarksInv, OracleMarksAreFresh, Quotes, Old
  <2> QED
    BY <2>1, <2>2, <2>3 DEF MarksNext, MarkTick
<1>3. MarksInv => OracleMarksAreFresh
  BY DEF MarksInv
<1> QED
  BY <1>1, <1>2, <1>3, PTL DEF MarksSpec

-----------------------------------------------------------------------------
(* The asks a quoter keeps are worth their price: CheapIsDust of Quoting.  *)

AskType == [who : Quoters, seq : Nat, lots : Nat, price : Nat]
PostType == [lots : Nat, deposit : Nat, price : Nat]
LegType ==
  [who : Quoters \cup {"nobody"}, at : {"reads", "sends", "over"}, level : Nat, sight : Sights,
   quoted : BOOLEAN, todo : SUBSET Nat, post : PostType, gives : BOOLEAN, clean : BOOLEAN]
SendType == [who : Quoters, seq : Nat, post : PostType]

\* Two asks of one account have two numbers, so there is a first one.
NumbersApart(asks) == \A a, b \in asks : a.who = b.who /\ a.seq = b.seq => a = b

\* What is on the book is in its slot, a vault's slot is within its cap, and an
\* ask on the book was at least the smallest one and at most the quoter's.
BookInv ==
  /\ book \subseteq AskType /\ IsFiniteSet(book) /\ NumbersApart(book)
  /\ held \in [Quoters -> Nat] /\ sold \in [Quoters -> Nat] /\ purse \in [Quoters -> Nat]
  /\ \A w \in Quoters : LotsIn(OwnAsks(w)) <= held[w]
  /\ held["vault"] + sold["vault"] <= VaultCap
  /\ book # {} => AskMinimum <= LotsPerSeries

\* Where a leg is, what it and a late send may post, and at which price.
LegInv ==
  /\ leg \in LegType /\ IsFiniteSet(leg.todo) /\ leg.post.lots <= LotsPerSeries
  /\ late \subseteq SendType /\ IsFiniteSet(late) /\ \A t \in late : t.post.lots <= LotsPerSeries
  /\ leg.at # "over" => leg.who \in Quoters
  /\ leg.at # "sends" => leg.todo = {}
  /\ leg.at = "sends" /\ leg.post # NoPost => leg.post.price = leg.level

\* The asks too cheap for the leg under way that it is not about to cancel.
LeftCheap ==
  {a \in OwnAsks(leg.who) : a.price + Tolerance < leg.level /\ a.seq \notin leg.todo}
LittleLeft ==
  leg.at # "reads" /\ leg.clean /\ leg.sight = "fine" /\ (leg.who = "treasury" => leg.quoted)
    => LotsIn(LeftCheap) < AskMinimum

QuotingInv == BookInv /\ LegInv /\ LittleLeft

\* No asks have no lots.
LEMMA LotsOfNone == LotsIn({}) = 0
  BY SumOfNone DEF LotsIn

\* A part of some asks has no more lots than they have.
LEMMA LotsOfPart ==
  ASSUME NEW S \in SUBSET AskType, IsFiniteSet(S), NEW T \in SUBSET S
  PROVE  LotsIn(T) \in Nat /\ LotsIn(S) \in Nat /\ LotsIn(T) <= LotsIn(S)
<1> DEFINE f == [a \in S |-> a.lots]
           g == [a \in T |-> a.lots]
<1>1. IsFiniteSet(T) /\ NatTerms(f, S) /\ NatTerms(f, T)
  BY FS_Subset DEF NatTerms, AskType
<1>2. \A a \in T : f[a] = g[a]
  OBVIOUS
<1>3. LotsIn(S) = SumFunctionOnSet(f, S) /\ LotsIn(T) = SumFunctionOnSet(g, T)
  BY DEF LotsIn
<1> HIDE DEF f, g
<1>4. SumFunctionOnSet(f, T) = SumFunctionOnSet(g, T)
  BY <1>1, <1>2, SumAgree
<1> QED
  BY <1>1, <1>3, <1>4, SumNat, SumOfPart

\* One ask more has its lots more.
LEMMA LotsOfMore ==
  ASSUME NEW S \in SUBSET AskType, IsFiniteSet(S), NEW x \in AskType, x \notin S
  PROVE  LotsIn(S \cup {x}) = LotsIn(S) + x.lots
<1> DEFINE f == [a \in S |-> a.lots]
           g == [a \in S \cup {x} |-> a.lots]
<1>1. IntTerms(g, S) /\ g[x] \in Int /\ g[x] = x.lots
  BY DEF IntTerms, AskType
<1>2. \A a \in S : f[a] = g[a]
  OBVIOUS
<1>3. LotsIn(S) = SumFunctionOnSet(f, S) /\ LotsIn(S \cup {x}) = SumFunctionOnSet(g, S \cup {x})
  BY DEF LotsIn
<1> HIDE DEF f, g
<1>4. SumFunctionOnSet(f, S) = SumFunctionOnSet(g, S)
  BY <1>2, SumAgree
<1>5. SumFunctionOnSet(g, S \cup {x}) = g[x] + SumFunctionOnSet(g, S)
  BY <1>1, SumAdd
<1>6. SumFunctionOnSet(g, S) \in Int /\ x.lots \in Int
  BY <1>1, SumInt DEF AskType
<1> QED
  BY <1>1, <1>3, <1>4, <1>5, <1>6

\* One more member adds at most one to a size.
LEMMA OneMore ==
  ASSUME NEW S, IsFiniteSet(S), NEW x
  PROVE  IsFiniteSet(S \cup {x}) /\ Cardinality(S \cup {x}) <= Cardinality(S) + 1
<1>1. Cardinality(S) \in Nat
  BY FS_CardinalityType
<1> QED
  BY <1>1, FS_AddElement

\* No more numbers than asks, or than sends.
LEMMA NumbersCounted ==
  ASSUME NEW S, IsFiniteSet(S)
  PROVE  IsFiniteSet({a.seq : a \in S}) /\ Cardinality({a.seq : a \in S}) <= Cardinality(S)
<1> DEFINE Seqs(s) == {a.seq : a \in s}
           Good == {s \in SUBSET S : IsFiniteSet(Seqs(s)) /\ Cardinality(Seqs(s)) <= Cardinality(s)}
<1>1. {} \in Good
  <2>1. Seqs({}) = {}
    OBVIOUS
  <2> QED
    BY <2>1, FS_EmptySet
<1>2. ASSUME NEW s \in SUBSET S, s \in Good, NEW x \in S \ s PROVE s \cup {x} \in Good
  <2>1. Seqs(s \cup {x}) = Seqs(s) \cup {x.seq}
    OBVIOUS
  <2>2. IsFiniteSet(s) /\ IsFiniteSet(Seqs(s)) /\ Cardinality(Seqs(s)) <= Cardinality(s)
    BY <1>2, FS_Subset
  <2>3. Cardinality(s) \in Nat /\ Cardinality(Seqs(s)) \in Nat
    BY <2>2, FS_CardinalityType
  <2>4. Cardinality(s \cup {x}) = Cardinality(s) + 1
    BY <1>2, <2>2, FS_AddElement
  <2>5. /\ IsFiniteSet(Seqs(s) \cup {x.seq})
        /\ Cardinality(Seqs(s) \cup {x.seq}) <= Cardinality(Seqs(s)) + 1
    <3> HIDE DEF Seqs
    <3> QED
      BY <2>2, OneMore
  <2>6. IsFiniteSet(Seqs(s \cup {x})) /\ Cardinality(Seqs(s \cup {x})) <= Cardinality(Seqs(s)) + 1
    <3> HIDE DEF Seqs
    <3> QED
      BY <2>1, <2>5
  <2>7. Cardinality(Seqs(s \cup {x})) \in Nat
    BY <2>6, FS_CardinalityType
  <2>8. Cardinality(Seqs(s \cup {x})) <= Cardinality(s \cup {x})
    <3> HIDE DEF Seqs
    <3> QED
      BY <2>2, <2>3, <2>4, <2>6, <2>7
  <2> HIDE DEF Seqs
  <2> QED
    BY <1>2, <2>6, <2>8
<1>3. S \in Good
  <2> HIDE DEF Good
  <2> QED
    BY <1>1, <1>2, FiniteInduction
<1> QED
  BY <1>3

\* The number of a new ask is no other ask's.
LEMMA UnusedIsNew ==
  ASSUME BookInv, LegInv
  PROVE  Unused \in Nat /\ \A a \in book : a.seq # Unused
<1> DEFINE A == {a.seq : a \in book}
           B == {t.seq : t \in late}
           N == Cardinality(book) + Cardinality(leg.todo) + Cardinality(late)
<1>1. IsFiniteSet(book) /\ IsFiniteSet(late) /\ IsFiniteSet(leg.todo)
  BY DEF BookInv, LegInv
<1>2. /\ IsFiniteSet(A) /\ Cardinality(A) <= Cardinality(book)
      /\ IsFiniteSet(B) /\ Cardinality(B) <= Cardinality(late)
  BY <1>1, NumbersCounted
<1>3. /\ Cardinality(book) \in Nat /\ Cardinality(late) \in Nat /\ Cardinality(leg.todo) \in Nat
      /\ Cardinality(A) \in Nat /\ Cardinality(B) \in Nat
  BY <1>1, <1>2, FS_CardinalityType
<1> HIDE DEF A, B
<1> DEFINE U == A \cup leg.todo \cup B
<1>4. IsFiniteSet(U) /\ Cardinality(U) \in Nat /\ Cardinality(U) <= N
  <2>1. /\ IsFiniteSet(A \cup leg.todo)
        /\ Cardinality(A \cup leg.todo)
             = Cardinality(A) + Cardinality(leg.todo) - Cardinality(A \cap leg.todo)
    BY <1>1, <1>2, FS_Union
  <2>2. /\ IsFiniteSet(U)
        /\ Cardinality(U)
             = Cardinality(A \cup leg.todo) + Cardinality(B) - Cardinality((A \cup leg.todo) \cap B)
    BY <1>2, <2>1, FS_Union
  <2>3. IsFiniteSet(A \cap leg.todo) /\ IsFiniteSet((A \cup leg.todo) \cap B)
    BY <1>2, FS_Intersection
  <2>4. Cardinality(A \cap leg.todo) \in Nat /\ Cardinality((A \cup leg.todo) \cap B) \in Nat
    BY <2>3, FS_CardinalityType
  <2>5. Cardinality(U) \in Nat
    BY <2>2, FS_CardinalityType
  <2> HIDE DEF U
  <2> QED
    BY <1>2, <1>3, <2>1, <2>2, <2>4, <2>5
<1>5. N + 1 \in Nat /\ Cardinality(1 .. N + 1) = N + 1
  <2>1. N \in Nat
    BY <1>3
  <2> HIDE DEF N
  <2>2. 1 \in Int /\ N + 1 \in Int /\ ~(1 > N + 1) /\ N + 1 - 1 + 1 = N + 1
    BY <2>1
  <2> QED
    BY <2>1, <2>2, FS_Interval
<1>6. \E k \in 1 .. N + 1 : k \notin U
  <2>1. SUFFICES ASSUME 1 .. N + 1 \subseteq U PROVE FALSE
    OBVIOUS
  <2>2. Cardinality(1 .. N + 1) <= Cardinality(U)
    BY <1>4, <2>1, FS_Subset
  <2>3. N \in Nat
    BY <1>3
  <2> HIDE DEF U, N
  <2> QED
    BY <1>4, <1>5, <2>2, <2>3
<1>7. Unused = CHOOSE k \in 1 .. N + 1 : k \notin U
  BY DEF Unused, A, B
<1>8. Unused \in 1 .. N + 1 /\ Unused \notin U
  <2> HIDE DEF U, N
  <2> QED
    BY <1>6, <1>7
<1> QED
  BY <1>5, <1>8 DEF A

\* Of the asks of one account one is in front, and none is cheaper than it.
LEMMA FrontAsk ==
  ASSUME NEW own \in SUBSET AskType, IsFiniteSet(own), own # {}, NEW who,
         \A a \in own : a.who = who, NumbersApart(own)
  PROVE  Current(own) \in own /\ \A b \in own : Current(own).price <= b.price
<1> DEFINE First(s, a) == \A b \in s \ {a} : Ahead(a, b)
           Good == {s \in SUBSET own : s = {} \/ \E a \in s : First(s, a)}
<1>1. \A a, b \in own : a # b => Ahead(a, b) \/ Ahead(b, a)
  BY DEF NumbersApart, Ahead, AskType
<1>2. \A a, b, c \in own : Ahead(a, b) /\ Ahead(b, c) => Ahead(a, c)
  BY DEF Ahead, AskType
<1>3. ASSUME NEW s \in SUBSET own, s \in Good, NEW x \in own \ s PROVE s \cup {x} \in Good
  <2>1. CASE s = {}
    BY <2>1
  <2>2. CASE s # {}
    <3>1. PICK a \in s : First(s, a)
      BY <1>3, <2>2
    <3>2. CASE Ahead(x, a)
      <4>1. First(s \cup {x}, x)
        BY <1>2, <3>1, <3>2
      <4> HIDE DEF First
      <4> QED
        BY <4>1
    <3>3. CASE Ahead(a, x)
      <4>1. First(s \cup {x}, a)
        BY <3>1, <3>3
      <4> HIDE DEF First
      <4> QED
        BY <3>1, <4>1
    <3> QED
      BY <1>1, <3>1, <3>2, <3>3
  <2> QED
    BY <2>1, <2>2
<1>4. own \in Good
  <2> HIDE DEF First
  <2>1. {} \in Good
    OBVIOUS
  <2> HIDE DEF Good
  <2> QED
    BY <1>3, <2>1, FiniteInduction
<1>5. \E a \in own : \A b \in own \ {a} : Ahead(a, b)
  BY <1>4
<1>6. Current(own) \in own /\ \A b \in own \ {Current(own)} : Ahead(Current(own), b)
  BY <1>5 DEF Current
<1> QED
  BY <1>6 DEF Ahead, AskType

\* What a leg makes of its asks leaves less than the smallest ask below the model,
\* and what it posts it posts at the model's price.
Sound(plan, own, level) ==
  /\ plan.todo = {} \/ plan.todo = {a.seq : a \in own}
  /\ plan.post \in PostType /\ plan.post.lots <= LotsPerSeries /\ plan.gives \in BOOLEAN
  /\ plan.post # NoPost => plan.post.price = level
Cheap(own, level, todo) == {a \in own : a.price + Tolerance < level /\ a.seq \notin todo}

\* The three plans.
LEMMA PlansSound ==
  ASSUME NEW own \in SUBSET AskType, NEW level \in Nat
  PROVE  /\ Sound(LeaveBe, own, level) /\ Sound(PullAll(own), own, level)
         /\ \A want, deposit \in Nat : want <= LotsPerSeries =>
              Sound(Repost(own, want, deposit, level), own, level)
         /\ LeaveBe.todo = {} /\ PullAll(own).todo = {a.seq : a \in own}
         /\ \A want, deposit : Repost(own, want, deposit, level).todo = {a.seq : a \in own}
<1>1. NoPost \in PostType /\ NoPost.lots <= LotsPerSeries
  BY QuotingConstants DEF NoPost, PostType
<1> QED
  BY <1>1 DEF Sound, LeaveBe, PullAll, Repost, Plan, PostType

\* The asks of a quoter as it reads them.
LEMMA OwnRead ==
  ASSUME BookInv, NEW w \in Quoters
  PROVE  /\ OwnAsks(w) \in SUBSET AskType /\ IsFiniteSet(OwnAsks(w))
         /\ \A a \in OwnAsks(w) : a.who = w
         /\ NumbersApart(OwnAsks(w)) /\ LotsIn(OwnAsks(w)) \in Nat
         /\ LotsIn(OwnAsks(w)) <= held[w] /\ held[w] \in Nat
         /\ OwnAsks(w) # {} => AskMinimum <= LotsPerSeries
<1>1. OwnAsks(w) \in SUBSET AskType /\ OwnAsks(w) \in SUBSET book /\ IsFiniteSet(book)
  BY DEF BookInv, OwnAsks
<1>2. IsFiniteSet(OwnAsks(w))
  BY <1>1, FS_Subset
<1>3. LotsIn(OwnAsks(w)) \in Nat
  BY <1>1, <1>2, LotsOfPart
<1> QED
  BY <1>1, <1>2, <1>3 DEF BookInv, OwnAsks, NumbersApart

\* What is cancelled, or in a book with little on it, leaves little that is cheap.
LEMMA LittleCheap ==
  ASSUME NEW own \in SUBSET AskType, IsFiniteSet(own), NEW level, NEW todo,
         \/ todo = {a.seq : a \in own}
         \/ \A a \in own : ~(a.price + Tolerance < level)
         \/ LotsIn(own) < AskMinimum
  PROVE  LotsIn(Cheap(own, level, todo)) < AskMinimum
<1> DEFINE few == Cheap(own, level, todo)
<1>1. few \in SUBSET own /\ AskMinimum \in Nat /\ AskMinimum > 0
  BY QuotingConstants DEF Cheap
<1>2. CASE few = {}
  BY <1>1, <1>2, LotsOfNone
<1>3. CASE LotsIn(own) < AskMinimum
  <2> HIDE DEF few
  <2>1. LotsIn(few) \in Nat /\ LotsIn(own) \in Nat /\ LotsIn(few) <= LotsIn(own)
    BY <1>1, LotsOfPart
  <2> QED
    BY <1>1, <1>3, <2>1 DEF few
<1> QED
  BY <1>2, <1>3 DEF Cheap

\* The level at which the ask in front is worth its price is the level of all.
LEMMA FrontSpeaksForAll ==
  ASSUME NEW own \in SUBSET AskType, IsFiniteSet(own), own # {}, NEW who,
         \A a \in own : a.who = who, NumbersApart(own), NEW level \in Nat,
         Off(Current(own).price, level) <= Tolerance
  PROVE  \A a \in own : ~(a.price + Tolerance < level)
<1>1. Current(own) \in own /\ \A b \in own : Current(own).price <= b.price
  BY FrontAsk
<1>2. Current(own).price \in Nat /\ \A b \in own : b.price \in Nat
  BY <1>1 DEF AskType
<1> DEFINE p == Current(own).price
<1> HIDE DEF p
<1>3. level <= p + Tolerance
  BY <1>2, QuotingConstants DEF Off, p
<1> QED
  BY <1>1, <1>2, <1>3, QuotingConstants DEF p

\* The treasury's leg.
LEMMA TreasurySound ==
  ASSUME BookInv, LegInv, NEW level \in Nat, NEW seen \in Sights,
         NEW funded \in BOOLEAN, NEW paused \in BOOLEAN,
         NEW own, own = OwnAsks("treasury"),
         NEW plan, plan = TreasuryPlan(own, level, seen, funded, paused)
  PROVE  /\ Sound(plan, own, level)
         /\ seen = "fine" /\ leg.quoted => LotsIn(Cheap(own, level, plan.todo)) < AskMinimum
<1> DEFINE hold == held["treasury"]
           deposit == IF hold >= LotsPerSeries THEN 0 ELSE LotsPerSeries - hold
           pays == deposit = 0 \/ funded
           want == IF pays THEN LotsPerSeries ELSE hold
           puts == IF pays THEN deposit ELSE 0
<1>1. /\ own \in SUBSET AskType /\ IsFiniteSet(own) /\ \A a \in own : a.who = "treasury"
      /\ NumbersApart(own) /\ LotsIn(own) \in Nat /\ LotsIn(own) <= hold /\ hold \in Nat
      /\ own # {} => AskMinimum <= LotsPerSeries
  BY OwnRead DEF Quoters
<1>2. LotsPerSeries \in Nat /\ AskMinimum \in Nat /\ AskMinimum > 0
  BY QuotingConstants
<1>3. /\ puts \in Nat /\ want \in Nat /\ want <= LotsPerSeries
      /\ want < AskMinimum => AskMinimum > LotsPerSeries \/ hold < AskMinimum
  BY <1>1, <1>2
<1>4. \/ plan = PullAll(own)
      \/ plan = LeaveBe /\ (seen = "fine" => ~leg.quoted)
      \/ plan = LeaveBe /\ own # {} /\ Off(Current(own).price, level) <= Tolerance
      \/ plan = LeaveBe /\ want < AskMinimum
      \/ plan = Repost(own, want, puts, level)
  BY DEF TreasuryPlan
<1> HIDE DEF hold, want, deposit, pays, puts
<1>5. Sound(plan, own, level)
  <2>1. /\ Sound(LeaveBe, own, level) /\ Sound(PullAll(own), own, level)
        /\ Sound(Repost(own, want, puts, level), own, level)
    BY <1>1, <1>3, PlansSound
  <2> QED
    BY <2>1, <1>4
<1>6. ASSUME seen = "fine", leg.quoted
      PROVE  LotsIn(Cheap(own, level, plan.todo)) < AskMinimum
  <2>1. CASE plan.todo = {a.seq : a \in own}
    BY <1>1, <2>1, LittleCheap
  <2>2. CASE own # {} /\ Off(Current(own).price, level) <= Tolerance
    <3>1. \A a \in own : ~(a.price + Tolerance < level)
      BY <1>1, <2>2, FrontSpeaksForAll
    <3> QED
      BY <1>1, <3>1, LittleCheap
  <2>3. CASE want < AskMinimum
    <3>1. CASE own = {}
      <4>1. LotsIn(own) < AskMinimum
        BY <1>2, <3>1, LotsOfNone
      <4> QED
        BY <1>1, <4>1, LittleCheap
    <3>2. CASE own # {}
      <4>1. LotsIn(own) < AskMinimum
        BY <1>1, <1>2, <1>3, <2>3, <3>2
      <4> QED
        BY <1>1, <4>1, LittleCheap
    <3> QED
      BY <3>1, <3>2
  <2>4. plan = PullAll(own) \/ plan = Repost(own, want, puts, level)
          => plan.todo = {a.seq : a \in own}
    BY <1>1, PlansSound
  <2> QED
    BY <1>4, <1>6, <2>1, <2>2, <2>3, <2>4
<1> QED
  BY <1>5, <1>6

\* The smaller of two numbers.
LEMMA MinOfTwo ==
  ASSUME NEW m \in Nat, NEW n \in Nat
  PROVE  /\ Min({m, n}) \in {m, n} /\ Min({m, n}) <= m /\ Min({m, n}) <= n
<1>1. \E k \in {m, n} : \A j \in {m, n} : k <= j
  OBVIOUS
<1> QED
  BY <1>1 DEF Min

\* The vault's leg.
LEMMA VaultSound ==
  ASSUME BookInv, LegInv, NEW level \in Nat, NEW paused \in BOOLEAN,
         NEW own, own = OwnAsks("vault"), NEW plan, plan = VaultPlan(own, level, paused)
  PROVE  /\ Sound(plan, own, level)
         /\ LotsIn(Cheap(own, level, plan.todo)) < AskMinimum
<1> DEFINE hold == held["vault"]
           gone == sold["vault"]
           spare == purse["vault"]
           wish == Min({LotsPerSeries, VaultCap - gone})
           lacks == IF hold >= wish THEN 0 ELSE wish - hold
           deposit == Min({lacks, spare})
           want == IF hold + deposit < wish THEN hold + deposit ELSE wish
<1>1. /\ own \in SUBSET AskType /\ IsFiniteSet(own) /\ \A a \in own : a.who = "vault"
      /\ NumbersApart(own) /\ LotsIn(own) \in Nat /\ LotsIn(own) <= hold /\ hold \in Nat
      /\ own # {} => AskMinimum <= LotsPerSeries
  BY OwnRead DEF Quoters
<1>2. LotsPerSeries \in Nat /\ AskMinimum \in Nat /\ AskMinimum > 0 /\ VaultCap \in Nat
  BY QuotingConstants
<1>3. gone \in Nat /\ spare \in Nat /\ hold + gone <= VaultCap
  BY DEF BookInv, Quoters
<1>4. \/ plan = PullAll(own)
      \/ plan = LeaveBe /\ own # {} /\ Off(Current(own).price, level) <= Tolerance
      \/ plan = LeaveBe /\ want < AskMinimum /\ ~(gone >= VaultCap)
      \/ plan = Repost(own, want, deposit, level) /\ ~(gone >= VaultCap)
  BY DEF VaultPlan
<1> HIDE DEF hold, gone, spare
<1>5. ASSUME ~(gone >= VaultCap)
      PROVE  /\ deposit \in Nat /\ want \in Nat /\ want <= LotsPerSeries
             /\ want < AskMinimum => AskMinimum > LotsPerSeries \/ hold < AskMinimum
  <2>1. VaultCap - gone \in Nat
    BY <1>2, <1>3, <1>5
  <2>2. /\ wish \in Nat /\ wish <= LotsPerSeries
        /\ wish = LotsPerSeries \/ wish = VaultCap - gone
    BY <1>2, <2>1, MinOfTwo
  <2> HIDE DEF wish
  <2>3. lacks \in Nat
    BY <1>1, <2>2
  <2> HIDE DEF lacks
  <2>4. deposit \in Nat
    BY <1>3, <2>3, MinOfTwo
  <2> HIDE DEF deposit
  <2> QED
    BY <1>1, <1>2, <1>3, <2>2, <2>4
<1> HIDE DEF want, deposit
<1>6. Sound(plan, own, level)
  BY <1>1, <1>4, <1>5, PlansSound
<1>7. LotsIn(Cheap(own, level, plan.todo)) < AskMinimum
  <2>1. CASE plan.todo = {a.seq : a \in own}
    BY <1>1, <2>1, LittleCheap
  <2>2. CASE own # {} /\ Off(Current(own).price, level) <= Tolerance
    <3>1. \A a \in own : ~(a.price + Tolerance < level)
      BY <1>1, <2>2, FrontSpeaksForAll
    <3> QED
      BY <1>1, <3>1, LittleCheap
  <2>3. CASE want < AskMinimum /\ ~(gone >= VaultCap)
    <3>1. LotsIn(own) < AskMinimum
      BY <1>1, <1>2, <1>5, <2>3, LotsOfNone
    <3> QED
      BY <1>1, <3>1, LittleCheap
  <2>4. plan = PullAll(own) \/ plan = Repost(own, want, deposit, level)
          => plan.todo = {a.seq : a \in own}
    BY <1>1, PlansSound
  <2> QED
    BY <1>4, <2>1, <2>2, <2>3, <2>4
<1> QED
  BY <1>6, <1>7

\* A cancel leaves fewer asks.
LEMMA CancelKeepsBook ==
  ASSUME BookInv, NEW w \in Quoters, NEW k, Cancelled(w, k)
  PROVE  BookInv' /\ book' = {a \in book : ~(a.who = w /\ a.seq = k)}
<1>1. /\ book' = {a \in book : ~(a.who = w /\ a.seq = k)} /\ book' \in SUBSET book
      /\ UNCHANGED <<held, sold, purse>>
  BY DEF Cancelled
<1>2. book' \subseteq AskType /\ IsFiniteSet(book') /\ NumbersApart(book')
  <2>1. IsFiniteSet(book')
    BY <1>1, FS_Subset DEF BookInv
  <2> QED
    BY <1>1, <2>1 DEF BookInv, NumbersApart
<1>3. ASSUME NEW v \in Quoters PROVE LotsIn(OwnAsks(v)') <= held[v]
  <2>1. OwnAsks(v)' \in SUBSET OwnAsks(v)
    BY <1>1 DEF OwnAsks
  <2>2. /\ LotsIn(OwnAsks(v)') \in Nat /\ LotsIn(OwnAsks(v)) \in Nat
        /\ LotsIn(OwnAsks(v)') <= LotsIn(OwnAsks(v))
    BY <2>1, OwnRead, LotsOfPart
  <2>3. LotsIn(OwnAsks(v)) <= held[v] /\ held[v] \in Nat
    BY OwnRead
  <2> QED
    BY <2>2, <2>3
<1>4. book # {} => AskMinimum <= LotsPerSeries
  BY DEF BookInv
<1> QED
  BY <1>1, <1>2, <1>3, <1>4 DEF BookInv

\* A quote adds one ask, with a number of its own and covered by its slot.
LEMMA QuoteKeepsBook ==
  ASSUME BookInv, LegInv, NEW w \in Quoters, NEW post \in PostType,
         post.lots <= LotsPerSeries, Quoted(w, post)
  PROVE  /\ BookInv'
         /\ \E x \in AskType : book' = book \cup {x} /\ x.who = w /\ x.price = post.price
<1> DEFINE x == [who |-> w, seq |-> Unused, lots |-> post.lots, price |-> post.price]
<1>1. Unused \in Nat /\ \A a \in book : a.seq # Unused
  BY UnusedIsNew
<1>2. /\ x \in AskType /\ x \notin book /\ x.who = w /\ x.seq = Unused /\ x.lots = post.lots
      /\ x.price = post.price
  BY <1>1 DEF AskType, PostType
<1>3. /\ book' = book \cup {x}
      /\ post.deposit <= purse[w] /\ post.lots >= AskMinimum
      /\ w = "vault" => held[w] + sold[w] + post.deposit <= VaultCap
      /\ held[w] + post.deposit - LotsIn(OwnAsks(w)) >= post.lots
      /\ held' = [held EXCEPT ![w] = @ + post.deposit]
      /\ purse' = [purse EXCEPT ![w] = @ - post.deposit] /\ sold' = sold
  BY DEF Quoted
<1> HIDE DEF x
<1>4. book' \subseteq AskType /\ IsFiniteSet(book') /\ NumbersApart(book')
  <2>1. IsFiniteSet(book')
    BY <1>3, FS_AddElement DEF BookInv
  <2> QED
    BY <1>1, <1>2, <1>3, <2>1 DEF BookInv, NumbersApart
<1>5. post.deposit \in Nat /\ post.lots \in Nat /\ held[w] \in Nat /\ purse[w] \in Nat
  BY DEF BookInv, PostType
<1>6. held' \in [Quoters -> Nat] /\ purse' \in [Quoters -> Nat]
  BY <1>3, <1>5 DEF BookInv
<1>7. ASSUME NEW v \in Quoters PROVE LotsIn(OwnAsks(v)') <= held'[v]
  <2>1. CASE v = w
    <3>1. OwnAsks(v)' = OwnAsks(w) \cup {x} /\ x \notin OwnAsks(w)
      BY <1>2, <1>3, <2>1 DEF OwnAsks
    <3>2. LotsIn(OwnAsks(w) \cup {x}) = LotsIn(OwnAsks(w)) + x.lots
      BY <1>2, <3>1, OwnRead, LotsOfMore
    <3>3. LotsIn(OwnAsks(w)) \in Nat /\ held'[w] = held[w] + post.deposit
      BY <1>3, OwnRead DEF BookInv
    <3>4. LotsIn(OwnAsks(v)') = LotsIn(OwnAsks(w)) + post.lots
      BY <1>2, <3>1, <3>2
    <3> QED
      BY <1>3, <1>5, <2>1, <3>3, <3>4
  <2>2. CASE v # w
    <3>1. OwnAsks(v)' = OwnAsks(v) /\ held'[v] = held[v]
      BY <1>2, <1>3, <2>2 DEF OwnAsks, BookInv
    <3> QED
      BY <3>1 DEF BookInv
  <2> QED
    BY <2>1, <2>2
<1>8. held'["vault"] + sold'["vault"] <= VaultCap
  <2>1. held'["vault"] = IF w = "vault" THEN held["vault"] + post.deposit ELSE held["vault"]
    BY <1>3 DEF BookInv, Quoters
  <2>2. held["vault"] + sold["vault"] <= VaultCap /\ held["vault"] \in Nat /\ sold["vault"] \in Nat
    BY DEF BookInv, Quoters
  <2> QED
    BY <1>3, <1>5, <2>1, <2>2
<1>9. AskMinimum <= LotsPerSeries
  BY <1>3, <1>5, QuotingConstants
<1> QED
  BY <1>2, <1>3, <1>4, <1>6, <1>7, <1>8, <1>9 DEF BookInv

\* A fill takes lots from the ask in front, and what is left keeps its place.
LessTaken(S, x, n) ==
  (S \ {x}) \cup (IF n = x.lots THEN {} ELSE {[x EXCEPT !.lots = @ - n]})

\* What is taken is missing from the sum.
LEMMA TakenIsLess ==
  ASSUME NEW S \in SUBSET AskType, IsFiniteSet(S), NumbersApart(S), NEW x \in S,
         \A a \in S : a.who = x.who, NEW n \in Nat, n <= x.lots
  PROVE  LotsIn(LessTaken(S, x, n)) + n = LotsIn(S)
<1> DEFINE rest == S \ {x}
           y == [x EXCEPT !.lots = @ - n]
<1>1. x \in AskType /\ x.lots \in Nat
  BY DEF AskType
<1>2. y \in AskType /\ y.who = x.who /\ y.seq = x.seq /\ y.lots = x.lots - n
  BY <1>1 DEF AskType
<1> HIDE DEF y
<1>3. y \notin rest
  BY <1>2 DEF NumbersApart
<1>4. rest \in SUBSET AskType /\ IsFiniteSet(rest) /\ x \notin rest /\ S = rest \cup {x}
  BY FS_RemoveElement
<1> HIDE DEF rest
<1>5. LotsIn(S) = LotsIn(rest) + x.lots /\ LotsIn(rest) \in Nat
  BY <1>1, <1>4, LotsOfMore, LotsOfPart
<1>6. LotsIn(rest \cup {y}) = LotsIn(rest) + (x.lots - n)
  BY <1>2, <1>3, <1>4, LotsOfMore
<1>7. LessTaken(S, x, n) = rest \cup (IF n = x.lots THEN {} ELSE {y})
  BY DEF LessTaken, rest, y
<1>8. CASE n = x.lots
  BY <1>1, <1>5, <1>7, <1>8
<1>9. CASE n # x.lots
  BY <1>1, <1>5, <1>6, <1>7, <1>9
<1> QED
  BY <1>8, <1>9

\* A fill is of an ask on the book.
LEMMA FillTakes ==
  ASSUME BookInv, LegInv, NEW n \in Nat, Fill(n)
  PROVE  \E x \in book :
           /\ n <= x.lots /\ book' = LessTaken(book, x, n)
           /\ held' = [held EXCEPT ![x.who] = @ - n] /\ sold' = [sold EXCEPT ![x.who] = @ + n]
           /\ UNCHANGED <<purse, leg, late>>
  BY DEF Fill, LessTaken

\* A fill takes from the ask and from its slot alike.
LEMMA FillKeepsBook ==
  ASSUME BookInv, NEW n \in Nat, NEW x \in book, n <= x.lots, book' = LessTaken(book, x, n),
         held' = [held EXCEPT ![x.who] = @ - n], sold' = [sold EXCEPT ![x.who] = @ + n],
         purse' = purse
  PROVE  /\ BookInv' /\ OwnAsks(x.who)' = LessTaken(OwnAsks(x.who), x, n)
         /\ \A v \in Quoters \ {x.who} : OwnAsks(v)' = OwnAsks(v)
<1> DEFINE y == [x EXCEPT !.lots = @ - n]
<1>1. x \in AskType /\ x.lots \in Nat /\ x.who \in Quoters
  BY DEF AskType, BookInv
<1>2. y \in AskType /\ y.who = x.who /\ y.seq = x.seq
  BY <1>1 DEF AskType
<1>3. book' = (book \ {x}) \cup (IF n = x.lots THEN {} ELSE {y})
  BY DEF LessTaken
<1>4. /\ OwnAsks(x.who)' = LessTaken(OwnAsks(x.who), x, n)
      /\ \A v \in Quoters \ {x.who} : OwnAsks(v)' = OwnAsks(v)
  <2>1. LessTaken(OwnAsks(x.who), x, n) = (OwnAsks(x.who) \ {x}) \cup (IF n = x.lots THEN {} ELSE {y})
    BY DEF LessTaken
  <2> HIDE DEF y
  <2> QED
    BY <1>2, <1>3, <2>1 DEF OwnAsks
<1> HIDE DEF y
<1>5. book' \subseteq AskType /\ IsFiniteSet(book') /\ NumbersApart(book')
  <2>1. IsFiniteSet(book \ {x})
    BY FS_RemoveElement DEF BookInv
  <2>2. book' = book \ {x} \/ book' = (book \ {x}) \cup {y}
    BY <1>3
  <2>3. IsFiniteSet((book \ {x}) \cup {y})
    BY <2>1, FS_AddElement
  <2>4. IsFiniteSet(book')
    BY <2>1, <2>2, <2>3
  <2> QED
    BY <1>2, <1>3, <2>4 DEF BookInv, NumbersApart
<1>6. LotsIn(OwnAsks(x.who)') + n = LotsIn(OwnAsks(x.who)) /\ LotsIn(OwnAsks(x.who)) \in Nat
  <2>1. x \in OwnAsks(x.who)
    BY DEF OwnAsks
  <2> QED
    BY <1>1, <1>4, <2>1, OwnRead, TakenIsLess
<1>7. /\ held[x.who] \in Nat /\ sold[x.who] \in Nat /\ LotsIn(OwnAsks(x.who)) <= held[x.who]
      /\ n <= held[x.who]
  <2>1. x \in OwnAsks(x.who) /\ {x} \in SUBSET OwnAsks(x.who)
    BY DEF OwnAsks
  <2>2. LotsIn({} \cup {x}) = LotsIn({}) + x.lots
    BY <1>1, FS_EmptySet, LotsOfMore
  <2>3. LotsIn({x}) = x.lots
    BY <1>1, <2>2, LotsOfNone
  <2>4. LotsIn({x}) <= LotsIn(OwnAsks(x.who))
    BY <1>1, <2>1, OwnRead, LotsOfPart
  <2>5. held[x.who] \in Nat /\ sold[x.who] \in Nat /\ LotsIn(OwnAsks(x.who)) <= held[x.who]
    BY <1>1 DEF BookInv
  <2> QED
    BY <1>1, <1>6, <2>3, <2>4, <2>5
<1>8. held' \in [Quoters -> Nat] /\ sold' \in [Quoters -> Nat] /\ purse' \in [Quoters -> Nat]
  BY <1>1, <1>7 DEF BookInv
<1>9. ASSUME NEW v \in Quoters PROVE LotsIn(OwnAsks(v)') <= held'[v]
  <2>1. CASE v = x.who
    <3>1. held'[v] = held[x.who] - n
      BY <1>1, <2>1 DEF BookInv
    <3>2. LotsIn(OwnAsks(v)') = LotsIn(OwnAsks(x.who)')
      BY <2>1
    <3>3. LotsIn(OwnAsks(x.who)') \in Nat
      <4>1. OwnAsks(x.who)' \in SUBSET AskType /\ OwnAsks(x.who)' \in SUBSET book'
        BY <1>5 DEF OwnAsks
      <4> QED
        BY <1>5, <4>1, FS_Subset, LotsOfPart
    <3> QED
      BY <1>6, <1>7, <3>1, <3>2, <3>3
  <2>2. CASE v # x.who
    <3>1. held'[v] = held[v] /\ OwnAsks(v)' = OwnAsks(v)
      BY <1>4, <2>2 DEF BookInv
    <3> QED
      BY <3>1 DEF BookInv
  <2> QED
    BY <2>1, <2>2
<1>10. held'["vault"] + sold'["vault"] = held["vault"] + sold["vault"]
  <2>1. /\ held'["vault"] = IF x.who = "vault" THEN held["vault"] - n ELSE held["vault"]
        /\ sold'["vault"] = IF x.who = "vault" THEN sold["vault"] + n ELSE sold["vault"]
        /\ held["vault"] \in Nat /\ sold["vault"] \in Nat
    BY <1>1 DEF BookInv, Quoters
  <2> QED
    BY <2>1
<1>11. AskMinimum <= LotsPerSeries /\ held["vault"] + sold["vault"] <= VaultCap
  BY DEF BookInv
<1> QED
  BY <1>4, <1>5, <1>8, <1>9, <1>10, <1>11 DEF BookInv

\* There is nothing on the book at the start.
LEMMA QuotingStart == QuotingInit => QuotingInv
<1> SUFFICES ASSUME QuotingInit PROVE QuotingInv
  OBVIOUS
<1>1. NoPost \in PostType /\ NoPost.lots <= LotsPerSeries
  BY QuotingConstants DEF NoPost, PostType
<1>2. Between \in LegType /\ Between.at = "over" /\ Between.todo = {} /\ Between.clean = FALSE
      /\ Between.post = NoPost
  BY <1>1 DEF Between, LegType, Sights
<1>3. /\ book = {} /\ held = [w \in Quoters |-> 0] /\ sold = [w \in Quoters |-> 0]
      /\ purse \in [Quoters -> Nat] /\ leg = Between /\ late = {}
  BY QuotingConstants DEF QuotingInit
<1>4. BookInv
  <2>1. \A w \in Quoters : OwnAsks(w) = {}
    BY <1>3 DEF OwnAsks
  <2>2. held["vault"] = 0 /\ sold["vault"] = 0 /\ VaultCap \in Nat
    BY <1>3, QuotingConstants DEF Quoters
  <2> QED
    BY <1>3, <2>1, <2>2, LotsOfNone, FS_EmptySet DEF BookInv, NumbersApart
<1>5. LegInv
  BY <1>1, <1>2, <1>3, FS_EmptySet DEF LegInv
<1> QED
  BY <1>2, <1>3, <1>4, <1>5 DEF QuotingInv, LittleLeft

\* The asks left are fewer, in a leg that is at the same level and as clean.
LEMMA LittleOfLess ==
  ASSUME QuotingInv, leg.at # "reads",
         leg'.clean => leg.clean, leg'.sight = leg.sight, leg'.who = leg.who,
         leg'.quoted = leg.quoted, LeftCheap' \in SUBSET LeftCheap
  PROVE  LittleLeft'
<1>1. leg.who \in Quoters \cup {"nobody"}
  BY DEF QuotingInv, LegInv, LegType
<1>2. LeftCheap \in SUBSET AskType /\ IsFiniteSet(LeftCheap)
  <2>1. LeftCheap \in SUBSET book /\ book \in SUBSET AskType /\ IsFiniteSet(book)
    BY DEF LeftCheap, OwnAsks, QuotingInv, BookInv
  <2> QED
    BY <2>1, FS_Subset
<1>3. /\ LotsIn(LeftCheap') \in Nat /\ LotsIn(LeftCheap) \in Nat
      /\ LotsIn(LeftCheap') <= LotsIn(LeftCheap)
  BY <1>2, LotsOfPart
<1>4. AskMinimum \in Nat
  BY QuotingConstants
<1> QED
  BY <1>3, <1>4 DEF QuotingInv, LittleLeft

\* Between two legs, and before a leg has read, there is nothing to say.
LEMMA NextLegKeeps ==
  ASSUME QuotingInv,
         \/ \E level \in Levels, sight \in Sights, quotable \in BOOLEAN :
              BeginPass(level, sight, quotable)
         \/ NextLeg
  PROVE  QuotingInv'
<1>1. NoPost \in PostType /\ NoPost.lots <= LotsPerSeries
  BY QuotingConstants DEF NoPost, PostType
<1>2. Between \in LegType /\ Between.at = "over" /\ Between.todo = {} /\ Between.clean = FALSE
      /\ Between.post = NoPost
  BY <1>1 DEF Between, LegType, Sights
<1>3. leg \in LegType /\ leg.sight \in Sights
  BY DEF QuotingInv, LegInv, LegType
<1>4. UNCHANGED <<book, held, sold, purse, late>>
  BY DEF BeginPass, NextLeg, onChain
<1>5. ASSUME NEW level \in Levels, NEW sight \in Sights, NEW quotable \in BOOLEAN,
             BeginPass(level, sight, quotable)
      PROVE  /\ leg' \in LegType /\ leg'.at = "reads" /\ leg'.todo = {}
             /\ leg'.post.lots <= LotsPerSeries /\ leg'.who \in Quoters
  <2>1. leg' = [Between EXCEPT !.who = "treasury", !.at = "reads", !.level = level,
                               !.sight = sight, !.quoted = quotable]
    BY <1>5 DEF BeginPass
  <2>2. level \in Nat
    BY QuotingConstants
  <2> QED
    BY <1>1, <1>2, <2>1, <2>2 DEF LegType, Quoters
<1>6. CASE NextLeg
  <2>1. leg.at = "over" /\ leg.todo = {} /\ leg.post.lots <= LotsPerSeries
    BY <1>6 DEF NextLeg, QuotingInv, LegInv
  <2>2. CASE leg' = [leg EXCEPT !.who = "vault", !.at = "reads"]
    <3>1. /\ leg' \in LegType /\ leg'.at = "reads" /\ leg'.todo = {}
          /\ leg'.post.lots <= LotsPerSeries /\ leg'.who \in Quoters
      BY <1>3, <2>1, <2>2 DEF LegType, Quoters
    <3> QED
      BY <1>4, <3>1, FS_EmptySet DEF QuotingInv, BookInv, LegInv, LittleLeft, OwnAsks
  <2>3. CASE leg' = [Between EXCEPT !.sight = leg.sight]
    <3>1. /\ leg' \in LegType /\ leg'.at = "over" /\ leg'.todo = {}
          /\ leg'.post.lots <= LotsPerSeries /\ leg'.clean = FALSE
      BY <1>1, <1>2, <1>3, <2>3 DEF LegType
    <3> QED
      BY <1>4, <3>1, FS_EmptySet DEF QuotingInv, BookInv, LegInv, LittleLeft, OwnAsks
  <2> QED
    BY <1>6, <2>2, <2>3 DEF NextLeg
<1>7. ASSUME NEW level \in Levels, NEW sight \in Sights, NEW quotable \in BOOLEAN,
             BeginPass(level, sight, quotable)
      PROVE  QuotingInv'
  BY <1>4, <1>5, <1>7, FS_EmptySet DEF QuotingInv, BookInv, LegInv, LittleLeft, OwnAsks
<1> QED
  BY <1>6, <1>7

\* What is not touched keeps the book right.
LEMMA BookStays == ASSUME BookInv, UNCHANGED onChain PROVE BookInv' /\ \A w : OwnAsks(w)' = OwnAsks(w)
  BY DEF BookInv, OwnAsks, onChain

\* A leg reads its asks and makes its plan.
LEMMA ReadBookKeeps ==
  ASSUME QuotingInv, NEW funded \in BOOLEAN, NEW paused \in BOOLEAN, ReadBook(funded, paused)
  PROVE  QuotingInv'
<1> DEFINE own == OwnAsks(leg.who)
           plan == IF leg.who = "treasury"
                     THEN TreasuryPlan(own, leg.level, leg.sight, funded, paused)
                     ELSE VaultPlan(own, leg.level, paused)
<1>1. /\ leg.at = "reads" /\ UNCHANGED onChain /\ late' = late
      /\ leg' = [leg EXCEPT !.at = "sends", !.todo = plan.todo, !.post = plan.post,
                            !.gives = plan.gives, !.clean = TRUE]
  BY DEF ReadBook
<1>2. /\ leg \in LegType /\ leg.who \in Quoters /\ leg.level \in Nat /\ leg.sight \in Sights
      /\ BookInv /\ LegInv
  BY <1>1 DEF QuotingInv, LegInv, LegType
<1>3. /\ Sound(plan, own, leg.level)
      /\ leg.sight = "fine" /\ (leg.who = "treasury" => leg.quoted)
           => LotsIn(Cheap(own, leg.level, plan.todo)) < AskMinimum
  <2>1. CASE leg.who = "treasury"
    <3>1. own = OwnAsks("treasury")
          /\ plan = TreasuryPlan(own, leg.level, leg.sight, funded, paused)
      BY <2>1
    <3> HIDE DEF own, plan
    <3> QED
      BY <1>2, <2>1, <3>1, TreasurySound
  <2>2. CASE leg.who # "treasury"
    <3>1. own = OwnAsks("vault") /\ plan = VaultPlan(own, leg.level, paused)
      BY <1>2, <2>2 DEF Quoters
    <3> HIDE DEF own, plan
    <3> QED
      BY <1>2, <2>2, <3>1, VaultSound
  <2> QED
    BY <2>1, <2>2
<1>4. own \in SUBSET AskType /\ IsFiniteSet(own)
  BY <1>2, OwnRead
<1> HIDE DEF plan
<1>5. /\ plan.todo \in SUBSET Nat /\ IsFiniteSet(plan.todo) /\ plan.post \in PostType
      /\ plan.post.lots <= LotsPerSeries /\ plan.gives \in BOOLEAN
      /\ plan.post # NoPost => plan.post.price = leg.level
  <2> HIDE DEF own
  <2>1. {a.seq : a \in own} \in SUBSET Nat /\ IsFiniteSet({a.seq : a \in own})
    BY <1>4, NumbersCounted DEF AskType
  <2>2. IsFiniteSet({})
    BY FS_EmptySet
  <2>3. plan.todo = {} \/ plan.todo = {a.seq : a \in own}
    BY <1>3 DEF Sound
  <2> QED
    BY <1>3, <2>1, <2>2, <2>3 DEF Sound
<1>6. /\ leg'.at = "sends" /\ leg'.todo = plan.todo /\ leg'.post = plan.post
      /\ leg'.who = leg.who /\ leg'.level = leg.level /\ leg'.sight = leg.sight
      /\ leg'.quoted = leg.quoted /\ leg' \in LegType
  <2>1. leg'.at = "sends" /\ leg'.todo = plan.todo /\ leg'.post = plan.post
    BY <1>1, <1>2 DEF LegType
  <2>2. leg'.who = leg.who /\ leg'.level = leg.level /\ leg'.sight = leg.sight
    BY <1>1, <1>2 DEF LegType
  <2>3. leg'.quoted = leg.quoted
    BY <1>1, <1>2 DEF LegType
  <2>4. leg' \in LegType
    BY <1>1, <1>2, <1>5 DEF LegType
  <2> QED
    BY <2>1, <2>2, <2>3, <2>4
<1>7. BookInv' /\ OwnAsks(leg.who)' = own
  BY <1>1, <1>2, BookStays
<1>8. LegInv'
  BY <1>1, <1>2, <1>5, <1>6 DEF LegInv
<1>9. LeftCheap' = Cheap(own, leg.level, plan.todo)
  BY <1>6, <1>7 DEF LeftCheap, Cheap, OwnAsks
<1>10. LittleLeft'
  BY <1>3, <1>6, <1>9 DEF LittleLeft
<1> QED
  BY <1>7, <1>8, <1>10 DEF QuotingInv

\* A cancel lands and is answered.
LEMMA CancelLandsKeeps ==
  ASSUME QuotingInv, NEW k \in leg.todo, CancelLands(k)
  PROVE  QuotingInv'
<1>1. /\ leg.at = "sends" /\ leg' = [leg EXCEPT !.todo = @ \ {k}] /\ late' = late
      /\ Cancelled(leg.who, k)
  BY DEF CancelLands
<1>2. /\ leg \in LegType /\ leg.who \in Quoters /\ BookInv /\ LegInv
  BY <1>1 DEF QuotingInv, LegInv
<1>3. BookInv' /\ book' = {a \in book : ~(a.who = leg.who /\ a.seq = k)}
  BY <1>1, <1>2, CancelKeepsBook
<1>4. /\ leg' \in LegType /\ leg'.todo = leg.todo \ {k}
      /\ leg'.at = leg.at /\ leg'.post = leg.post /\ leg'.who = leg.who
      /\ leg'.level = leg.level /\ leg'.sight = leg.sight
      /\ leg'.quoted = leg.quoted /\ leg'.clean = leg.clean
  BY <1>1, <1>2 DEF LegType
<1>5. LegInv'
  <2>1. IsFiniteSet(leg'.todo)
    BY <1>2, <1>4, FS_RemoveElement DEF LegInv
  <2> QED
    BY <1>1, <1>2, <1>4, <2>1 DEF LegInv
<1>6. LeftCheap' \in SUBSET LeftCheap
  BY <1>3, <1>4 DEF LeftCheap, OwnAsks
<1>7. LittleLeft'
  BY <1>1, <1>4, <1>6, LittleOfLess
<1> QED
  BY <1>3, <1>5, <1>7 DEF QuotingInv

\* After a send that failed there is nothing to say.
LEMMA Unclean ==
  ASSUME BookInv', LegInv', leg'.clean = FALSE
  PROVE  QuotingInv'
  BY DEF QuotingInv, LittleLeft

\* A cancel reported as failed, whatever became of it.
LEMMA CancelFailsKeeps ==
  ASSUME QuotingInv, NEW k \in leg.todo, CancelFails(k)
  PROVE  QuotingInv'
<1>1. leg.at = "sends" /\ GivesUpOn(k)
  BY DEF CancelFails
<1>2. /\ leg \in LegType /\ leg.who \in Quoters /\ BookInv /\ LegInv /\ k \in Nat
  BY <1>1 DEF QuotingInv, LegInv, LegType
<1>3. NoPost \in PostType /\ NoPost.lots <= LotsPerSeries
  BY QuotingConstants DEF NoPost, PostType
<1>4. /\ leg' \in LegType /\ IsFiniteSet(leg'.todo) /\ leg'.post.lots <= LotsPerSeries
      /\ leg'.clean = FALSE
      /\ leg'.at # "over" => leg'.who \in Quoters
      /\ leg'.at # "sends" => leg'.todo = {}
      /\ leg'.at = "sends" /\ leg'.post # NoPost => leg'.post.price = leg'.level
  <2>1. CASE leg' = [leg EXCEPT !.at = "over", !.todo = {}, !.post = NoPost, !.clean = FALSE]
    <3>1. /\ leg'.at = "over" /\ leg'.todo = {} /\ leg'.post = NoPost /\ leg'.clean = FALSE
          /\ leg' \in LegType
      BY <1>2, <1>3, <2>1 DEF LegType
    <3> QED
      BY <1>3, <3>1, FS_EmptySet
  <2>2. CASE leg' = [leg EXCEPT !.todo = @ \ {k}, !.clean = FALSE]
    <3>1. /\ leg'.at = leg.at /\ leg'.todo = leg.todo \ {k} /\ leg'.post = leg.post
          /\ leg'.clean = FALSE /\ leg'.who = leg.who /\ leg'.level = leg.level
          /\ leg' \in LegType
      BY <1>2, <2>2 DEF LegType
    <3>2. IsFiniteSet(leg'.todo)
      BY <1>2, <3>1, FS_RemoveElement DEF LegInv
    <3> QED
      BY <1>1, <1>2, <3>1, <3>2 DEF LegInv
  <2> QED
    BY <1>1, <2>1, <2>2 DEF GivesUpOn
<1>5. BookInv'
  BY <1>2, BookStays, CancelKeepsBook DEF CancelFails
<1>6. late' = late \/ late' = {[who |-> leg.who, seq |-> k, post |-> NoPost]}
  BY DEF CancelFails
<1>7. late' \subseteq SendType /\ IsFiniteSet(late') /\ \A t \in late' : t.post.lots <= LotsPerSeries
  <2> DEFINE t == [who |-> leg.who, seq |-> k, post |-> NoPost]
  <2>1. t \in SendType /\ t.post = NoPost
    BY <1>2, <1>3 DEF SendType
  <2>2. IsFiniteSet({t})
    BY FS_Singleton
  <2> HIDE DEF t
  <2>3. late' = late \/ late' = {t}
    BY <1>6 DEF t
  <2> QED
    BY <1>2, <1>3, <2>1, <2>2, <2>3 DEF LegInv
<1> QED
  BY <1>4, <1>5, <1>7, Unclean DEF LegInv

\* A post that lands adds an ask at the model's price.
LEMMA PostLandsKeeps == ASSUME QuotingInv, PostLands PROVE QuotingInv'
<1>1. /\ leg.at = "sends" /\ leg.todo = {} /\ leg.post # NoPost /\ Quoted(leg.who, leg.post)
      /\ leg' = [leg EXCEPT !.post = NoPost] /\ late' = late
  BY DEF PostLands
<1>2. /\ leg \in LegType /\ leg.who \in Quoters /\ BookInv /\ LegInv /\ leg.level \in Nat
      /\ leg.post \in PostType /\ leg.post.lots <= LotsPerSeries /\ leg.post.price = leg.level
  BY <1>1 DEF QuotingInv, LegInv, LegType
<1>3. /\ BookInv'
      /\ \E x \in AskType : book' = book \cup {x} /\ x.who = leg.who /\ x.price = leg.post.price
  BY <1>1, <1>2, QuoteKeepsBook
<1>4. NoPost \in PostType /\ NoPost.lots <= LotsPerSeries
  BY QuotingConstants DEF NoPost, PostType
<1>5. /\ leg' \in LegType /\ leg'.todo = leg.todo
      /\ leg'.at = leg.at /\ leg'.post = NoPost /\ leg'.who = leg.who
      /\ leg'.level = leg.level /\ leg'.sight = leg.sight
      /\ leg'.quoted = leg.quoted /\ leg'.clean = leg.clean
  BY <1>1, <1>2, <1>4 DEF LegType
<1>6. LegInv'
  BY <1>1, <1>2, <1>4, <1>5 DEF LegInv
<1>7. LeftCheap' \in SUBSET LeftCheap
  <2>1. PICK x \in AskType : book' = book \cup {x} /\ x.price = leg.level
    BY <1>2, <1>3
  <2>2. ~(x.price + Tolerance < leg.level)
    BY <1>2, <2>1, QuotingConstants
  <2> QED
    BY <1>5, <2>1, <2>2 DEF LeftCheap, OwnAsks
<1>8. LittleLeft'
  BY <1>1, <1>5, <1>7, LittleOfLess
<1> QED
  BY <1>3, <1>6, <1>8 DEF QuotingInv

\* A post reported as failed, whatever became of it.
LEMMA PostFailsKeeps == ASSUME QuotingInv, PostFails PROVE QuotingInv'
<1>1. /\ leg.at = "sends" /\ leg.todo = {} /\ leg' = [leg EXCEPT !.post = NoPost, !.clean = FALSE]
  BY DEF PostFails
<1>2. /\ leg \in LegType /\ leg.who \in Quoters /\ BookInv /\ LegInv
      /\ leg.post \in PostType /\ leg.post.lots <= LotsPerSeries
  BY <1>1 DEF QuotingInv, LegInv, LegType
<1>3. NoPost \in PostType /\ NoPost.lots <= LotsPerSeries
  BY QuotingConstants DEF NoPost, PostType
<1>4. /\ leg' \in LegType /\ leg'.todo = leg.todo /\ leg'.at = leg.at /\ leg'.post = NoPost
      /\ leg'.who = leg.who /\ leg'.clean = FALSE
  BY <1>1, <1>2, <1>3 DEF LegType
<1>5. BookInv'
  BY <1>2, BookStays, QuoteKeepsBook DEF PostFails
<1>6. late' = late \/ late' = {[who |-> leg.who, seq |-> 0, post |-> leg.post]}
  BY DEF PostFails
<1>7. late' \subseteq SendType /\ IsFiniteSet(late') /\ \A t \in late' : t.post.lots <= LotsPerSeries
  <2> DEFINE t == [who |-> leg.who, seq |-> 0, post |-> leg.post]
  <2>1. t \in SendType /\ t.post = leg.post
    BY <1>2 DEF SendType
  <2>2. IsFiniteSet({t})
    BY FS_Singleton
  <2> HIDE DEF t
  <2>3. late' = late \/ late' = {t}
    BY <1>6 DEF t
  <2> QED
    BY <1>2, <2>1, <2>2, <2>3 DEF LegInv
<1>8. LegInv'
  BY <1>1, <1>2, <1>3, <1>4, <1>7 DEF LegInv
<1> QED
  BY <1>4, <1>5, <1>8, Unclean

\* With nothing left to send a leg is over.
LEMMA EndLegKeeps == ASSUME QuotingInv, EndLeg PROVE QuotingInv'
<1>1. /\ leg.at = "sends" /\ leg.todo = {} /\ leg' = [leg EXCEPT !.at = "over"] /\ late' = late
      /\ UNCHANGED onChain
  BY DEF EndLeg
<1>2. /\ leg \in LegType /\ BookInv /\ LegInv
  BY DEF QuotingInv, LegInv
<1>3. /\ leg' \in LegType /\ leg'.todo = leg.todo /\ leg'.at = "over" /\ leg'.post = leg.post
      /\ leg'.who = leg.who /\ leg'.level = leg.level /\ leg'.sight = leg.sight
      /\ leg'.quoted = leg.quoted /\ leg'.clean = leg.clean
  BY <1>1, <1>2 DEF LegType
<1>4. BookInv' /\ OwnAsks(leg.who)' = OwnAsks(leg.who)
  BY <1>1, <1>2, BookStays
<1>5. LegInv'
  BY <1>1, <1>2, <1>3 DEF LegInv
<1>6. LeftCheap' \in SUBSET LeftCheap
  BY <1>3, <1>4 DEF LeftCheap, OwnAsks
<1>7. LittleLeft'
  BY <1>1, <1>3, <1>6, LittleOfLess
<1> QED
  BY <1>4, <1>5, <1>7 DEF QuotingInv

\* A send given up long ago.
LEMMA LateSendKeeps == ASSUME QuotingInv, NEW t \in late, LateSend(t) PROVE QuotingInv'
<1>1. late' = {} /\ leg' = [leg EXCEPT !.clean = FALSE]
  BY DEF LateSend
<1>2. /\ leg \in LegType /\ BookInv /\ LegInv /\ t.who \in Quoters /\ t.post \in PostType
      /\ t.post.lots <= LotsPerSeries
  BY DEF QuotingInv, LegInv, SendType
<1>3. /\ leg' \in LegType /\ leg'.todo = leg.todo /\ leg'.at = leg.at /\ leg'.post = leg.post
      /\ leg'.who = leg.who /\ leg'.level = leg.level /\ leg'.clean = FALSE
  BY <1>1, <1>2 DEF LegType
<1>4. BookInv'
  BY <1>2, BookStays, CancelKeepsBook, QuoteKeepsBook DEF LateSend
<1>5. LegInv'
  BY <1>1, <1>2, <1>3, FS_EmptySet DEF LegInv
<1> QED
  BY <1>3, <1>4, <1>5, Unclean

\* A buyer's fill.
LEMMA FillKeeps == ASSUME QuotingInv, NEW n \in Nat, Fill(n) PROVE QuotingInv'
<1>1. BookInv /\ LegInv
  BY DEF QuotingInv
<1>2. PICK x \in book :
           /\ n <= x.lots /\ book' = LessTaken(book, x, n)
           /\ held' = [held EXCEPT ![x.who] = @ - n] /\ sold' = [sold EXCEPT ![x.who] = @ + n]
           /\ UNCHANGED <<purse, leg, late>>
  BY <1>1, FillTakes
<1>3. /\ BookInv' /\ OwnAsks(x.who)' = LessTaken(OwnAsks(x.who), x, n)
      /\ \A v \in Quoters \ {x.who} : OwnAsks(v)' = OwnAsks(v)
  BY <1>1, <1>2, FillKeepsBook
<1>4. LegInv'
  BY <1>1, <1>2 DEF LegInv
<1>5. LittleLeft'
  <2>1. x \in AskType /\ x.lots \in Nat
    BY <1>1 DEF BookInv, AskType
  <2>2. /\ LeftCheap \in SUBSET AskType /\ IsFiniteSet(LeftCheap) /\ NumbersApart(LeftCheap)
        /\ \A a \in LeftCheap : a.who = leg.who
    <3>1. LeftCheap \in SUBSET book /\ IsFiniteSet(book)
      BY <1>1 DEF LeftCheap, OwnAsks, BookInv
    <3> QED
      BY <1>1, <3>1, FS_Subset DEF LeftCheap, OwnAsks, BookInv, NumbersApart
  <2>3. LotsIn(LeftCheap) \in Nat /\ AskMinimum \in Nat
    BY <2>2, LotsOfPart, QuotingConstants
  <2>4. CASE x \in LeftCheap
    <3> DEFINE y == [x EXCEPT !.lots = @ - n]
    <3>1. y.who = x.who /\ y.seq = x.seq /\ y.price = x.price
      BY <2>1 DEF AskType
    <3>2. /\ LessTaken(OwnAsks(leg.who), x, n)
               = (OwnAsks(leg.who) \ {x}) \cup (IF n = x.lots THEN {} ELSE {y})
          /\ LessTaken(LeftCheap, x, n)
               = (LeftCheap \ {x}) \cup (IF n = x.lots THEN {} ELSE {y})
      BY DEF LessTaken
    <3> HIDE DEF y
    <3>3. x.who = leg.who /\ leg' = leg
      BY <1>2, <2>2, <2>4
    <3>4. LeftCheap' = LessTaken(LeftCheap, x, n)
      BY <1>3, <2>4, <3>1, <3>2, <3>3 DEF LeftCheap
    <3>5. LotsIn(LessTaken(LeftCheap, x, n)) + n = LotsIn(LeftCheap)
      BY <1>2, <2>2, <2>4, TakenIsLess
    <3>6. LotsIn(LeftCheap') \in Nat
      <4>1. LeftCheap' \in SUBSET book' /\ book' \in SUBSET AskType /\ IsFiniteSet(book')
        BY <1>3 DEF LeftCheap, OwnAsks, BookInv
      <4> QED
        BY <4>1, FS_Subset, LotsOfPart
    <3>7. LotsIn(LeftCheap) < AskMinimum => LotsIn(LeftCheap') < AskMinimum
      BY <2>3, <3>4, <3>5, <3>6
    <3> QED
      BY <3>3, <3>7 DEF QuotingInv, LittleLeft
  <2>5. CASE x \notin LeftCheap
    <3>1. LeftCheap' = LeftCheap
      <4>1. CASE x.who # leg.who
        <5>1. LeftCheap' \in SUBSET LeftCheap /\ LeftCheap \in SUBSET LeftCheap'
          BY <1>2, <2>1, <4>1 DEF LeftCheap, OwnAsks, LessTaken, AskType
        <5> QED
          BY <5>1
      <4>2. CASE x.who = leg.who
        <5> DEFINE y == [x EXCEPT !.lots = @ - n]
        <5>1. y.who = x.who /\ y.seq = x.seq /\ y.price = x.price
          BY <2>1 DEF AskType
        <5>2. LessTaken(OwnAsks(leg.who), x, n)
                 = (OwnAsks(leg.who) \ {x}) \cup (IF n = x.lots THEN {} ELSE {y})
          BY DEF LessTaken
        <5> HIDE DEF y
        <5>3. x \in OwnAsks(leg.who) /\ leg' = leg
          BY <1>2, <4>2 DEF OwnAsks
        <5> QED
          BY <1>3, <2>5, <4>2, <5>1, <5>2, <5>3 DEF LeftCheap
      <4> QED
        BY <4>1, <4>2
    <3> QED
      BY <1>2, <3>1 DEF QuotingInv, LittleLeft
  <2> QED
    BY <2>4, <2>5
<1> QED
  BY <1>3, <1>4, <1>5 DEF QuotingInv

\* For any prices, tolerance, sizes and cap, whatever sends fail or land late and
\* whatever is bought meanwhile: after a leg in which no send failed, what the
\* quoter has on the book below the model is less than the smallest ask.
THEOREM CheapAsksAreDust == QuotingSpec => []CheapIsDust
<1>1. QuotingInv /\ [QuotingNext]_quotingVars => QuotingInv'
  <2> SUFFICES ASSUME QuotingInv, [QuotingNext]_quotingVars PROVE QuotingInv'
    OBVIOUS
  <2>1. CASE QuoterSteps
    BY <2>1, NextLegKeeps, ReadBookKeeps, EndLegKeeps, CancelLandsKeeps, CancelFailsKeeps,
       PostLandsKeeps, PostFailsKeeps DEF QuoterSteps
  <2>2. CASE \E t \in late : LateSend(t)
    BY <2>2, LateSendKeeps
  <2>3. CASE \E n \in 1 .. LotsPerSeries : Fill(n)
    <3>1. 1 .. LotsPerSeries \subseteq Nat
      BY QuotingConstants
    <3> QED
      BY <2>3, <3>1, FillKeeps
  <2>4. CASE UNCHANGED quotingVars
    BY <2>4 DEF quotingVars, QuotingInv, BookInv, LegInv, LittleLeft, LeftCheap, OwnAsks
  <2> QED
    BY <2>1, <2>2, <2>3, <2>4 DEF QuotingNext
<1>2. QuotingInv => CheapIsDust
  <2> SUFFICES ASSUME QuotingInv, NEW w \in Quoters, Whole(w), leg.sight = "fine",
                      w = "treasury" => leg.quoted
               PROVE  LotsIn({a \in OwnAsks(w) : a.price + Tolerance < leg.level}) < AskMinimum
    BY DEF CheapIsDust
  <2>1. leg.todo = {} /\ leg.who = w /\ leg.at = "over" /\ leg.clean
    BY DEF Whole, QuotingInv, LegInv
  <2>2. LeftCheap = {a \in OwnAsks(w) : a.price + Tolerance < leg.level}
    BY <2>1 DEF LeftCheap
  <2> QED
    BY <2>1, <2>2 DEF QuotingInv, LittleLeft
<1> QED
  BY QuotingStart, <1>1, <1>2, PTL DEF QuotingSpec

-----------------------------------------------------------------------------
(* A ticket is honoured: TicketHonoured of Ticket.                         *)

\* An ask of the ladder, the units of one, and the ladder's order.
LadderAsk == [price : Nat \ {0}, units : Nat \ {0}]
Ladders == Seq(LadderAsk)
ByPrice(l) == \A i, j \in 1 .. Len(l) : i < j => l[i].price <= l[j].price
UnitsIn(l) == [i \in 1 .. Len(l) |-> l[i].units]
UpTo(l, k) == SumFunctionOnSet(UnitsIn(l), 1 .. k)

\* The parameters are numbers, and a ladder has asks with a price and units.
LEMMA TicketNumbers ==
  /\ PerLot \in Nat /\ PerLot > 0 /\ WalkLimit \in Nat /\ WalkLimit > 0
  /\ MaxAsks \in Nat /\ MaxAsks > 0 /\ TakerFee \in Nat
  /\ \A n \in AskPrices : n \in Nat /\ n > 0
  /\ \A n \in AskSizes : n \in Nat /\ n > 0
  /\ \A n \in TicketSizes : n \in Nat /\ n > 0
  BY TicketConstants

\* Every place of a ladder holds an ask.
LEMMA LadderAsks ==
  ASSUME NEW l \in Ladders
  PROVE  /\ Len(l) \in Nat /\ l \in Seq(LadderAsk) /\ DOMAIN l = 1 .. Len(l)
         /\ \A i \in 1 .. Len(l) :
              /\ l[i] \in LadderAsk
              /\ l[i].price \in Nat /\ l[i].price > 0 /\ l[i].units \in Nat /\ l[i].units > 0
              /\ UnitsIn(l)[i] = l[i].units
<1>1. Len(l) \in Nat /\ DOMAIN l = 1 .. Len(l) /\ \A i \in 1 .. Len(l) : l[i] \in LadderAsk
  BY ElementOfSeq, LenProperties DEF Ladders
<1> QED
  BY <1>1 DEF Ladders, LadderAsk, UnitsIn

\* The units of the first asks, one by one.
LEMMA UnitsUpTo ==
  ASSUME NEW l \in Ladders
  PROVE  /\ UpTo(l, 0) = 0
         /\ \A k \in 0 .. Len(l) : UpTo(l, k) \in Nat
         /\ \A k \in 1 .. Len(l) : UpTo(l, k) = UpTo(l, k - 1) + l[k].units
<1>1. ASSUME NEW k \in 0 .. Len(l)
      PROVE  IsFiniteSet(1 .. k) /\ NatTerms(UnitsIn(l), 1 .. k)
  <2>1. k \in Nat /\ k <= Len(l) /\ Len(l) \in Nat
    BY LadderAsks
  <2>2. \A i \in 1 .. k : UnitsIn(l)[i] \in Nat
    BY <2>1, LadderAsks
  <2> QED
    BY <2>1, <2>2, Interval DEF NatTerms
<1>2. UpTo(l, 0) = 0
  <2>1. 1 .. 0 = {}
    OBVIOUS
  <2> QED
    BY <2>1, SumOfNone DEF UpTo
<1>3. ASSUME NEW k \in 0 .. Len(l) PROVE UpTo(l, k) \in Nat
  <2> DEFINE S == 1 .. k
  <2>1. IsFiniteSet(S) /\ NatTerms(UnitsIn(l), S)
    BY <1>1
  <2> HIDE DEF S
  <2>2. SumFunctionOnSet(UnitsIn(l), S) \in Nat
    BY <2>1, SumNat
  <2> QED
    BY <2>2 DEF UpTo, S
<1>4. ASSUME NEW k \in 1 .. Len(l) PROVE UpTo(l, k) = UpTo(l, k - 1) + l[k].units
  <2> DEFINE S == 1 .. k - 1
             f == UnitsIn(l)
  <2>0. k \in Nat /\ k > 0 /\ k - 1 \in 0 .. Len(l) /\ Len(l) \in Nat
    BY LadderAsks
  <2>1. IsFiniteSet(S) /\ NatTerms(f, S)
    BY <1>1, <2>0
  <2>2. S \cup {k} = 1 .. k /\ k \notin S
    BY <2>0
  <2>3. f[k] = l[k].units /\ f[k] \in Int
    BY LadderAsks
  <2>4. UpTo(l, k - 1) \in Nat
    BY <1>3, <2>0
  <2> HIDE DEF S, f
  <2>5. SumFunctionOnSet(f, S \cup {k}) = f[k] + SumFunctionOnSet(f, S)
    BY <2>1, <2>2, <2>3, NatTermsAreInts, SumAdd
  <2>6. SumFunctionOnSet(f, S) = UpTo(l, k - 1)
    BY DEF f, S, UpTo
  <2>7. SumFunctionOnSet(f, S \cup {k}) = UpTo(l, k)
    BY <2>2 DEF f, UpTo
  <2> QED
    BY <2>3, <2>4, <2>5, <2>6, <2>7
<1> QED
  BY <1>2, <1>3, <1>4

\* What is still wanted of a size after the first k asks.
Wanted(l, size, k) == IF UpTo(l, k) >= size THEN 0 ELSE size - UpTo(l, k)

\* The page's recursion computes it.
LEMMA StillWantedIs ==
  ASSUME NEW l \in Ladders, NEW size \in Nat
  PROVE  \A k \in 0 .. Len(l) : StillWanted(l, size)[k] = Wanted(l, size, k)
<1> DEFINE n == Len(l)
           g == [k \in 0 .. n |-> Wanted(l, size, k)]
           Solves(h) == h = [k \in 0 .. n |->
                               IF k = 0 THEN size ELSE h[k - 1] - TakeFrom(l[k], h[k - 1])]
           left == StillWanted(l, size)
<1>1. n \in Nat
  BY LadderAsks
<1>2. ASSUME NEW k \in 0 .. n
      PROVE  Wanted(l, size, k) =
               IF k = 0 THEN size
               ELSE Wanted(l, size, k - 1) - TakeFrom(l[k], Wanted(l, size, k - 1))
  <2>1. CASE k = 0
    BY <2>1, UnitsUpTo DEF Wanted
  <2>2. CASE k # 0
    <3>1. k \in 1 .. n /\ k - 1 \in 0 .. n
      BY <1>1, <2>2
    <3>2. /\ UpTo(l, k) = UpTo(l, k - 1) + l[k].units
          /\ UpTo(l, k - 1) \in Nat /\ l[k].units \in Nat
      BY <3>1, UnitsUpTo, LadderAsks
    <3> QED
      BY <2>2, <3>2 DEF Wanted, TakeFrom
  <2> QED
    BY <2>1, <2>2
<1>3. \A k \in 0 .. n : k # 0 => k - 1 \in 0 .. n
  BY <1>1
<1>4. Solves(g)
  BY <1>2, <1>3
<1>5. Solves(left)
  <2>1. left = CHOOSE h : Solves(h)
    BY DEF StillWanted
  <2> HIDE DEF Solves, g, left
  <2> QED
    BY <1>4, <2>1
<1>6. \A k \in Nat : k \in 0 .. n => left[k] = g[k]
  <2> DEFINE N == {k \in Nat : k \in 0 .. n => left[k] = g[k]}
  <2>1. 0 \in N
    BY <1>1, <1>4, <1>5
  <2>2. ASSUME NEW k \in N PROVE k + 1 \in N
    <3> SUFFICES ASSUME k + 1 \in 0 .. n PROVE left[k + 1] = g[k + 1]
      OBVIOUS
    <3>1. k \in 0 .. n /\ left[k] = g[k] /\ k + 1 # 0 /\ (k + 1) - 1 = k
      BY <1>1
    <3>2. left[k + 1] = left[k] - TakeFrom(l[k + 1], left[k])
      BY <1>5, <3>1
    <3>3. g[k + 1] = g[k] - TakeFrom(l[k + 1], g[k])
      BY <1>4, <3>1
    <3> QED
      BY <3>1, <3>2, <3>3
  <2>3. N \in SUBSET Nat
    OBVIOUS
  <2> HIDE DEF N
  <2>4. N = Nat
    BY <2>1, <2>2, <2>3, EveryNat
  <2> QED
    BY <2>4 DEF N
<1>7. \A k \in 0 .. n : k \in Nat
  BY <1>1
<1> QED
  BY <1>6, <1>7

\* What the page takes of each ask when it walks the first n.
PageTakes(l, size, n) ==
  [i \in 1 .. Len(l) |->
     IF i <= n THEN Wanted(l, size, i - 1) - Wanted(l, size, i) ELSE 0]
PremiumsOn(l, t) == [i \in 1 .. Len(l) |-> PremiumFor(t[i], l[i].price)]
CostsOn(l, t) == [i \in 1 .. Len(l) |-> t[i] * l[i].price]

\* A part of the units of each ask.
Fills(l, t) == /\ DOMAIN t = 1 .. Len(l)
               /\ \A i \in 1 .. Len(l) : t[i] \in Nat /\ t[i] <= l[i].units

\* It takes the asks in turn, each whole or what is still wanted of it.
LEMMA PageFills ==
  ASSUME NEW l \in Ladders, NEW size \in Nat, NEW n \in 0 .. Len(l),
         NEW t, t = PageTakes(l, size, n)
  PROVE  /\ Fills(l, t)
         /\ \A i \in 1 .. Len(l) :
              t[i] = IF i > n \/ UpTo(l, i - 1) >= size
                       THEN 0 ELSE TakeFrom(l[i], size - UpTo(l, i - 1))
         /\ \A k \in 0 .. Len(l) : Wanted(l, size, k) \in 0 .. size
<1>1. Len(l) \in Nat /\ n \in Nat
  BY LadderAsks
<1>2. ASSUME NEW k \in 0 .. Len(l) PROVE Wanted(l, size, k) \in 0 .. size
  BY UnitsUpTo DEF Wanted
<1>3. ASSUME NEW i \in 1 .. Len(l)
      PROVE  /\ t[i] = IF i > n \/ UpTo(l, i - 1) >= size
                         THEN 0 ELSE TakeFrom(l[i], size - UpTo(l, i - 1))
             /\ t[i] \in Nat /\ t[i] <= l[i].units
  <2>1. i \in Nat /\ i - 1 \in 0 .. Len(l)
    BY <1>1
  <2>2. /\ UpTo(l, i) = UpTo(l, i - 1) + l[i].units
        /\ UpTo(l, i - 1) \in Nat /\ l[i].units \in Nat
    BY <2>1, UnitsUpTo, LadderAsks
  <2>3. t[i] = IF i <= n THEN Wanted(l, size, i - 1) - Wanted(l, size, i) ELSE 0
    BY DEF PageTakes
  <2> QED
    BY <1>1, <2>1, <2>2, <2>3 DEF Wanted, TakeFrom
<1>4. DOMAIN t = 1 .. Len(l)
  BY DEF PageTakes
<1> QED
  BY <1>2, <1>3, <1>4 DEF Fills

\* The terms of a fill are numbers over any of the first asks.
LEMMA FillTerms ==
  ASSUME NEW l \in Ladders, NEW t, Fills(l, t), NEW k \in 0 .. Len(l)
  PROVE  /\ IsFiniteSet(1 .. k) /\ NatTerms(t, 1 .. k)
         /\ NatTerms(CostsOn(l, t), 1 .. k) /\ NatTerms(PremiumsOn(l, t), 1 .. k)
<1>1. k \in Nat /\ Len(l) \in Nat /\ k <= Len(l) /\ PerLot \in Nat /\ PerLot > 0
  BY LadderAsks, TicketNumbers
<1>2. ASSUME NEW i \in 1 .. k
      PROVE t[i] \in Nat /\ CostsOn(l, t)[i] \in Nat /\ PremiumsOn(l, t)[i] \in Nat
  <2>1. i \in 1 .. Len(l)
    BY <1>1
  <2>2. t[i] \in Nat /\ l[i].price \in Nat
    BY <2>1, LadderAsks DEF Fills
  <2>3. t[i] * l[i].price \in Nat
    BY <2>2, MulNat
  <2>4. (t[i] * l[i].price) \div PerLot \in Nat
    BY <1>1, <2>3, DivBounds
  <2> QED
    BY <2>1, <2>2, <2>3, <2>4 DEF CostsOn, PremiumsOn, PremiumFor
<1> QED
  BY <1>1, <1>2, Interval DEF NatTerms

\* What it takes adds up to what is no longer wanted.
LEMMA PageFilled ==
  ASSUME NEW l \in Ladders, NEW size \in Nat, NEW n \in 0 .. Len(l),
         NEW t, t = PageTakes(l, size, n)
  PROVE  SumFunctionOnSet(t, 1 .. Len(l)) = size - Wanted(l, size, n)
<1> DEFINE Stop(k) == IF k <= n THEN k ELSE n
           Right(k) == SumFunctionOnSet(t, 1 .. k) = size - Wanted(l, size, Stop(k))
           N == {k \in Nat : k <= Len(l) => Right(k)}
<1>1. Len(l) \in Nat /\ n \in Nat /\ n <= Len(l) /\ Fills(l, t)
  BY LadderAsks, PageFills
<1>2. \A k \in 0 .. Len(l) : Wanted(l, size, k) \in 0 .. size
  BY PageFills
<1>3. 0 \in N
  <2>1. 1 .. 0 = {} /\ Stop(0) = 0
    BY <1>1
  <2>2. Wanted(l, size, 0) = size
    BY UnitsUpTo DEF Wanted
  <2> QED
    BY <2>1, <2>2, SumOfNone
<1>4. ASSUME NEW k \in N PROVE k + 1 \in N
  <2> SUFFICES ASSUME k + 1 <= Len(l) PROVE Right(k + 1)
    OBVIOUS
  <2> DEFINE S == 1 .. k
  <2>1. k \in Nat /\ k \in 0 .. Len(l) /\ k + 1 \in 1 .. Len(l) /\ Right(k)
    BY <1>1
  <2>2. IsFiniteSet(S) /\ NatTerms(t, S) /\ t[k + 1] \in Nat
    BY <1>1, <2>1, FillTerms DEF Fills
  <2>3. S \cup {k + 1} = 1 .. k + 1 /\ k + 1 \notin S
    BY <2>1
  <2> HIDE DEF S
  <2>4. SumFunctionOnSet(t, S \cup {k + 1}) = t[k + 1] + SumFunctionOnSet(t, S)
    BY <2>2, <2>3, NatTermsAreInts, SumAdd
  <2>5. SumFunctionOnSet(t, S) = size - Wanted(l, size, Stop(k))
    BY <2>1 DEF S
  <2>6. t[k + 1] = IF k + 1 <= n THEN Wanted(l, size, k) - Wanted(l, size, k + 1) ELSE 0
    <3>1. (k + 1) - 1 = k
      BY <2>1
    <3> QED
      BY <2>1, <3>1 DEF PageTakes
  <2>7. /\ Stop(k) \in 0 .. Len(l) /\ Stop(k + 1) \in 0 .. Len(l)
        /\ k + 1 <= n => Stop(k) = k /\ Stop(k + 1) = k + 1
        /\ ~(k + 1 <= n) => Stop(k) = n /\ Stop(k + 1) = n
    BY <1>1, <2>1
  <2>8. Wanted(l, size, Stop(k)) \in 0 .. size /\ Wanted(l, size, Stop(k + 1)) \in 0 .. size
    BY <1>2, <2>7
  <2> DEFINE w == Wanted(l, size, Stop(k))
             v == Wanted(l, size, Stop(k + 1))
             x == SumFunctionOnSet(t, S)
             y == SumFunctionOnSet(t, 1 .. k + 1)
  <2> HIDE DEF Stop
  <2>9. y = t[k + 1] + x
    BY <2>3, <2>4
  <2>10. t[k + 1] = w - v
    BY <2>6, <2>7, <2>8
  <2>11. x = size - w /\ w \in Int /\ v \in Int /\ size \in Int
    BY <2>5, <2>8
  <2> HIDE DEF x, y, w, v
  <2>12. y = size - v
    BY <2>9, <2>10, <2>11
  <2> QED
    BY <2>12 DEF y, v
<1>5. N \in SUBSET Nat
  OBVIOUS
<1> HIDE DEF N
<1>6. N = Nat
  BY <1>3, <1>4, <1>5, EveryNat
<1>7. Right(Len(l))
  BY <1>1, <1>6 DEF N
<1>8. Stop(Len(l)) = n
  BY <1>1
<1> QED
  BY <1>7, <1>8

\* The page's walk in these terms.
LEMMA WalkedIs ==
  ASSUME NEW l \in Ladders, NEW size \in Nat, NEW n \in 0 .. Len(l),
         NEW t, t = PageTakes(l, size, n)
  PROVE  /\ Walked(l, size, n).filled = SumFunctionOnSet(t, 1 .. Len(l))
         /\ Walked(l, size, n).premium = SumFunctionOnSet(PremiumsOn(l, t), 1 .. Len(l))
<1> DEFINE left == StillWanted(l, size)
           f == [k \in 1 .. n |-> PremiumFor(left[k - 1] - left[k], l[k].price)]
           g == PremiumsOn(l, t)
           A == 1 .. n
           B == n + 1 .. Len(l)
           S == 1 .. Len(l)
<1>1. Len(l) \in Nat /\ n \in Nat /\ n <= Len(l) /\ Fills(l, t)
  BY LadderAsks, PageFills
<1>2. Walked(l, size, n) = [filled |-> size - left[n], premium |-> SumFunctionOnSet(f, A)]
  <2>1. DOMAIN f = A
    OBVIOUS
  <2>2. Walked(l, size, n) = [filled |-> size - left[n], premium |-> SumFunction(f)]
    BY DEF Walked
  <2> HIDE DEF f, A, left
  <2> QED
    BY <2>1, <2>2 DEF SumFunction
<1>3. left[n] = Wanted(l, size, n)
  BY StillWantedIs
<1>4. \A k \in A : f[k] = g[k]
  <2> SUFFICES ASSUME NEW k \in A PROVE f[k] = g[k]
    OBVIOUS
  <2>1. k \in 1 .. Len(l) /\ k - 1 \in 0 .. Len(l) /\ k \in 0 .. Len(l) /\ k <= n
    BY <1>1
  <2>2. left[k - 1] = Wanted(l, size, k - 1) /\ left[k] = Wanted(l, size, k)
    BY <2>1, StillWantedIs
  <2>3. t[k] = Wanted(l, size, k - 1) - Wanted(l, size, k)
    BY <2>1 DEF PageTakes
  <2>4. g[k] = PremiumFor(t[k], l[k].price)
    BY <2>1 DEF PremiumsOn
  <2>5. f[k] = PremiumFor(left[k - 1] - left[k], l[k].price)
    OBVIOUS
  <2> HIDE DEF f, g, left
  <2> QED
    BY <2>2, <2>3, <2>4, <2>5
<1>5. \A k \in B : g[k] = 0
  <2> SUFFICES ASSUME NEW k \in B PROVE g[k] = 0
    OBVIOUS
  <2>1. k \in 1 .. Len(l) /\ ~(k <= n)
    BY <1>1
  <2>2. t[k] = 0
    BY <2>1 DEF PageTakes
  <2>3. l[k].price \in Nat /\ PerLot \in Nat /\ PerLot > 0
    BY <2>1, LadderAsks, TicketNumbers
  <2>4. (0 * l[k].price) \div PerLot = 0
    BY <2>3
  <2> QED
    BY <2>1, <2>2, <2>4 DEF PremiumsOn, PremiumFor
<1>6. IsFiniteSet(A) /\ IsFiniteSet(S) /\ NatTerms(g, S)
  <2>1. Len(l) \in 0 .. Len(l)
    BY <1>1
  <2> QED
    BY <1>1, <2>1, FillTerms, Interval
<1>7. S = A \cup B /\ A \cap B = {} /\ IsFiniteSet(B)
  <2>1. S = A \cup B /\ A \cap B = {} /\ B \in SUBSET S
    BY <1>1
  <2> HIDE DEF A, B, S
  <2> QED
    BY <1>6, <2>1, FS_Subset
<1> HIDE DEF A, B, S, f, g
<1>8. SumFunctionOnSet(f, A) = SumFunctionOnSet(g, A)
  BY <1>4, <1>6, SumAgree
<1>9. SumFunctionOnSet(g, B) = 0
  BY <1>5, <1>7, SumOfZeros
<1>10. SumFunctionOnSet(g, S) = SumFunctionOnSet(g, A) + SumFunctionOnSet(g, B)
  BY <1>6, <1>7, NatTermsAreInts, SumDisjoint
<1>11. SumFunctionOnSet(g, A) \in Int
  <2>1. IntTerms(g, A)
    BY <1>6, <1>7, NatTermsAreInts, PartOfIntTerms
  <2> QED
    BY <1>6, <2>1, SumInt
<1>12. SumFunctionOnSet(f, A) = SumFunctionOnSet(g, S)
  BY <1>8, <1>9, <1>10, <1>11
<1>13. SumFunctionOnSet(t, S) = size - left[n]
  BY <1>3, PageFilled DEF S
<1> QED
  BY <1>2, <1>12, <1>13 DEF S, g

\* Exchanging parts between a cheaper and a dearer ask.
LEMMA Exchange ==
  ASSUME NEW a \in Nat, NEW b \in Nat, NEW p \in Nat, NEW q \in Nat,
         (b <= a /\ p <= q) \/ (a <= b /\ q <= p)
  PROVE  a * p + b * q <= b * p + a * q
<1>1. CASE b <= a /\ p <= q
  <2>1. PICK d \in Nat : a = b + d
    <3>1. a - b \in Nat /\ a = b + (a - b)
      BY <1>1
    <3> QED
      BY <3>1
  <2>2. p * d <= q * d
    BY <1>1, MulMono
  <2> QED
    BY <2>1, <2>2
<1>2. CASE a <= b /\ q <= p
  <2>1. PICK d \in Nat : b = a + d
    <3>1. b - a \in Nat /\ b = a + (b - a)
      BY <1>2
    <3> QED
      BY <3>1
  <2>2. q * d <= p * d
    BY <1>2, MulMono
  <2> QED
    BY <2>1, <2>2
<1> QED
  BY <1>1, <1>2

\* A fill takes an ask only when it has emptied those before it.
InTurn(l, t) == \A i, j \in 1 .. Len(l) : i < j /\ t[j] > 0 => t[i] = l[i].units
Filled(l, t) == SumFunctionOnSet(t, 1 .. Len(l))
Cost(l, t) == SumFunctionOnSet(CostsOn(l, t), 1 .. Len(l))

\* What a fill takes and costs are numbers.
LEMMA FillNumbers ==
  ASSUME NEW l \in Ladders, NEW t, Fills(l, t)
  PROVE  /\ IsFiniteSet(1 .. Len(l)) /\ NatTerms(t, 1 .. Len(l))
         /\ NatTerms(CostsOn(l, t), 1 .. Len(l)) /\ NatTerms(PremiumsOn(l, t), 1 .. Len(l))
         /\ Filled(l, t) \in Nat /\ Cost(l, t) \in Nat
         /\ SumFunctionOnSet(PremiumsOn(l, t), 1 .. Len(l)) \in Nat
<1>1. Len(l) \in 0 .. Len(l)
  BY LadderAsks
<1> DEFINE S == 1 .. Len(l)
<1>2. /\ IsFiniteSet(S) /\ NatTerms(t, S) /\ NatTerms(CostsOn(l, t), S)
      /\ NatTerms(PremiumsOn(l, t), S)
  BY <1>1, FillTerms
<1>3. /\ Filled(l, t) = SumFunctionOnSet(t, S)
      /\ Cost(l, t) = SumFunctionOnSet(CostsOn(l, t), S)
  BY DEF Filled, Cost
<1> HIDE DEF S
<1>4. /\ SumFunctionOnSet(t, S) \in Nat /\ SumFunctionOnSet(CostsOn(l, t), S) \in Nat
      /\ SumFunctionOnSet(PremiumsOn(l, t), S) \in Nat
  BY <1>2, SumNat
<1> QED
  BY <1>2, <1>3, <1>4 DEF S

\* The last ask a fill takes from.
LEMMA LastTaken ==
  ASSUME NEW l \in Ladders, NEW t, Fills(l, t), \E i \in 1 .. Len(l) : t[i] > 0
  PROVE  \E k \in 1 .. Len(l) : t[k] > 0 /\ \A i \in 1 .. Len(l) : i > k => t[i] = 0
<1> DEFINE T == {k \in Nat : \A i \in 1 .. Len(l) : i > k => t[i] = 0}
<1>1. Len(l) \in Nat /\ \A i \in 1 .. Len(l) : t[i] \in Nat
  BY LadderAsks DEF Fills
<1>2. T \in SUBSET Nat /\ Len(l) \in T
  BY <1>1
<1>3. PICK m \in T : \A k \in T : m <= k
  <2> HIDE DEF T
  <2> QED
    BY <1>2, LeastNat
<1>4. m \in Nat /\ \A i \in 1 .. Len(l) : i > m => t[i] = 0
  BY <1>3
<1>5. m # 0 /\ m <= Len(l)
  BY <1>1, <1>2, <1>3, <1>4
<1>6. t[m] > 0
  <2> SUFFICES ASSUME ~(t[m] > 0) PROVE FALSE
    OBVIOUS
  <2>1. m - 1 \in Nat /\ t[m] = 0
    BY <1>1, <1>4, <1>5
  <2>2. \A i \in 1 .. Len(l) : i > m - 1 => i = m \/ i > m
    BY <1>4
  <2>3. m - 1 \in T
    BY <1>4, <2>1, <2>2
  <2> QED
    BY <1>3, <1>4, <2>3
<1> QED
  BY <1>1, <1>4, <1>5, <1>6

\* No fill is cheaper than the one that takes the asks in turn: another that falls
\* short of it by some units saves no more than the worst price for each.
LEMMA CheapestFill ==
  ASSUME NEW l \in Ladders, ByPrice(l), NEW x, Fills(l, x), InTurn(l, x),
         NEW t, Fills(l, t), NEW short \in Nat, NEW worst \in Nat,
         \A i \in 1 .. Len(l) : l[i].price <= worst,
         Filled(l, x) <= Filled(l, t) + short
  PROVE  Cost(l, x) <= Cost(l, t) + short * worst
<1> DEFINE S == 1 .. Len(l)
           f == CostsOn(l, x)
           g == CostsOn(l, t)
<1>1. /\ IsFiniteSet(S) /\ IntTerms(x, S) /\ IntTerms(f, S) /\ IntTerms(t, S)
      /\ IntTerms(g, S) /\ Filled(l, x) \in Nat /\ Cost(l, x) \in Nat
      /\ Filled(l, t) \in Nat /\ Cost(l, t) \in Nat /\ short * worst \in Nat
  BY FillNumbers, NatTermsAreInts, MulNat
<1>2. CASE \A i \in S : ~(x[i] > 0)
  <2>1. \A i \in S : f[i] = 0
    <3>1. \A i \in S : x[i] = 0 /\ l[i].price \in Nat
      BY <1>2, LadderAsks DEF Fills
    <3>2. \A i \in S : f[i] = x[i] * l[i].price
      BY DEF CostsOn
    <3> HIDE DEF f, S
    <3> QED
      BY <3>1, <3>2
  <2> HIDE DEF f
  <2>2. SumFunctionOnSet(f, S) = 0
    BY <1>1, <2>1, SumOfZeros
  <2> QED
    BY <1>1, <2>2 DEF Cost, f
<1>3. CASE \E i \in S : x[i] > 0
  <2>1. PICK k \in S : x[k] > 0 /\ \A i \in S : i > k => x[i] = 0
    BY <1>3, LastTaken
  <2> DEFINE p == l[k].price
             a == [i \in S |-> f[i] + p * t[i]]
             b == [i \in S |-> g[i] + p * x[i]]
  <2>2. p \in Nat /\ p <= worst
    BY LadderAsks
  <2>3. ASSUME NEW i \in S PROVE a[i] <= b[i]
    <3>1. x[i] \in Nat /\ t[i] \in Nat /\ t[i] <= l[i].units /\ l[i].price \in Nat
      BY LadderAsks DEF Fills
    <3>2. f[i] = x[i] * l[i].price /\ g[i] = t[i] * l[i].price
      BY DEF CostsOn
    <3>3. (t[i] <= x[i] /\ l[i].price <= p) \/ (x[i] <= t[i] /\ p <= l[i].price)
      <4>0. i \in Int /\ k \in Int
        OBVIOUS
      <4>1. CASE i < k
        BY <2>1, <3>1, <4>1 DEF InTurn, ByPrice
      <4>2. CASE i = k
        BY <3>1, <4>2, <2>2
      <4>3. CASE k < i
        BY <2>1, <3>1, <4>3 DEF ByPrice
      <4> QED
        BY <4>0, <4>1, <4>2, <4>3
    <3>4. x[i] * l[i].price + t[i] * p <= t[i] * l[i].price + x[i] * p
      BY <2>2, <3>1, <3>3, Exchange
    <3>5. a[i] = f[i] + p * t[i] /\ b[i] = g[i] + p * x[i]
      OBVIOUS
    <3>6. p * t[i] = t[i] * p /\ p * x[i] = x[i] * p
      BY <2>2, <3>1
    <3> HIDE DEF a, b, f, g
    <3> QED
      BY <3>2, <3>4, <3>5, <3>6
  <2>4. Combines(a, f, t, 1, p, S) /\ Combines(b, g, x, 1, p, S)
    <3>1. \A i \in S : f[i] \in Int /\ g[i] \in Int /\ t[i] \in Int /\ x[i] \in Int
      BY <1>1 DEF IntTerms
    <3>2. \A i \in S : a[i] = f[i] + p * t[i] /\ b[i] = g[i] + p * x[i]
      OBVIOUS
    <3> HIDE DEF f, g, S, a, b, p
    <3> QED
      BY <2>2, <3>1, <3>2 DEF Combines
  <2> HIDE DEF f, g, a, b, S, p
  <2>5. /\ IntTerms(a, S) /\ SumsCombine(a, f, t, 1, p, S)
        /\ IntTerms(b, S) /\ SumsCombine(b, g, x, 1, p, S)
    <3>1. 1 \in Int /\ p \in Int
      BY <2>2
    <3>2. IntTerms(a, S) /\ SumsCombine(a, f, t, 1, p, S)
      BY <1>1, <2>4, <3>1, SumCombines
    <3>3. IntTerms(b, S) /\ SumsCombine(b, g, x, 1, p, S)
      BY <1>1, <2>4, <3>1, SumCombines
    <3> QED
      BY <3>2, <3>3
  <2>6. SumFunctionOnSet(a, S) <= SumFunctionOnSet(b, S)
    BY <1>1, <2>3, <2>5, SumMonotone
  <2> DEFINE X == Filled(l, x)
             T == Filled(l, t)
             C == Cost(l, x)
             D == Cost(l, t)
  <2>7. C + p * T <= D + p * X
    <3>1. /\ SumFunctionOnSet(f, S) = C /\ SumFunctionOnSet(t, S) = T
          /\ SumFunctionOnSet(g, S) = D /\ SumFunctionOnSet(x, S) = X
      BY DEF f, g, S, Filled, Cost
    <3> QED
      BY <1>1, <2>2, <2>5, <2>6, <3>1 DEF SumsCombine
  <2>8. X <= T + short /\ X \in Nat /\ T \in Nat /\ C \in Nat /\ D \in Nat
    BY <1>1
  <2> HIDE DEF X, T, C, D
  <2>9. X * p <= (T + short) * p
    BY <2>2, <2>8, MulMono
  <2>10. p * short <= worst * short
    BY <2>2, MulMono
  <2>11. C <= D + short * worst
    <3>1. X * p = p * X /\ (T + short) * p = p * T + p * short /\ worst * short = short * worst
      BY <2>2, <2>8
    <3>2. p * X \in Nat /\ p * T \in Nat /\ p * short \in Nat /\ short * worst \in Nat
      BY <2>2, <2>8, MulNat
    <3> QED
      BY <2>7, <2>8, <2>9, <2>10, <3>1, <3>2
  <2> QED
    BY <2>11 DEF C, D
<1> QED
  BY <1>2, <1>3

\* A fill that pays no more than a limit for any ask pays no more for the whole.
LEMMA CostsWithin ==
  ASSUME NEW l \in Ladders, NEW t, Fills(l, t), NEW limit \in Nat,
         \A i \in 1 .. Len(l) : t[i] > 0 => l[i].price <= limit
  PROVE  Cost(l, t) <= Filled(l, t) * limit
<1> DEFINE S == 1 .. Len(l)
           f == CostsOn(l, t)
           h == [i \in S |-> t[i] * limit]
<1>1. IsFiniteSet(S) /\ IntTerms(t, S) /\ IntTerms(f, S)
  BY FillNumbers, NatTermsAreInts
<1>2. ASSUME NEW i \in S PROVE f[i] <= h[i]
  <2>1. t[i] \in Nat /\ l[i].price \in Nat
    BY LadderAsks DEF Fills
  <2>2. f[i] = t[i] * l[i].price /\ h[i] = t[i] * limit
    BY DEF CostsOn
  <2>3. CASE t[i] > 0
    <3>1. l[i].price * t[i] <= limit * t[i]
      BY <2>1, <2>3, MulMono
    <3>2. l[i].price * t[i] = t[i] * l[i].price /\ limit * t[i] = t[i] * limit
      BY <2>1
    <3> HIDE DEF f, h
    <3> QED
      BY <2>2, <3>1, <3>2
  <2>4. CASE t[i] = 0
    <3> HIDE DEF f, h
    <3> QED
      BY <2>1, <2>2, <2>4
  <2> QED
    BY <2>1, <2>3, <2>4
<1>3. \A i \in S : h[i] = t[i] * limit
  OBVIOUS
<1> HIDE DEF S, f, h
<1>4. IntTerms(h, S) /\ SumFunctionOnSet(h, S) = SumFunctionOnSet(t, S) * limit
  BY <1>1, <1>3, SumTimes
<1>5. SumFunctionOnSet(f, S) <= SumFunctionOnSet(h, S)
  BY <1>1, <1>2, <1>4, SumMonotone
<1> QED
  BY <1>4, <1>5 DEF Cost, Filled, f, S

\* The premium of each ask is floored, so the whole is no more than the cost.
PremiumOn(l, t) == SumFunctionOnSet(PremiumsOn(l, t), 1 .. Len(l))

\* The premium of an ask is its cost without the rest of the division.
LEMMA PremiumIsFloored ==
  ASSUME NEW l \in Ladders, NEW t, Fills(l, t), NEW i \in 1 .. Len(l)
  PROVE  /\ PremiumsOn(l, t)[i] \in Nat /\ CostsOn(l, t)[i] \in Nat
         /\ PremiumsOn(l, t)[i] * PerLot <= CostsOn(l, t)[i]
         /\ CostsOn(l, t)[i] < PremiumsOn(l, t)[i] * PerLot + PerLot
<1>1. t[i] \in Nat /\ l[i].price \in Nat /\ PerLot \in Nat /\ PerLot > 0
  BY LadderAsks, TicketNumbers DEF Fills
<1>2. t[i] * l[i].price \in Nat
  BY <1>1, MulNat
<1> DEFINE c == t[i] * l[i].price
<1>3. PremiumsOn(l, t)[i] = c \div PerLot /\ CostsOn(l, t)[i] = c
  BY DEF PremiumsOn, PremiumFor, CostsOn
<1> HIDE DEF c
<1> QED
  BY <1>1, <1>2, <1>3, DivBounds DEF c

\* and so is the whole.
LEMMA PremiumsBelow ==
  ASSUME NEW l \in Ladders, NEW t, Fills(l, t)
  PROVE  PremiumOn(l, t) * PerLot <= Cost(l, t)
<1> DEFINE S == 1 .. Len(l)
           f == CostsOn(l, t)
           g == PremiumsOn(l, t)
           h == [i \in S |-> g[i] * PerLot]
<1>1. IsFiniteSet(S) /\ IntTerms(g, S) /\ IntTerms(f, S) /\ PerLot \in Int
  BY FillNumbers, NatTermsAreInts, TicketNumbers
<1>2. \A i \in S : h[i] = g[i] * PerLot
  OBVIOUS
<1>3. \A i \in S : h[i] <= f[i]
  BY PremiumIsFloored
<1> HIDE DEF S, f, g, h
<1>4. IntTerms(h, S) /\ SumFunctionOnSet(h, S) = SumFunctionOnSet(g, S) * PerLot
  BY <1>1, <1>2, SumTimes
<1>5. SumFunctionOnSet(h, S) <= SumFunctionOnSet(f, S)
  BY <1>1, <1>3, <1>4, SumMonotone
<1> QED
  BY <1>4, <1>5 DEF Cost, PremiumOn, f, g, S

\* The floors lose less than a unit per ask taken from.
LEMMA PremiumsAbove ==
  ASSUME NEW l \in Ladders, NEW t, Fills(l, t), NEW n \in 0 .. Len(l),
         \A i \in 1 .. Len(l) : i > n => t[i] = 0
  PROVE  Cost(l, t) <= PremiumOn(l, t) * PerLot + n * (PerLot - 1)
<1> DEFINE S == 1 .. Len(l)
           A == 1 .. n
           B == n + 1 .. Len(l)
           f == CostsOn(l, t)
           g == PremiumsOn(l, t)
           r == [i \in S |-> f[i] + g[i] * (-PerLot)]
<1>1. /\ IsFiniteSet(S) /\ IntTerms(g, S) /\ IntTerms(f, S) /\ PerLot \in Nat /\ PerLot > 0
      /\ Len(l) \in Nat /\ n \in Nat
  BY FillNumbers, NatTermsAreInts, TicketNumbers, LadderAsks
<1>2. \A i \in S : f[i] \in Int /\ g[i] \in Int
  BY <1>1 DEF IntTerms
<1>3. \A i \in S : r[i] = f[i] + g[i] * (-PerLot)
  OBVIOUS
<1>4. ASSUME NEW i \in S PROVE r[i] \in Nat /\ r[i] <= PerLot - 1
  <2>1. /\ g[i] * PerLot <= f[i] /\ f[i] < g[i] * PerLot + PerLot
        /\ g[i] \in Nat /\ f[i] \in Nat
    BY PremiumIsFloored
  <2>2. g[i] * (-PerLot) = -(g[i] * PerLot) /\ g[i] * PerLot \in Int
    BY <1>1, <2>1
  <2>3. r[i] = f[i] + g[i] * (-PerLot)
    BY <1>3
  <2> DEFINE a == f[i]
             b == g[i] * PerLot
             d == g[i] * (-PerLot)
  <2>4. a \in Int /\ b \in Int /\ d = -b /\ b <= a /\ a < b + PerLot /\ r[i] = a + d
    BY <2>1, <2>2, <2>3
  <2> HIDE DEF a, b, d, r
  <2> QED
    BY <1>1, <2>4
<1>5. \A i \in B : r[i] = 0
  <2> SUFFICES ASSUME NEW i \in B PROVE r[i] = 0
    OBVIOUS
  <2>1. i \in S /\ i > n
    BY <1>1
  <2>2. t[i] = 0 /\ l[i].price \in Nat
    BY <2>1, LadderAsks
  <2>3. f[i] = 0
    <3>1. f[i] = t[i] * l[i].price
      BY <2>1 DEF CostsOn
    <3> HIDE DEF f
    <3> QED
      BY <2>2, <3>1
  <2>4. g[i] = 0
    <3>1. g[i] * PerLot <= f[i] /\ g[i] \in Nat
      BY <2>1, PremiumIsFloored
    <3> HIDE DEF f, g
    <3> SUFFICES ASSUME g[i] # 0 PROVE FALSE
      OBVIOUS
    <3>2. g[i] * PerLot >= PerLot
      BY <1>1, <3>1, MulPos
    <3> QED
      BY <1>1, <2>3, <3>1, <3>2
  <2> HIDE DEF r, f, g
  <2> QED
    BY <1>1, <1>3, <2>1, <2>3, <2>4
<1>6. S = A \cup B /\ A \cap B = {} /\ A \in SUBSET S /\ B \in SUBSET S
  BY <1>1
<1>7. SumFunctionOnSet(r, A) <= n * (PerLot - 1)
  <2>1. \A i \in 1 .. n : r[i] \in Nat /\ r[i] <= PerLot - 1
    BY <1>4, <1>6
  <2>2. PerLot - 1 \in Nat
    BY <1>1
  <2> HIDE DEF r
  <2> QED
    BY <1>1, <2>1, <2>2, SumAtMost
<1>8. Combines(r, f, g, 1, -PerLot, S)
  <2> HIDE DEF r, f, g, S
  <2> QED
    BY <1>1, <1>2, <1>3 DEF Combines
<1> HIDE DEF S, A, B, f, g, r
<1>9. IsFiniteSet(A) /\ IsFiniteSet(B)
  BY <1>1, <1>6, FS_Subset
<1>10. IntTerms(r, S) /\ SumsCombine(r, f, g, 1, -PerLot, S)
  <2>1. 1 \in Int /\ -PerLot \in Int
    BY <1>1
  <2> QED
    BY <1>1, <1>8, <2>1, SumCombines
<1>11. SumFunctionOnSet(r, S) = SumFunctionOnSet(r, A) + SumFunctionOnSet(r, B)
  BY <1>1, <1>6, <1>10, SumDisjoint
<1>12. SumFunctionOnSet(r, B) = 0
  BY <1>5, <1>9, SumOfZeros
<1>13. SumFunctionOnSet(r, A) \in Int
  BY <1>6, <1>9, <1>10, PartOfIntTerms, SumInt
<1>14. SumFunctionOnSet(f, S) \in Int /\ SumFunctionOnSet(g, S) \in Int
  BY <1>1, SumInt
<1> DEFINE F == SumFunctionOnSet(f, S)
           G == SumFunctionOnSet(g, S)
           R == SumFunctionOnSet(r, S)
<1>15. R <= n * (PerLot - 1) /\ R \in Int
  BY <1>7, <1>11, <1>12, <1>13
<1>16. R = F * 1 + G * (-PerLot)
  BY <1>10 DEF SumsCombine
<1>17. F \in Int /\ G \in Int
  BY <1>14
<1> HIDE DEF F, G, R
<1>18. n * (PerLot - 1) \in Int /\ G * (-PerLot) = -(G * PerLot) /\ G * PerLot \in Int
  BY <1>1, <1>17
<1>19. F <= G * PerLot + n * (PerLot - 1)
  BY <1>15, <1>16, <1>17, <1>18
<1> QED
  BY <1>19 DEF F, G, f, g, S, Cost, PremiumOn

\* More asks have no fewer units.
LEMMA UpToMonotone ==
  ASSUME NEW l \in Ladders, NEW k \in 0 .. Len(l), NEW i \in 0 .. Len(l), i <= k
  PROVE  UpTo(l, i) <= UpTo(l, k)
<1> DEFINE S == 1 .. k
           T == 1 .. i
           f == UnitsIn(l)
<1>1. k \in Nat /\ i \in Nat /\ Len(l) \in Nat /\ k <= Len(l)
  BY LadderAsks
<1>2. T \in SUBSET S /\ IsFiniteSet(S)
  BY <1>1, Interval
<1>3. NatTerms(f, S)
  <2>1. \A j \in S : f[j] \in Nat
    BY <1>1, LadderAsks
  <2> QED
    BY <2>1 DEF NatTerms
<1> HIDE DEF S, T, f
<1>4. SumFunctionOnSet(f, T) <= SumFunctionOnSet(f, S)
  BY <1>2, <1>3, SumOfPart
<1> QED
  BY <1>4 DEF UpTo, S, T, f

\* The program counts the units before an ask as the page does.
LEMMA UnitsBeforeIs ==
  ASSUME ladder \in Ladders, NEW i \in 1 .. Len(ladder)
  PROVE  UnitsBefore(i) = UpTo(ladder, i - 1)
<1> DEFINE S == 1 .. i - 1
           f == [j \in S |-> ladder[j].units]
           g == UnitsIn(ladder)
<1>1. i - 1 \in Nat /\ Len(ladder) \in Nat /\ \A j \in S : j \in 1 .. Len(ladder)
  BY LadderAsks
<1>2. IsFiniteSet(S)
  BY <1>1, Interval
<1>3. \A j \in S : f[j] = g[j]
  BY <1>1 DEF UnitsIn
<1>4. DOMAIN f = S /\ UnitsBefore(i) = SumFunction(f)
  BY DEF UnitsBefore
<1>5. UpTo(ladder, i - 1) = SumFunctionOnSet(g, S)
  BY DEF UpTo
<1> HIDE DEF S, f, g
<1>6. SumFunctionOnSet(f, S) = SumFunctionOnSet(g, S)
  BY <1>2, <1>3, SumAgree
<1> QED
  BY <1>4, <1>5, <1>6 DEF SumFunction

\* What the program takes of an ask.
TakenOf(l, size, limit, i) ==
  IF i > WalkLimit \/ l[i].price > limit \/ UpTo(l, i - 1) >= size
    THEN 0 ELSE TakeFrom(l[i], size - UpTo(l, i - 1))

\* The program's walk takes just that.
LEMMA TakesAre ==
  ASSUME ladder \in Ladders, NEW size, NEW limit
  PROVE  /\ DOMAIN Takes(size, limit) = 1 .. Len(ladder)
         /\ \A i \in 1 .. Len(ladder) :
              Takes(size, limit)[i] = TakenOf(ladder, size, limit, i)
BY UnitsBeforeIs DEF Takes, TakenOf

\* The first asks the program and the page walk.
WalkedOf(l) == IF Len(l) < WalkLimit THEN Len(l) ELSE WalkLimit

\* The program takes the asks in turn, none above the limit, and no more than wanted.
LEMMA TakesFill ==
  ASSUME NEW l \in Ladders, ByPrice(l), NEW size \in Nat, NEW limit \in Nat,
         NEW x, DOMAIN x = 1 .. Len(l),
         \A i \in 1 .. Len(l) : x[i] = TakenOf(l, size, limit, i)
  PROVE  /\ Fills(l, x) /\ InTurn(l, x) /\ Filled(l, x) <= size
         /\ \A i \in 1 .. Len(l) : x[i] > 0 => l[i].price <= limit
<1>1. Len(l) \in Nat /\ WalkLimit \in Nat /\ WalkedOf(l) \in 0 .. Len(l)
  BY LadderAsks, TicketNumbers DEF WalkedOf
<1>2. ASSUME NEW i \in 1 .. Len(l)
      PROVE  /\ i \in Nat /\ l[i].price \in Nat /\ l[i].units \in Nat
             /\ i - 1 \in 0 .. Len(l) /\ i \in 0 .. Len(l)
             /\ UpTo(l, i - 1) \in Nat /\ UpTo(l, i) = UpTo(l, i - 1) + l[i].units
  BY <1>1, LadderAsks, UnitsUpTo
<1>3. ASSUME NEW i \in 1 .. Len(l)
      PROVE  /\ x[i] \in Nat /\ x[i] <= l[i].units
             /\ x[i] > 0 => i <= WalkLimit /\ l[i].price <= limit /\ UpTo(l, i - 1) < size
  <2>1. x[i] = TakenOf(l, size, limit, i)
    OBVIOUS
  <2> QED
    BY <1>1, <1>2, <2>1 DEF TakenOf, TakeFrom
<1>4. Fills(l, x)
  BY <1>3 DEF Fills
<1>5. InTurn(l, x)
  <2> SUFFICES ASSUME NEW i \in 1 .. Len(l), NEW j \in 1 .. Len(l), i < j, x[j] > 0
               PROVE  x[i] = l[i].units
    BY DEF InTurn
  <2>1. j <= WalkLimit /\ l[j].price <= limit /\ UpTo(l, j - 1) < size
    BY <1>3
  <2>2. l[i].price <= limit /\ i <= WalkLimit
    <3>1. l[i].price <= l[j].price
      BY DEF ByPrice
    <3>2. /\ i \in Nat /\ j \in Nat /\ l[i].price \in Nat /\ l[j].price \in Nat
      BY <1>2
    <3> QED
      BY <1>1, <2>1, <3>1, <3>2
  <2>3. UpTo(l, i) < size
    <3>1. i \in 0 .. Len(l) /\ j - 1 \in 0 .. Len(l) /\ i <= j - 1
      BY <1>1, <1>2
    <3>2. UpTo(l, i) <= UpTo(l, j - 1)
      BY <3>1, UpToMonotone
    <3>3. UpTo(l, i) \in Nat /\ UpTo(l, j - 1) \in Nat
      BY <3>1, UnitsUpTo
    <3> QED
      BY <2>1, <3>2, <3>3
  <2>4. x[i] = TakenOf(l, size, limit, i)
    OBVIOUS
  <2> QED
    BY <1>1, <1>2, <2>2, <2>3, <2>4 DEF TakenOf, TakeFrom
<1>6. Filled(l, x) <= size
  <2> DEFINE n == WalkedOf(l)
             t == PageTakes(l, size, n)
             S == 1 .. Len(l)
  <2>1. /\ Fills(l, t) /\ Wanted(l, size, n) \in 0 .. size
        /\ \A i \in 1 .. Len(l) :
             t[i] = IF i > n \/ UpTo(l, i - 1) >= size
                      THEN 0 ELSE TakeFrom(l[i], size - UpTo(l, i - 1))
    <3>1. n \in 0 .. Len(l) /\ t = PageTakes(l, size, n)
      BY <1>1
    <3> HIDE DEF n, t
    <3>2. /\ Fills(l, t) /\ \A k \in 0 .. Len(l) : Wanted(l, size, k) \in 0 .. size
          /\ \A i \in 1 .. Len(l) :
               t[i] = IF i > n \/ UpTo(l, i - 1) >= size
                        THEN 0 ELSE TakeFrom(l[i], size - UpTo(l, i - 1))
      BY <3>1, PageFills
    <3> QED
      BY <3>1, <3>2
  <2>2. Filled(l, t) = size - Wanted(l, size, n)
    BY <1>1, PageFilled DEF Filled
  <2>3. IsFiniteSet(S) /\ IntTerms(x, S) /\ IntTerms(t, S) /\ Filled(l, x) \in Nat
    BY <1>4, <2>1, FillNumbers, NatTermsAreInts
  <2>4. ASSUME NEW i \in S PROVE x[i] <= t[i]
    <3>1. x[i] = TakenOf(l, size, limit, i)
      OBVIOUS
    <3>2. t[i] \in Nat
      BY <2>1 DEF Fills
    <3>3. i > n => i > WalkLimit
      BY <1>1, <1>2 DEF WalkedOf
    <3>4. t[i] = IF i > n \/ UpTo(l, i - 1) >= size
                      THEN 0 ELSE TakeFrom(l[i], size - UpTo(l, i - 1))
      BY <2>1
    <3> HIDE DEF n, t
    <3> QED
      BY <1>2, <3>1, <3>2, <3>3, <3>4 DEF TakenOf, TakeFrom
  <2> HIDE DEF t, S, n
  <2>5. SumFunctionOnSet(x, S) <= SumFunctionOnSet(t, S)
    BY <2>3, <2>4, SumMonotone
  <2>6. Filled(l, x) <= Filled(l, t)
    BY <2>5 DEF Filled, S
  <2> QED
    BY <2>1, <2>2, <2>3, <2>6
<1> QED
  BY <1>3, <1>4, <1>5, <1>6

\* Where no ask is above the limit it takes what the page walked.
LEMMA TakesArePages ==
  ASSUME NEW l \in Ladders, NEW size \in Nat, NEW limit \in Nat,
         \A i \in 1 .. Len(l) : l[i].price <= limit,
         NEW x, DOMAIN x = 1 .. Len(l), x = [i \in DOMAIN x |-> x[i]],
         \A i \in 1 .. Len(l) : x[i] = TakenOf(l, size, limit, i)
  PROVE  x = PageTakes(l, size, WalkedOf(l))
<1> DEFINE n == WalkedOf(l)
           t == PageTakes(l, size, n)
<1>1. Len(l) \in Nat /\ WalkLimit \in Nat /\ n \in 0 .. Len(l)
  BY LadderAsks, TicketNumbers DEF WalkedOf
<1>2. /\ \A i \in 1 .. Len(l) :
             t[i] = IF i > n \/ UpTo(l, i - 1) >= size
                      THEN 0 ELSE TakeFrom(l[i], size - UpTo(l, i - 1))
  BY <1>1, PageFills
<1>3. ASSUME NEW i \in 1 .. Len(l) PROVE x[i] = t[i]
  <2>1. x[i] = TakenOf(l, size, limit, i)
    OBVIOUS
  <2>2. i > n <=> i > WalkLimit
    BY <1>1 DEF WalkedOf
  <2>3. ~(l[i].price > limit)
    BY LadderAsks
  <2>4. t[i] = IF i > n \/ UpTo(l, i - 1) >= size
                 THEN 0 ELSE TakeFrom(l[i], size - UpTo(l, i - 1))
    BY <1>2
  <2> HIDE DEF n, t
  <2> QED
    BY <2>1, <2>2, <2>3, <2>4 DEF TakenOf
<1>4. t = [i \in 1 .. Len(l) |-> t[i]]
  BY DEF PageTakes
<1> HIDE DEF t
<1>5. x = t
  BY <1>3, <1>4
<1> QED
  BY <1>5 DEF t

\* A ticket still to be charged, and what is known of the book it will land on if
\* others have only posted: a fill of it that falls short of the size by what has
\* been evicted since costs less than the ticket shows, with a unit for each ask
\* walked, even if the rest is paid at the worst price of the book.
Pending == ticket # NoTicket /\ charge = Uncharged
CoveredBy(l, tk, t, short, worst) ==
  /\ Fills(l, t) /\ short \in Nat /\ worst \in Nat
  /\ Filled(l, t) + short = tk.size
  /\ Cost(l, t) + short * worst < (tk.premium + WalkLimit) * PerLot
  /\ \A i \in 1 .. Len(l) : l[i].price <= worst
  /\ short > 0 => Len(l) = MaxAsks
Covered(l, tk) == \E t, short, worst : CoveredBy(l, tk, t, short, worst)

Signable(tk) ==
  /\ tk.size \in Nat /\ tk.size > 0 /\ tk.filled = tk.size
  /\ tk.premium \in Nat /\ tk.limit \in Nat
Shown(l, tk) ==
  /\ tk = CostOf(l, tk.size) /\ \A i \in 1 .. Len(l) : l[i].price <= tk.limit
Book(l) == l \in Ladders /\ Len(l) <= MaxAsks /\ ByPrice(l)

TicketInv ==
  /\ Book(ladder)
  /\ ticket = NoTicket \/ Signable(ticket)
  /\ Pending /\ moved = {} => Shown(ladder, ticket)
  /\ Pending /\ "less" \notin moved => Covered(ladder, ticket)
  /\ TicketHonoured

\* What the page walked, as a fill of the book.
LEMMA CostOfIs ==
  ASSUME NEW l \in Ladders, NEW size \in Nat,
         NEW t, t = PageTakes(l, size, WalkedOf(l))
  PROVE  /\ WalkedOf(l) \in 0 .. Len(l) /\ WalkedOf(l) <= WalkLimit
         /\ Fills(l, t) /\ \A i \in 1 .. Len(l) : i > WalkedOf(l) => t[i] = 0
         /\ CostOf(l, size).size = size
         /\ CostOf(l, size).filled = Filled(l, t)
         /\ CostOf(l, size).premium = PremiumOn(l, t)
         /\ CostOf(l, size).limit = IF l = <<>> THEN 0 ELSE l[Len(l)].price
<1>1. Len(l) \in Nat /\ WalkLimit \in Nat
  BY LadderAsks, TicketNumbers
<1>2. WalkedOf(l) \in 0 .. Len(l) /\ WalkedOf(l) <= WalkLimit
  BY <1>1 DEF WalkedOf
<1>3. WalkAsks(l, size) = Walked(l, size, WalkedOf(l))
  BY DEF WalkAsks, WalkedOf
<1>4. /\ Walked(l, size, WalkedOf(l)).filled = Filled(l, t)
      /\ Walked(l, size, WalkedOf(l)).premium = PremiumOn(l, t)
  BY <1>2, WalkedIs DEF Filled, PremiumOn
<1>5. Fills(l, t) /\ \A i \in 1 .. Len(l) : i > WalkedOf(l) => t[i] = 0
  <2>1. Fills(l, t)
    BY <1>2, PageFills
  <2>2. ASSUME NEW i \in 1 .. Len(l), i > WalkedOf(l) PROVE t[i] = 0
    <3>1. ~(i <= WalkedOf(l))
      BY <1>1, <1>2, <2>2
    <3> QED
      BY <3>1 DEF PageTakes
  <2> QED
    BY <2>1, <2>2
<1> QED
  BY <1>2, <1>3, <1>4, <1>5 DEF CostOf

\* A size that can be filled makes a ticket that is covered.
LEMMA ShownIsCovered ==
  ASSUME NEW l, Book(l), NEW size \in Nat, size > 0,
         NEW tk, tk = CostOf(l, size), tk.filled = size
  PROVE  tk # NoTicket /\ tk.size = size /\ Signable(tk) /\ Shown(l, tk) /\ Covered(l, tk)
<1> DEFINE t == PageTakes(l, size, WalkedOf(l))
           n == WalkedOf(l)
<1>1. /\ l \in Ladders /\ ByPrice(l) /\ Len(l) \in Nat
      /\ PerLot \in Nat /\ PerLot > 0 /\ WalkLimit \in Nat /\ WalkLimit > 0
  BY LadderAsks, TicketNumbers DEF Book
<1>2. /\ n \in 0 .. Len(l) /\ n <= WalkLimit
      /\ Fills(l, t) /\ \A i \in 1 .. Len(l) : i > n => t[i] = 0
      /\ tk.size = size /\ Filled(l, t) = size /\ tk.premium = PremiumOn(l, t)
      /\ tk.limit = IF l = <<>> THEN 0 ELSE l[Len(l)].price
  <2> HIDE DEF n
  <2> QED
    BY <1>1, CostOfIs DEF n
<1> HIDE DEF t, n
<1>3. tk.limit \in Nat /\ \A i \in 1 .. Len(l) : l[i].price <= tk.limit
  <2>1. CASE Len(l) = 0
    <3>1. l = <<>>
      BY <1>1, <2>1, EmptySeq DEF Ladders
    <3> QED
      BY <1>2, <2>1, <3>1
  <2>2. CASE Len(l) # 0
    <3>1. Len(l) \in 1 .. Len(l) /\ l # <<>>
      BY <1>1, <2>2
    <3>2. tk.limit = l[Len(l)].price /\ tk.limit \in Nat
      BY <1>1, <1>2, <3>1, LadderAsks
    <3>3. ASSUME NEW i \in 1 .. Len(l) PROVE l[i].price <= l[Len(l)].price
      <4>1. CASE i < Len(l)
        BY <1>1, <3>1, <4>1 DEF ByPrice
      <4>2. CASE i = Len(l)
        BY <3>2, <4>2
      <4> QED
        BY <1>1, <4>1, <4>2
    <3> QED
      BY <3>2, <3>3
  <2> QED
    BY <2>1, <2>2
<1>4. PremiumOn(l, t) \in Nat /\ Cost(l, t) \in Nat
  BY <1>1, <1>2, FillNumbers DEF PremiumOn
<1>5. Signable(tk) /\ tk # NoTicket
  BY <1>2, <1>3, <1>4 DEF Signable, NoTicket
<1>6. Shown(l, tk)
  BY <1>2, <1>3 DEF Shown
<1>7. Cost(l, t) < (tk.premium + WalkLimit) * PerLot
  <2> DEFINE p == tk.premium
             c == Cost(l, t)
  <2>1. c <= p * PerLot + n * (PerLot - 1)
    BY <1>1, <1>2, PremiumsAbove
  <2>2. p \in Nat /\ c \in Nat /\ n \in Nat /\ n <= WalkLimit
    BY <1>1, <1>2, <1>4
  <2> HIDE DEF p, c
  <2>3. n * (PerLot - 1) <= WalkLimit * (PerLot - 1)
    <3>1. PerLot - 1 \in Nat
      BY <1>1
    <3> QED
      BY <1>1, <2>2, <3>1, MulMono
  <2>4. /\ WalkLimit * (PerLot - 1) = WalkLimit * PerLot - WalkLimit
        /\ (p + WalkLimit) * PerLot = p * PerLot + WalkLimit * PerLot
        /\ n * (PerLot - 1) \in Int /\ p * PerLot \in Int /\ WalkLimit * PerLot \in Int
    BY <1>1, <2>2
  <2>5. c < (p + WalkLimit) * PerLot
    BY <1>1, <2>1, <2>2, <2>3, <2>4
  <2> QED
    BY <2>5 DEF p, c
<1>8. CoveredBy(l, tk, t, 0, tk.limit)
  <2>1. 0 * tk.limit = 0
    BY <1>3
  <2>2. Filled(l, t) + 0 = tk.size /\ Cost(l, t) + 0 * tk.limit = Cost(l, t)
    BY <1>2, <1>4, <2>1
  <2> QED
    BY <1>2, <1>3, <1>7, <2>2 DEF CoveredBy
<1> QED
  BY <1>2, <1>5, <1>6, <1>8 DEF Covered

\* No purchase takes more than the size or above the limit.
LEMMA CoveredCharge ==
  ASSUME NEW l, Book(l), NEW tk, Signable(tk), Covered(l, tk),
         NEW x, DOMAIN x = 1 .. Len(l),
         \A i \in 1 .. Len(l) : x[i] = TakenOf(l, tk.size, tk.limit, i)
  PROVE  PremiumOn(l, x) < tk.premium + WalkLimit
<1>1. PICK t, short, worst : CoveredBy(l, tk, t, short, worst)
  BY DEF Covered
<1>2. /\ l \in Ladders /\ ByPrice(l) /\ PerLot \in Nat /\ PerLot > 0 /\ WalkLimit \in Nat
      /\ tk.size \in Nat /\ tk.limit \in Nat /\ tk.premium \in Nat
  BY TicketNumbers DEF Book, Signable
<1>3. Fills(l, x) /\ InTurn(l, x) /\ Filled(l, x) <= tk.size
  BY <1>2, TakesFill
<1>4. /\ Fills(l, t) /\ short \in Nat /\ worst \in Nat
      /\ Filled(l, t) + short = tk.size
      /\ Cost(l, t) + short * worst < (tk.premium + WalkLimit) * PerLot
      /\ \A i \in 1 .. Len(l) : l[i].price <= worst
  BY <1>1 DEF CoveredBy
<1>5. Filled(l, x) <= Filled(l, t) + short
  BY <1>3, <1>4
<1>6. Cost(l, x) <= Cost(l, t) + short * worst
  BY <1>2, <1>3, <1>4, <1>5, CheapestFill
<1>7. PremiumOn(l, x) * PerLot <= Cost(l, x)
  BY <1>2, <1>3, PremiumsBelow
<1>8. PremiumOn(l, x) \in Nat /\ Cost(l, x) \in Nat /\ Cost(l, t) \in Nat /\ short * worst \in Nat
  BY <1>2, <1>3, <1>4, FillNumbers, MulNat DEF PremiumOn
<1> DEFINE a == PremiumOn(l, x)
           b == tk.premium + WalkLimit
<1>9. a * PerLot < b * PerLot
  <2>1. a * PerLot \in Nat /\ b * PerLot \in Nat
    BY <1>2, <1>8, MulNat
  <2> QED
    BY <1>4, <1>6, <1>7, <1>8, <2>1
<1>10. a \in Nat /\ b \in Nat
  BY <1>2, <1>8
<1> HIDE DEF a, b
<1>11. a < b
  BY <1>2, <1>9, <1>10, MulCancel
<1> QED
  BY <1>11 DEF a, b

\* A charge is within the limit the ticket carries.
LEMMA LimitedCharge ==
  ASSUME NEW l, Book(l), NEW tk, Signable(tk),
         NEW x, DOMAIN x = 1 .. Len(l),
         \A i \in 1 .. Len(l) : x[i] = TakenOf(l, tk.size, tk.limit, i)
  PROVE  PremiumOn(l, x) * PerLot <= tk.limit * Filled(l, x)
<1>1. /\ l \in Ladders /\ ByPrice(l) /\ PerLot \in Nat
      /\ tk.size \in Nat /\ tk.limit \in Nat
  BY TicketNumbers DEF Book, Signable
<1>2. Fills(l, x) /\ \A i \in 1 .. Len(l) : x[i] > 0 => l[i].price <= tk.limit
  BY <1>1, TakesFill
<1>3. /\ PremiumOn(l, x) \in Nat /\ Cost(l, x) \in Nat /\ Filled(l, x) \in Nat
      /\ PremiumOn(l, x) * PerLot <= Cost(l, x)
      /\ Cost(l, x) <= Filled(l, x) * tk.limit
  BY <1>1, <1>2, FillNumbers, PremiumsBelow, CostsWithin DEF PremiumOn
<1> DEFINE a == PremiumOn(l, x) * PerLot
           b == Filled(l, x) * tk.limit
<1>4. /\ a \in Nat /\ b \in Nat /\ b = tk.limit * Filled(l, x)
  BY <1>1, <1>3, MulNat
<1>5. a <= b
  BY <1>3, <1>4
<1> QED
  BY <1>4, <1>5

\* On the book the ticket was read from, the charge is the one shown.
LEMMA ShownCharge ==
  ASSUME NEW l, Book(l), NEW tk, Signable(tk), Shown(l, tk),
         NEW x, DOMAIN x = 1 .. Len(l), x = [i \in DOMAIN x |-> x[i]],
         \A i \in 1 .. Len(l) : x[i] = TakenOf(l, tk.size, tk.limit, i)
  PROVE  Filled(l, x) = tk.size /\ PremiumOn(l, x) = tk.premium
<1>1. l \in Ladders /\ tk.size \in Nat /\ tk.limit \in Nat /\ tk.filled = tk.size
  BY DEF Book, Signable
<1>2. \A i \in 1 .. Len(l) : l[i].price <= tk.limit
  BY DEF Shown
<1>3. x = PageTakes(l, tk.size, WalkedOf(l))
  BY <1>1, <1>2, TakesArePages
<1>4. tk = CostOf(l, tk.size)
  BY DEF Shown
<1>5. /\ CostOf(l, tk.size).filled = Filled(l, x)
      /\ CostOf(l, tk.size).premium = PremiumOn(l, x)
  BY <1>1, <1>3, CostOfIs
<1> QED
  BY <1>1, <1>4, <1>5

\* The asks behind the first ones of a book are a book.
LEMMA BookBehind ==
  ASSUME NEW l, Book(l), NEW rest, NEW e \in 0 .. Len(l),
         \A i \in 1 .. Len(l) : i > e => rest[i] \in LadderAsk /\ rest[i].price = l[i].price
  PROVE  Book(SubSeq(rest, e + 1, Len(l)))
<1>1. PICK n : n = Len(l)
  OBVIOUS
<1>2. PICK m : m = e + 1
  OBVIOUS
<1>3. PICK s : s = SubSeq(rest, m, n)
  OBVIOUS
<1>4. /\ l \in Ladders /\ n \in Nat /\ n <= MaxAsks /\ MaxAsks \in Nat /\ e \in Nat /\ e <= n
      /\ m \in Nat /\ m = e + 1
  BY <1>1, <1>2, LadderAsks, TicketNumbers DEF Book
<1>5. \A i \in m .. n : rest[i] \in LadderAsk
  BY <1>1, <1>4
<1>6. /\ s \in Seq(LadderAsk) /\ Len(s) = n - e
      /\ \A i \in 1 .. n - e : s[i] = rest[e + i]
  <2>1. m \in Int /\ n \in Int
    BY <1>4
  <2>2. /\ s \in Seq(LadderAsk) /\ Len(s) = IF m <= n THEN n - m + 1 ELSE 0
        /\ \A i \in 1 .. n - m + 1 : s[i] = rest[m + i - 1]
    BY <1>3, <1>5, <2>1, SubSeqProperties
  <2>3. n - m + 1 = n - e /\ (~(m <= n) => n - e = 0)
    BY <1>4
  <2>4. \A i \in 1 .. n - e : m + i - 1 = e + i
    BY <1>4
  <2> QED
    BY <2>2, <2>3, <2>4
<1>7. ByPrice(s)
  <2> SUFFICES ASSUME NEW i \in 1 .. Len(s), NEW j \in 1 .. Len(s), i < j
               PROVE  s[i].price <= s[j].price
    BY DEF ByPrice
  <2>1. /\ e + i \in 1 .. n /\ e + j \in 1 .. n /\ e + i < e + j
        /\ e + i > e /\ e + j > e
    BY <1>4, <1>6
  <2>2. s[i] = rest[e + i] /\ s[j] = rest[e + j]
    BY <1>6
  <2>3. l[e + i].price <= l[e + j].price
    BY <1>1, <2>1 DEF ByPrice, Book
  <2>4. rest[e + i].price = l[e + i].price /\ rest[e + j].price = l[e + j].price
    BY <1>1, <2>1
  <2> QED
    BY <2>2, <2>3, <2>4
<1>8. Len(s) <= MaxAsks
  BY <1>4, <1>6
<1> QED
  BY <1>1, <1>2, <1>3, <1>6, <1>7, <1>8 DEF Book, Ladders

\* What is left of an ask.
LeftOf(ask, taken) == [ask EXCEPT !.units = @ - taken]

\* A purchase empties the first asks, and leaves units in those behind.
LEMMA EmptiedFirst ==
  ASSUME NEW l \in Ladders, NEW x, Fills(l, x), InTurn(l, x),
         NEW rest, \A i \in 1 .. Len(l) : rest[i] = LeftOf(l[i], x[i]),
         NEW E, E = {i \in 1 .. Len(l) : rest[i].units = 0}
  PROVE  /\ Cardinality(E) \in 0 .. Len(l)
         /\ \A i \in 1 .. Len(l) : i > Cardinality(E) =>
              rest[i] \in LadderAsk /\ rest[i].price = l[i].price
<1>1. Len(l) \in Nat
  BY LadderAsks
<1>2. ASSUME NEW i \in 1 .. Len(l)
      PROVE  /\ rest[i].price = l[i].price /\ rest[i].units = l[i].units - x[i]
             /\ rest[i].units \in Nat
             /\ rest[i].units # 0 => rest[i] \in LadderAsk
             /\ x[i] \in Nat /\ l[i].units \in Nat /\ l[i].units > 0
  <2>1. /\ l[i] \in LadderAsk /\ x[i] \in Nat /\ x[i] <= l[i].units
        /\ l[i].price \in Nat /\ l[i].price > 0 /\ l[i].units \in Nat /\ l[i].units > 0
    BY LadderAsks DEF Fills
  <2>2. rest[i] = [l[i] EXCEPT !.units = @ - x[i]]
    BY DEF LeftOf
  <2>3. l[i] = [price |-> l[i].price, units |-> l[i].units]
    BY <2>1 DEF LadderAsk
  <2>4. rest[i] = [price |-> l[i].price, units |-> l[i].units - x[i]]
    BY <2>2, <2>3
  <2> QED
    BY <2>1, <2>4 DEF LadderAsk
<1>3. \A i \in 1 .. Len(l) : i \in E <=> rest[i].units = 0
  OBVIOUS
<1>4. ASSUME NEW i \in 1 .. Len(l), NEW j \in 1 .. Len(l), i < j, j \in E
      PROVE  i \in E
  <2>1. rest[j].units = 0 /\ rest[j].units = l[j].units - x[j] /\ l[j].units > 0
        /\ x[j] \in Nat /\ l[j].units \in Nat
    BY <1>2, <1>3, <1>4
  <2>2. x[j] > 0
    BY <2>1
  <2>3. x[i] = l[i].units
    BY <1>4, <2>2 DEF InTurn
  <2>4. rest[i].units = l[i].units - x[i] /\ l[i].units \in Nat
    BY <1>2
  <2>5. rest[i].units = 0
    BY <2>3, <2>4
  <2> QED
    BY <1>3, <2>5
<1>5. Cardinality(E) \in 0 .. Len(l) /\ E = 1 .. Cardinality(E)
  BY <1>1, <1>4, FirstOnes
<1>6. ASSUME NEW i \in 1 .. Len(l), i > Cardinality(E) PROVE i \notin E
  <2>1. PICK c : c = Cardinality(E)
    OBVIOUS
  <2>2. c \in Nat /\ i \in Nat /\ i > c
    BY <1>1, <1>5, <1>6, <2>1
  <2>3. i \notin 1 .. c
    BY <2>2
  <2> QED
    BY <1>5, <2>1, <2>3, Zenon
<1> QED
  BY <1>2, <1>3, <1>5, <1>6

\* What a purchase charges, in these terms.
LEMMA BuyIs ==
  ASSUME Book(ladder), Signable(ticket), BuyLands,
         NEW x, x = Takes(ticket.size, ticket.limit)
  PROVE  /\ Pending /\ charge' # Uncharged /\ UNCHANGED <<ticket, moved>>
         /\ DOMAIN x = 1 .. Len(ladder) /\ x = [i \in DOMAIN x |-> x[i]]
         /\ \A i \in 1 .. Len(ladder) :
              x[i] = TakenOf(ladder, ticket.size, ticket.limit, i)
         /\ charge'.filled = Filled(ladder, x) /\ charge'.premium = PremiumOn(ladder, x)
         /\ Book(ladder')
<1> DEFINE S == 1 .. Len(ladder)
           premiums == [i \in S |-> PremiumFor(x[i], ladder[i].price)]
           fees == [i \in S |-> FeeCeilOf(premiums[i])]
           rest == [i \in S |-> [ladder[i] EXCEPT !.units = @ - x[i]]]
           emptied == Cardinality({i \in S : rest[i].units = 0})
<1>1. /\ ticket # NoTicket /\ charge = Uncharged /\ SumFunction(x) > 0
      /\ charge' = [filled |-> SumFunction(x), premium |-> SumFunction(premiums),
                    fee |-> SumFunction(fees)]
      /\ ladder' = SubSeq(rest, emptied + 1, Len(ladder))
      /\ UNCHANGED <<ticket, moved>>
  BY DEF BuyLands
<1>2. /\ ladder \in Ladders /\ ByPrice(ladder) /\ ticket.size \in Nat /\ ticket.limit \in Nat
  BY DEF Book, Signable
<1>3. DOMAIN x = S /\ \A i \in S : x[i] = TakenOf(ladder, ticket.size, ticket.limit, i)
  BY <1>2, TakesAre
<1>4. x = [i \in DOMAIN x |-> x[i]]
  BY DEF Takes
<1>5. Fills(ladder, x) /\ InTurn(ladder, x)
  BY <1>2, <1>3, TakesFill
<1>6. SumFunction(x) = Filled(ladder, x)
  BY <1>3 DEF SumFunction, Filled
<1>7. SumFunction(premiums) = PremiumOn(ladder, x)
  <2>1. DOMAIN premiums = S /\ premiums = PremiumsOn(ladder, x)
    BY DEF PremiumsOn
  <2> HIDE DEF premiums
  <2> QED
    BY <2>1 DEF SumFunction, PremiumOn
<1>8. charge' # Uncharged
  <2>1. charge'.filled = SumFunction(x) /\ Uncharged.filled = 0
    BY <1>1 DEF Uncharged
  <2>2. SumFunction(x) # 0
    BY <1>1
  <2> QED
    BY <2>1, <2>2
<1>9. Book(ladder')
  <2> DEFINE E == {i \in S : rest[i].units = 0}
  <2>1. \A i \in 1 .. Len(ladder) : rest[i] = LeftOf(ladder[i], x[i])
    BY DEF LeftOf
  <2>2. ladder' = SubSeq(rest, Cardinality(E) + 1, Len(ladder))
    BY <1>1
  <2> HIDE DEF premiums, fees, rest
  <2>3. E = {i \in 1 .. Len(ladder) : rest[i].units = 0}
    OBVIOUS
  <2> HIDE DEF E, S
  <2>4. /\ Cardinality(E) \in 0 .. Len(ladder)
        /\ \A i \in 1 .. Len(ladder) : i > Cardinality(E) =>
             rest[i] \in LadderAsk /\ rest[i].price = ladder[i].price
    BY <1>2, <1>5, <2>1, <2>3, EmptiedFirst
  <2> QED
    BY <2>2, <2>4, BookBehind
<1> QED
  BY <1>1, <1>3, <1>4, <1>6, <1>7, <1>8, <1>9 DEF Pending

\* A purchase that lands is honoured.
LEMMA BuyHonours ==
  ASSUME TicketInv, BuyLands
  PROVE  TicketInv'
<1> DEFINE x == Takes(ticket.size, ticket.limit)
<1>1. Book(ladder) /\ Signable(ticket) /\ ticket # NoTicket
  BY DEF TicketInv, BuyLands
<1>2. /\ Pending /\ charge' # Uncharged /\ ticket' = ticket /\ moved' = moved
      /\ DOMAIN x = 1 .. Len(ladder) /\ x = [i \in DOMAIN x |-> x[i]]
      /\ \A i \in 1 .. Len(ladder) :
           x[i] = TakenOf(ladder, ticket.size, ticket.limit, i)
      /\ charge'.filled = Filled(ladder, x) /\ charge'.premium = PremiumOn(ladder, x)
      /\ Book(ladder')
  BY <1>1, BuyIs
<1> HIDE DEF x
<1>3. moved = {} => charge'.filled = ticket.size /\ charge'.premium = ticket.premium
  BY <1>1, <1>2, ShownCharge DEF TicketInv
<1>4. "less" \notin moved => charge'.premium < ticket.premium + WalkLimit
  BY <1>1, <1>2, CoveredCharge DEF TicketInv
<1>5. charge'.premium * PerLot <= ticket.limit * charge'.filled
  BY <1>1, <1>2, LimitedCharge
<1>6. TicketHonoured'
  BY <1>2, <1>3, <1>4, <1>5 DEF TicketHonoured
<1>7. ~Pending'
  BY <1>2 DEF Pending
<1>8. Signable(ticket)'
  BY <1>1, <1>2 DEF Signable
<1> QED
  BY <1>2, <1>6, <1>7, <1>8 DEF TicketInv

\* An ask put behind those no dearer makes a book of one ask more.
Behind(l, e, m) ==
  /\ m \in 1 .. Len(l) + 1
  /\ \A i \in 1 .. Len(l) : IF i < m THEN l[i].price <= e.price ELSE e.price <= l[i].price

\* What the insertion of an ask does to each place of a ladder.
LEMMA AskInserted ==
  ASSUME NEW l \in Seq(LadderAsk), NEW e \in LadderAsk, NEW m \in 1 .. Len(l) + 1
  PROVE  /\ InsertAt(l, m, e) \in Seq(LadderAsk)
         /\ Len(InsertAt(l, m, e)) = Len(l) + 1
         /\ \A k \in 1 .. Len(l) + 1 :
              InsertAt(l, m, e)[k] = IF k < m THEN l[k] ELSE IF k = m THEN e ELSE l[k - 1]
BY InsertedAt

\* The order of the prices is kept.
LEMMA BookInserted ==
  ASSUME NEW l, Book(l), Len(l) < MaxAsks, NEW e \in LadderAsk, NEW m, Behind(l, e, m)
  PROVE  Book(InsertAt(l, m, e)) /\ Len(InsertAt(l, m, e)) = Len(l) + 1
<1>1. PICK s : s = InsertAt(l, m, e)
  OBVIOUS
<1>2. /\ Len(l) \in Nat /\ l \in Seq(LadderAsk) /\ MaxAsks \in Nat /\ m \in 1 .. Len(l) + 1
      /\ \A i \in 1 .. Len(l) : l[i].price \in Nat
      /\ e.price \in Nat
  BY LadderAsks, TicketNumbers DEF Book, Behind, LadderAsk
<1>3. /\ s \in Seq(LadderAsk) /\ Len(s) = Len(l) + 1
      /\ \A k \in 1 .. Len(l) + 1 :
           s[k] = IF k < m THEN l[k] ELSE IF k = m THEN e ELSE l[k - 1]
  <2>1. /\ InsertAt(l, m, e) \in Seq(LadderAsk) /\ Len(InsertAt(l, m, e)) = Len(l) + 1
        /\ \A k \in 1 .. Len(l) + 1 : InsertAt(l, m, e)[k] =
             IF k < m THEN l[k] ELSE IF k = m THEN e ELSE l[k - 1]
    <3>1. l \in Seq(LadderAsk) /\ m \in 1 .. Len(l) + 1
      BY <1>2
    <3> QED
      BY <3>1, AskInserted
  <2> QED
    BY <1>1, <2>1
<1>4. ByPrice(s)
  <2> SUFFICES ASSUME NEW i \in 1 .. Len(s), NEW j \in 1 .. Len(s), i < j
               PROVE  s[i].price <= s[j].price
    BY DEF ByPrice
  <2>1. /\ s[i] = IF i < m THEN l[i] ELSE IF i = m THEN e ELSE l[i - 1]
        /\ s[j] = IF j < m THEN l[j] ELSE IF j = m THEN e ELSE l[j - 1]
        /\ i \in Nat /\ j \in Nat /\ m \in Nat
    BY <1>2, <1>3
  <2>2. CASE j < m
    <3>1. i < m /\ i \in 1 .. Len(l) /\ j \in 1 .. Len(l)
      BY <1>2, <1>3, <2>1, <2>2
    <3>2. l[i].price <= l[j].price
      BY <3>1 DEF ByPrice, Book
    <3> QED
      BY <2>1, <2>2, <3>1, <3>2
  <2>3. CASE j = m
    <3>1. i < m /\ i \in 1 .. Len(l)
      BY <1>2, <1>3, <2>1, <2>3
    <3>2. l[i].price <= e.price
      BY <3>1 DEF Behind
    <3> QED
      BY <2>1, <2>3, <3>1, <3>2
  <2>4. CASE j > m
    <3>1. j - 1 \in 1 .. Len(l) /\ ~(j < m) /\ j # m /\ ~(j - 1 < m)
      BY <1>2, <1>3, <2>1, <2>4
    <3>2. CASE i < m
      <4>1. i \in 1 .. Len(l) /\ i < j - 1
        BY <1>2, <1>3, <2>1, <2>4, <3>2
      <4>2. l[i].price <= l[j - 1].price
        BY <3>1, <4>1 DEF ByPrice, Book
      <4> QED
        BY <2>1, <3>1, <3>2, <4>2
    <3>3. CASE i = m
      <4>1. e.price <= l[j - 1].price
        BY <3>1 DEF Behind
      <4> QED
        BY <2>1, <3>1, <3>3, <4>1
    <3>4. CASE i > m
      <4>1. i - 1 \in 1 .. Len(l) /\ i - 1 < j - 1 /\ ~(i < m) /\ i # m
        BY <1>2, <1>3, <2>1, <3>4
      <4>2. l[i - 1].price <= l[j - 1].price
        BY <3>1, <4>1 DEF ByPrice, Book
      <4> QED
        BY <2>1, <3>1, <4>1, <4>2
    <3> QED
      BY <2>1, <3>2, <3>3, <3>4
  <2> QED
    BY <2>1, <2>2, <2>3, <2>4
<1>5. Len(s) <= MaxAsks
  BY <1>2, <1>3
<1> QED
  BY <1>1, <1>3, <1>4, <1>5 DEF Book, Ladders

\* A fill of the book before is a fill of the book after, at the same cost.
LEMMA FillInserted ==
  ASSUME NEW l, Book(l), Len(l) < MaxAsks, NEW e \in LadderAsk, NEW m, Behind(l, e, m),
         NEW t, Fills(l, t)
  PROVE  \E u : /\ Fills(InsertAt(l, m, e), u)
                /\ Filled(InsertAt(l, m, e), u) = Filled(l, t)
                /\ Cost(InsertAt(l, m, e), u) = Cost(l, t)
<1>1. l \in Seq(LadderAsk) /\ m \in 1 .. Len(l) + 1
  BY LadderAsks DEF Book, Behind
<1>2. /\ InsertAt(l, m, e) \in Seq(LadderAsk) /\ Len(InsertAt(l, m, e)) = Len(l) + 1
      /\ \A k \in 1 .. Len(l) + 1 : InsertAt(l, m, e)[k] =
           IF k < m THEN l[k] ELSE IF k = m THEN e ELSE l[k - 1]
  BY <1>1, AskInserted
<1>3. PICK s : s = InsertAt(l, m, e)
  OBVIOUS
<1> DEFINE u == [i \in 1 .. Len(l) + 1 |->
                   IF i < m THEN t[i] ELSE IF i = m THEN 0 ELSE t[i - 1]]
           n == Len(l)
<1>4. /\ n \in Nat /\ l \in Ladders /\ l \in Seq(LadderAsk) /\ m \in 1 .. n + 1
      /\ \A i \in 1 .. n : l[i].price \in Nat /\ l[i].units \in Nat
      /\ e.price \in Nat /\ e.units \in Nat
      /\ \A i \in 1 .. n : t[i] \in Nat /\ t[i] <= l[i].units
  BY LadderAsks, TicketNumbers DEF Book, Behind, LadderAsk, Fills
<1>5. /\ s \in Ladders /\ Len(s) = n + 1
      /\ \A k \in 1 .. n + 1 :
           s[k] = IF k < m THEN l[k] ELSE IF k = m THEN e ELSE l[k - 1]
  BY <1>2, <1>3 DEF Ladders
<1>6. \A i \in 1 .. n : LET j == IF i < m THEN i ELSE i + 1
                        IN  j \in 1 .. n + 1 /\ u[j] = t[i] /\ s[j] = l[i]
  <2> SUFFICES ASSUME NEW i \in 1 .. n
               PROVE  LET j == IF i < m THEN i ELSE i + 1
                      IN  j \in 1 .. n + 1 /\ u[j] = t[i] /\ s[j] = l[i]
    OBVIOUS
  <2>0. i \in Nat /\ m \in Nat
    BY <1>4
  <2>1. CASE i < m
    <3>1. i \in 1 .. n + 1
      BY <1>4
    <3>2. u[i] = t[i] /\ s[i] = l[i]
      BY <1>5, <2>1, <3>1
    <3> HIDE DEF u, n
    <3> QED
      BY <2>1, <3>1, <3>2
  <2>2. CASE ~(i < m)
    <3>1. i + 1 \in 1 .. n + 1 /\ ~(i + 1 < m) /\ i + 1 # m /\ (i + 1) - 1 = i
      BY <1>4, <2>0, <2>2
    <3>2. u[i + 1] = t[i] /\ s[i + 1] = l[i]
      BY <1>5, <3>1
    <3> HIDE DEF u, n
    <3> QED
      BY <2>2, <3>1, <3>2
  <2> QED
    BY <2>1, <2>2
<1>7. u[m] = 0 /\ s[m] = e /\ m \in 1 .. n + 1
  BY <1>4, <1>5
<1>8. Fills(s, u)
  <2>1. ASSUME NEW i \in 1 .. n + 1 PROVE u[i] \in Nat /\ u[i] <= s[i].units
    <3>0. i \in Nat /\ m \in Nat
      BY <1>4
    <3>1. CASE i < m
      <4>1. i \in 1 .. n
        BY <1>4, <3>0, <3>1
      <4>2. u[i] = t[i] /\ s[i] = l[i]
        BY <1>6, <3>1, <4>1
      <4> HIDE DEF u
      <4> QED
        BY <1>4, <4>1, <4>2
    <3>2. CASE i = m
      <4> HIDE DEF u
      <4> QED
        BY <1>4, <1>7, <3>2
    <3>3. CASE i > m
      <4>1. i - 1 \in 1 .. n /\ ~(i - 1 < m) /\ (i - 1) + 1 = i
        BY <1>4, <3>0, <3>3
      <4>2. u[i] = t[i - 1] /\ s[i] = l[i - 1]
        BY <1>6, <4>1
      <4> HIDE DEF u
      <4> QED
        BY <1>4, <4>1, <4>2
    <3> QED
      BY <3>0, <3>1, <3>2, <3>3
  <2>2. DOMAIN u = 1 .. n + 1
    OBVIOUS
  <2> HIDE DEF u
  <2> QED
    BY <1>5, <2>1, <2>2 DEF Fills
<1>9. Filled(s, u) = Filled(l, t)
  <2>1. NatTerms(t, 1 .. n)
    BY <1>4 DEF NatTerms
  <2>2. \A i \in 1 .. n : u[IF i < m THEN i ELSE i + 1] = t[i]
    BY <1>6
  <2> HIDE DEF u, n
  <2>3. SumFunctionOnSet(u, 1 .. n + 1) = SumFunctionOnSet(t, 1 .. n)
    BY <1>4, <1>7, <2>1, <2>2, SumInserted
  <2> QED
    BY <1>5, <2>3 DEF Filled, n
<1>10. Cost(s, u) = Cost(l, t)
  <2> DEFINE f == CostsOn(l, t)
             g == CostsOn(s, u)
  <2>1. NatTerms(f, 1 .. n)
    BY <1>4, FillNumbers
  <2>2. \A j \in 1 .. n + 1 : g[j] = u[j] * s[j].price
    BY <1>5 DEF CostsOn
  <2>3. \A i \in 1 .. n : f[i] = t[i] * l[i].price
    BY DEF CostsOn
  <2> HIDE DEF u, n, f, g
  <2>4. \A i \in 1 .. n : g[IF i < m THEN i ELSE i + 1] = f[i]
    BY <1>6, <2>2, <2>3
  <2>5. g[m] = 0
    BY <1>4, <1>7, <2>2
  <2>6. SumFunctionOnSet(g, 1 .. n + 1) = SumFunctionOnSet(f, 1 .. n)
    BY <1>4, <2>1, <2>4, <2>5, SumInserted
  <2> QED
    BY <1>5, <2>6 DEF Cost, n, f, g
<1> HIDE DEF u
<1> QED
  BY <1>3, <1>8, <1>9, <1>10

\* The book without its dearest ask, and the part of a fill that goes with it.
LEMMA WithoutLast ==
  ASSUME NEW l, Book(l), NEW n \in Nat, Len(l) = n + 1
  PROVE  /\ Book(Front(l)) /\ Len(Front(l)) = n
         /\ \A i \in 1 .. n : Front(l)[i] = l[i]
         /\ \A i \in 1 .. n + 1 : l[i].price <= l[n + 1].price
<1>1. PICK s : s = Front(l)
  OBVIOUS
<1>2. l \in Seq(LadderAsk) /\ MaxAsks \in Nat /\ n + 1 <= MaxAsks /\ l \in Ladders
  BY TicketNumbers DEF Book, Ladders
<1>3. /\ s \in Seq(LadderAsk) /\ Len(s) = n /\ \A i \in 1 .. n : s[i] = l[i]
  BY <1>1, <1>2, FrontOf
<1>4. ByPrice(l) /\ l[n + 1].price \in Nat
  BY <1>2, LadderAsks DEF Book
<1>5. ByPrice(s)
  <2> SUFFICES ASSUME NEW i \in 1 .. n, NEW j \in 1 .. n, i < j
               PROVE  s[i].price <= s[j].price
    BY <1>3 DEF ByPrice
  <2>1. i \in 1 .. Len(l) /\ j \in 1 .. Len(l)
    OBVIOUS
  <2>2. l[i].price <= l[j].price
    BY <1>4, <2>1 DEF ByPrice
  <2> QED
    BY <1>3, <2>2
<1>6. ASSUME NEW i \in 1 .. n + 1 PROVE l[i].price <= l[n + 1].price
  <2>1. CASE i = n + 1
    BY <1>4, <2>1
  <2>2. CASE i # n + 1
    <3>1. i \in 1 .. Len(l) /\ n + 1 \in 1 .. Len(l) /\ i < n + 1
      BY <2>2
    <3> QED
      BY <1>4, <3>1 DEF ByPrice
  <2> QED
    BY <2>1, <2>2
<1> QED
  BY <1>1, <1>2, <1>3, <1>5, <1>6 DEF Book, Ladders

\* A fill of it, and what the fill took from the ask that is gone.
LEMMA FillWithoutLast ==
  ASSUME NEW l, Book(l), NEW n \in Nat, Len(l) = n + 1, NEW t, Fills(l, t),
         NEW u, u = [i \in 1 .. n |-> t[i]]
  PROVE  /\ Fills(Front(l), u) /\ t[n + 1] \in Nat /\ l[n + 1].price \in Nat
         /\ Filled(l, t) = Filled(Front(l), u) + t[n + 1]
         /\ Cost(l, t) = Cost(Front(l), u) + t[n + 1] * l[n + 1].price
<1>1. PICK s : s = Front(l)
  OBVIOUS
<1>2. /\ Book(s) /\ Len(s) = n /\ \A i \in 1 .. n : s[i] = l[i]
      /\ l \in Ladders /\ s \in Ladders
  BY <1>1, WithoutLast DEF Book
<1>3. Fills(s, u)
  BY <1>2 DEF Fills
<1>4. t[n + 1] \in Nat /\ l[n + 1].price \in Nat
  BY <1>2, LadderAsks DEF Fills
<1> DEFINE S == 1 .. n
           f == CostsOn(l, t)
           g == CostsOn(s, u)
<1>5. /\ IsFiniteSet(S) /\ IntTerms(t, S) /\ IntTerms(f, S)
      /\ IntTerms(u, S) /\ IntTerms(g, S)
  <2>1. n \in 0 .. Len(l) /\ n \in 0 .. Len(s)
    BY <1>2
  <2> QED
    BY <1>2, <1>3, <2>1, FillTerms, NatTermsAreInts
<1>6. \A i \in S : u[i] = t[i] /\ g[i] = f[i]
  BY <1>2 DEF CostsOn
<1>7. f[n + 1] = t[n + 1] * l[n + 1].price
  BY DEF CostsOn
<1>8. S \cup {n + 1} = 1 .. n + 1 /\ n + 1 \notin S
  OBVIOUS
<1>9. t[n + 1] * l[n + 1].price \in Nat
  BY <1>4, MulNat
<1>10. /\ Filled(l, t) = SumFunctionOnSet(t, S \cup {n + 1})
       /\ Cost(l, t) = SumFunctionOnSet(f, S \cup {n + 1})
       /\ Filled(s, u) = SumFunctionOnSet(u, S)
       /\ Cost(s, u) = SumFunctionOnSet(g, S)
  BY <1>2, <1>8 DEF Filled, Cost
<1> HIDE DEF S, f, g
<1>11. /\ SumFunctionOnSet(t, S \cup {n + 1}) = t[n + 1] + SumFunctionOnSet(t, S)
       /\ SumFunctionOnSet(f, S \cup {n + 1}) = f[n + 1] + SumFunctionOnSet(f, S)
  BY <1>4, <1>5, <1>7, <1>8, <1>9, SumAdd
<1>12. /\ SumFunctionOnSet(t, S) = SumFunctionOnSet(u, S)
       /\ SumFunctionOnSet(f, S) = SumFunctionOnSet(g, S)
  BY <1>5, <1>6, SumAgree
<1>13. SumFunctionOnSet(t, S) \in Int /\ SumFunctionOnSet(f, S) \in Int
  BY <1>5, SumInt
<1> QED
  BY <1>1, <1>3, <1>4, <1>7, <1>9, <1>10, <1>11, <1>12, <1>13

\* A post leaves the ticket covered: what it evicts is missing from the fill, and
\* nothing on the book is dearer than what was evicted.
LEMMA CoveredThroughInsert ==
  ASSUME NEW l, Book(l), Len(l) < MaxAsks, NEW e \in LadderAsk, NEW m, Behind(l, e, m),
         NEW tk, NEW t, NEW short, NEW worst, NEW cap \in Nat,
         Fills(l, t), short \in Nat, worst \in Nat,
         Filled(l, t) + short = tk.size,
         Cost(l, t) + short * worst < cap,
         cap = (tk.premium + WalkLimit) * PerLot,
         \A i \in 1 .. Len(l) : l[i].price <= worst,
         short > 0 => Len(l) + 1 = MaxAsks /\ e.price <= worst
  PROVE  Covered(InsertAt(l, m, e), tk)
<1>1. PICK s : s = InsertAt(l, m, e)
  OBVIOUS
<1>2. /\ Len(l) \in Nat /\ m \in 1 .. Len(l) + 1 /\ l \in Seq(LadderAsk) /\ e.price \in Nat
      /\ \A i \in 1 .. Len(l) : l[i].price \in Nat
  BY LadderAsks DEF Book, Behind, LadderAsk
<1>3. /\ Len(s) = Len(l) + 1
      /\ \A k \in 1 .. Len(l) + 1 :
           s[k] = IF k < m THEN l[k] ELSE IF k = m THEN e ELSE l[k - 1]
  <2>1. /\ Len(InsertAt(l, m, e)) = Len(l) + 1
        /\ \A k \in 1 .. Len(l) + 1 : InsertAt(l, m, e)[k] =
             IF k < m THEN l[k] ELSE IF k = m THEN e ELSE l[k - 1]
    BY <1>2, AskInserted
  <2> QED
    BY <1>1, <2>1
<1>4. PICK u : Fills(s, u) /\ Filled(s, u) = Filled(l, t) /\ Cost(s, u) = Cost(l, t)
  BY <1>1, FillInserted
<1>5. ASSUME NEW w \in Nat, worst <= w, e.price <= w, NEW i \in 1 .. Len(s)
      PROVE  s[i].price <= w
  <2>0. i \in Nat /\ m \in Nat /\ i \in 1 .. Len(l) + 1
    BY <1>2, <1>3
  <2>1. CASE i < m
    <3>1. i \in 1 .. Len(l) /\ s[i] = l[i]
      BY <1>2, <1>3, <2>0, <2>1
    <3>2. l[i].price <= worst /\ l[i].price \in Nat
      BY <1>2, <3>1
    <3> QED
      BY <1>5, <3>1, <3>2
  <2>2. CASE i = m
    BY <1>3, <1>5, <2>0, <2>2
  <2>3. CASE i > m
    <3>1. i - 1 \in 1 .. Len(l) /\ s[i] = l[i - 1]
      BY <1>2, <1>3, <2>0, <2>3
    <3>2. l[i - 1].price <= worst /\ l[i - 1].price \in Nat
      BY <1>2, <3>1
    <3> QED
      BY <1>5, <3>1, <3>2
  <2> QED
    BY <2>0, <2>1, <2>2, <2>3
<1>6. CASE short = 0
  <2> DEFINE w == worst + e.price
  <2>1. w \in Nat /\ worst <= w /\ e.price <= w
    BY <1>2
  <2>2. short * w = 0 /\ short * worst = 0
    BY <1>6, <2>1
  <2>3. \A i \in 1 .. Len(s) : s[i].price <= w
    BY <1>5, <2>1
  <2> HIDE DEF w
  <2>4. CoveredBy(s, tk, u, short, w)
    BY <1>4, <1>6, <2>1, <2>2, <2>3 DEF CoveredBy
  <2> QED
    BY <1>1, <2>4 DEF Covered
<1>7. CASE short > 0
  <2>1. \A i \in 1 .. Len(s) : s[i].price <= worst
    BY <1>5, <1>7
  <2>2. CoveredBy(s, tk, u, short, worst)
    BY <1>3, <1>4, <1>7, <2>1 DEF CoveredBy
  <2> QED
    BY <1>1, <2>2 DEF Covered
<1> QED
  BY <1>6, <1>7

\* and so does a post on a full book, which first evicts the dearest ask.
LEMMA CoveredThroughPost ==
  ASSUME NEW l, Book(l), NEW e \in LadderAsk, NEW tk, Signable(tk), Covered(l, tk),
         NEW kept, kept = IF Len(l) = MaxAsks THEN Front(l) ELSE l,
         Len(l) = MaxAsks => e.price < Last(l).price,
         NEW m, Behind(kept, e, m)
  PROVE  Covered(InsertAt(kept, m, e), tk)
<1>1. PICK t, short, worst : CoveredBy(l, tk, t, short, worst)
  BY DEF Covered
<1>2. PICK cap : cap = (tk.premium + WalkLimit) * PerLot
  OBVIOUS
<1>3. /\ MaxAsks \in Nat /\ MaxAsks > 0 /\ Len(l) \in Nat /\ Len(l) <= MaxAsks /\ l \in Ladders
      /\ cap \in Nat /\ e.price \in Nat
  <2>1. tk.premium + WalkLimit \in Nat /\ PerLot \in Nat
    BY TicketNumbers DEF Signable
  <2> QED
    BY <1>2, <2>1, MulNat, LadderAsks, TicketNumbers DEF Book, LadderAsk
<1>4. /\ Fills(l, t) /\ short \in Nat /\ worst \in Nat
      /\ Filled(l, t) + short = tk.size /\ Cost(l, t) + short * worst < cap
      /\ \A i \in 1 .. Len(l) : l[i].price <= worst
      /\ short > 0 => Len(l) = MaxAsks
  BY <1>1, <1>2 DEF CoveredBy
<1>5. CASE Len(l) # MaxAsks
  <2>1. kept = l /\ Len(l) < MaxAsks /\ short = 0
    BY <1>3, <1>4, <1>5
  <2> QED
    <3>1. Behind(l, e, m) /\ (short > 0 => Len(l) + 1 = MaxAsks /\ e.price <= worst)
      BY <1>3, <1>4, <2>1
    <3>2. Covered(InsertAt(l, m, e), tk)
      BY <1>2, <1>3, <1>4, <2>1, <3>1, CoveredThroughInsert
    <3> QED
      BY <2>1, <3>2
<1>6. CASE Len(l) = MaxAsks
  <2>1. PICK n \in Nat : Len(l) = n + 1
    <3>1. MaxAsks - 1 \in Nat /\ Len(l) = (MaxAsks - 1) + 1
      BY <1>3, <1>6
    <3> QED
      BY <3>1
  <2>2. PICK u : u = [i \in 1 .. n |-> t[i]]
    OBVIOUS
  <2>3. kept = Front(l) /\ Last(l) = l[n + 1]
    BY <1>6, <2>1 DEF Last
  <2>4. /\ Book(kept) /\ Len(kept) = n /\ kept \in Ladders
        /\ \A i \in 1 .. n : kept[i] = l[i]
        /\ \A i \in 1 .. n + 1 : l[i].price <= l[n + 1].price
    BY <2>1, <2>3, WithoutLast DEF Book
  <2>5. PICK v, p, d : v = t[n + 1] /\ p = l[n + 1].price /\ d = short + v
    OBVIOUS
  <2>6. /\ Fills(kept, u) /\ v \in Nat /\ p \in Nat
        /\ Filled(l, t) = Filled(kept, u) + v
        /\ Cost(l, t) = Cost(kept, u) + v * p
    BY <1>4, <2>1, <2>2, <2>3, <2>5, FillWithoutLast
  <2>7. Filled(kept, u) \in Nat /\ Cost(kept, u) \in Nat
    BY <2>4, <2>6, FillNumbers
  <2>8. p <= worst
    <3>1. n + 1 \in 1 .. Len(l)
      BY <2>1
    <3> QED
      BY <1>4, <2>5, <3>1
  <2>9. d \in Nat /\ Filled(kept, u) + d = tk.size
    <3>1. d = short + v
      BY <2>5
    <3>2. short \in Nat /\ Filled(l, t) + short = tk.size
      BY <1>4
    <3> DEFINE F == Filled(kept, u)
               G == Filled(l, t)
    <3>3. G = F + v /\ F \in Nat /\ v \in Nat /\ G + short = tk.size
      BY <2>6, <2>7, <3>2
    <3> HIDE DEF F, G
    <3>4. d \in Nat /\ F + d = tk.size
      BY <3>1, <3>2, <3>3
    <3> QED
      BY <3>4 DEF F
  <2>10. Cost(kept, u) + d * p < cap
    <3>1. p * short <= worst * short
      BY <1>4, <2>6, <2>8, MulMono
    <3>2. /\ d * p = v * p + p * short /\ worst * short = short * worst
          /\ v * p \in Nat /\ p * short \in Nat /\ short * worst \in Nat
      <4>1. d = short + v
        BY <2>5
      <4>2. v * p \in Nat /\ p * short \in Nat /\ short * worst \in Nat
        BY <1>4, <2>6, MulNat
      <4>3. (short + v) * p = v * p + p * short /\ worst * short = short * worst
        BY <1>4, <2>6
      <4> QED
        BY <4>1, <4>2, <4>3
    <3> DEFINE C == Cost(kept, u)
               a == d * p
               b == v * p
               x == p * short
               y == short * worst
    <3>3. /\ a = b + x /\ x <= y /\ (C + b) + y < cap
          /\ C \in Nat /\ b \in Nat /\ x \in Nat /\ y \in Nat
      BY <1>4, <2>6, <2>7, <3>1, <3>2
    <3> HIDE DEF C, a, b, x, y
    <3>4. C + a < cap
      BY <1>3, <3>3
    <3> QED
      BY <3>4 DEF C, a
  <2>11. \A i \in 1 .. Len(kept) : kept[i].price <= p
    BY <2>4, <2>5
  <2>12. Len(kept) < MaxAsks /\ Len(kept) + 1 = MaxAsks
    BY <1>6, <2>1, <2>4
  <2>13. e.price <= p
    <3>1. e.price < l[n + 1].price
      BY <1>6, <2>3
    <3> QED
      BY <1>3, <2>5, <2>6, <3>1
  <2> QED
    BY <1>2, <1>3, <2>4, <2>6, <2>9, <2>10, <2>11, <2>12, <2>13, CoveredThroughInsert
<1> QED
  BY <1>5, <1>6

\* What others do leaves the ticket and the charge, and is remembered.
LEMMA OthersMoveIs ==
  ASSUME NEW how, OthersMove(how)
  PROVE  /\ ticket' = ticket /\ charge' = charge /\ Pending' = Pending
         /\ Pending => moved' = moved \cup {how}
         /\ ~Pending => moved' = moved \/ ticket = NoTicket
BY DEF OthersMove, Pending

\* What is charged stays honoured when others move.
LEMMA ChargeStays ==
  ASSUME TicketInv, NEW how, OthersMove(how)
  PROVE  TicketHonoured'
<1>1. ticket' = ticket /\ charge' = charge
  BY OthersMoveIs
<1>2. CASE charge = Uncharged
  BY <1>1, <1>2 DEF TicketHonoured, Charged
<1>3. CASE charge # Uncharged
  <2>1. moved' = moved
    BY <1>3 DEF OthersMove
  <2> QED
    BY <1>1, <2>1 DEF TicketInv, TicketHonoured, Charged
<1> QED
  BY <1>2, <1>3

\* The place of a new ask is behind those no dearer.
LEMMA FirstDearer ==
  ASSUME NEW l, Book(l), NEW e \in LadderAsk, NEW m \in 1 .. Len(l) + 1,
         \A i \in 1 .. Len(l) : i < m => ~(e.price < l[i].price),
         m <= Len(l) => e.price < l[m].price
  PROVE  Behind(l, e, m)
<1>1. /\ Len(l) \in Nat /\ ByPrice(l) /\ e.price \in Nat
      /\ \A i \in 1 .. Len(l) : l[i].price \in Nat
  BY LadderAsks DEF Book, LadderAsk
<1>2. ASSUME NEW i \in 1 .. Len(l)
      PROVE  IF i < m THEN l[i].price <= e.price ELSE e.price <= l[i].price
  <2>0. i \in Nat /\ m \in Nat
    BY <1>1
  <2>1. CASE i < m
    BY <1>1, <2>1
  <2>2. CASE i = m
    <3>1. e.price < l[i].price
      BY <1>1, <2>2
    <3> QED
      BY <1>1, <2>0, <2>2, <3>1
  <2>3. CASE m < i
    <3>1. m \in 1 .. Len(l)
      BY <1>1, <2>3
    <3>2. l[m].price <= l[i].price
      BY <1>1, <2>3, <3>1 DEF ByPrice
    <3>3. e.price < l[m].price
      BY <1>1, <3>1
    <3> QED
      BY <1>1, <2>0, <2>3, <3>1, <3>2, <3>3
  <2> QED
    BY <2>0, <2>1, <2>2, <2>3
<1> QED
  BY <1>2 DEF Behind

\* which is where a post puts it.
LEMMA PlaceIsBehind ==
  ASSUME NEW l, Book(l), NEW e \in LadderAsk,
         NEW D, D = {i \in 1 .. Len(l) : e.price < l[i].price},
         NEW m, m = IF D = {} THEN Len(l) + 1 ELSE Min(D)
  PROVE  Behind(l, e, m)
<1>1. /\ Len(l) \in Nat
      /\ \A i \in 1 .. Len(l) : i \in D <=> e.price < l[i].price
  BY LadderAsks DEF Book
<1>2. CASE D = {}
  <2>1. m = Len(l) + 1 /\ m \in 1 .. Len(l) + 1 /\ ~(m <= Len(l))
    BY <1>1, <1>2
  <2>2. \A i \in 1 .. Len(l) : ~(e.price < l[i].price)
    BY <1>1, <1>2
  <2> QED
    BY <2>1, <2>2, FirstDearer
<1>3. CASE D # {}
  <2>1. D \in SUBSET Nat /\ D \in SUBSET (1 .. Len(l))
    BY <1>1
  <2>2. m \in D /\ \A k \in D : m <= k
    <3>1. m = Min(D)
      BY <1>3
    <3>2. Min(D) \in D /\ \A k \in D : Min(D) <= k
      BY <1>3, <2>1, LeastMember
    <3> QED
      BY <3>1, <3>2
  <2>3. m \in 1 .. Len(l) /\ e.price < l[m].price /\ m \in 1 .. Len(l) + 1
    BY <1>1, <2>1, <2>2
  <2>4. ASSUME NEW i \in 1 .. Len(l), i < m PROVE ~(e.price < l[i].price)
    <3>1. i \notin D
      BY <2>2, <2>3, <2>4
    <3> QED
      BY <1>1, <3>1
  <2> QED
    BY <2>3, <2>4, FirstDearer
<1> QED
  BY <1>2, <1>3

\* A post by others keeps a ticket covered.
LEMMA PostKeeps ==
  ASSUME TicketInv, OthersPost
  PROVE  TicketInv'
<1>1. PICK price \in AskPrices, units \in AskSizes :
        LET kept == IF Len(ladder) = MaxAsks THEN Front(ladder) ELSE ladder
            dearer == {i \in 1 .. Len(kept) : price < kept[i].price}
            place == IF dearer = {} THEN Len(kept) + 1 ELSE Min(dearer)
        IN  /\ Len(ladder) = MaxAsks => price < Last(ladder).price
            /\ ladder' = InsertAt(kept, place, [price |-> price, units |-> units])
            /\ OthersMove("more")
  BY DEF OthersPost
<1>2. PICK kept : kept = IF Len(ladder) = MaxAsks THEN Front(ladder) ELSE ladder
  OBVIOUS
<1>3. PICK D : D = {i \in 1 .. Len(kept) : price < kept[i].price}
  OBVIOUS
<1>4. PICK m : m = IF D = {} THEN Len(kept) + 1 ELSE Min(D)
  OBVIOUS
<1>5. PICK e : e = [price |-> price, units |-> units]
  OBVIOUS
<1>6. /\ Len(ladder) = MaxAsks => price < Last(ladder).price
      /\ ladder' = InsertAt(kept, m, e) /\ OthersMove("more")
  BY <1>1, <1>2, <1>3, <1>4, <1>5, Zenon
<1>7. e \in LadderAsk /\ e.price = price
  BY <1>5, TicketNumbers DEF LadderAsk
<1>8. Book(ladder) /\ (ticket = NoTicket \/ Signable(ticket))
  BY DEF TicketInv
<1>9. Book(kept) /\ Len(kept) < MaxAsks
  <2>1. MaxAsks \in Nat /\ MaxAsks > 0 /\ Len(ladder) \in Nat /\ Len(ladder) <= MaxAsks
    BY <1>8, TicketNumbers, LadderAsks DEF Book
  <2>2. CASE Len(ladder) = MaxAsks
    <3>1. PICK n \in Nat : Len(ladder) = n + 1
      <4>1. MaxAsks - 1 \in Nat /\ Len(ladder) = (MaxAsks - 1) + 1
        BY <2>1, <2>2
      <4> QED
        BY <4>1
    <3>2. Book(Front(ladder)) /\ Len(Front(ladder)) = n
      BY <1>8, <3>1, WithoutLast
    <3> QED
      BY <1>2, <2>1, <2>2, <3>1, <3>2
  <2>3. CASE Len(ladder) # MaxAsks
    BY <1>2, <1>8, <2>1, <2>3
  <2> QED
    BY <2>2, <2>3
<1>10. Behind(kept, e, m)
  <2>1. D = {i \in 1 .. Len(kept) : e.price < kept[i].price}
    BY <1>3, <1>7
  <2> QED
    BY <1>4, <1>7, <1>9, <2>1, PlaceIsBehind
<1>11. Book(ladder')
  BY <1>6, <1>7, <1>9, <1>10, BookInserted
<1>12. ticket' = ticket /\ charge' = charge /\ Pending' = Pending
  BY <1>6, OthersMoveIs
<1>13. Pending' => ~(moved' = {})
  BY <1>6, <1>12, OthersMoveIs
<1>14. ASSUME Pending', "less" \notin moved' PROVE Covered(ladder', ticket')
  <2>1. Pending /\ "less" \notin moved /\ ticket # NoTicket
    BY <1>6, <1>12, <1>14, OthersMoveIs DEF Pending
  <2>2. Covered(ladder, ticket) /\ Signable(ticket)
    BY <1>8, <2>1 DEF TicketInv
  <2>3. Len(ladder) = MaxAsks => e.price < Last(ladder).price
    BY <1>6, <1>7
  <2>4. Covered(InsertAt(kept, m, e), ticket)
    BY <1>2, <1>7, <1>8, <1>10, <2>2, <2>3, CoveredThroughPost
  <2> QED
    BY <1>6, <1>12, <2>4
<1>15. TicketHonoured'
  BY <1>6, ChargeStays
<1>16. (ticket = NoTicket \/ Signable(ticket))'
  BY <1>8, <1>12 DEF Signable
<1> QED
  BY <1>11, <1>13, <1>14, <1>15, <1>16 DEF TicketInv

\* A book with an ask removed or partly filled is a book.
LEMMA BookAfterTake ==
  ASSUME NEW l, Book(l), NEW k \in 1 .. Len(l), NEW n \in 0 .. l[k].units - 1,
         NEW s, s = IF n = 0 THEN RemoveAt(l, k) ELSE [l EXCEPT ![k].units = n]
  PROVE  Book(s)
<1>1. /\ l \in Ladders /\ l \in Seq(LadderAsk) /\ Len(l) \in Nat /\ MaxAsks \in Nat
      /\ Len(l) <= MaxAsks /\ l[k] \in LadderAsk /\ l[k].units \in Nat /\ n \in Nat
      /\ k \in Nat
      /\ \A i, j \in 1 .. Len(l) : i < j => l[i].price <= l[j].price
  BY LadderAsks, TicketNumbers DEF Book, ByPrice
<1>2. CASE n = 0
  <2>1. /\ s \in Seq(LadderAsk) /\ Len(s) = Len(l) - 1
        /\ \A i \in 1 .. Len(l) - 1 : s[i] = IF i < k THEN l[i] ELSE l[i + 1]
    <3>1. /\ RemoveAt(l, k) \in Seq(LadderAsk) /\ Len(RemoveAt(l, k)) = Len(l) - 1
          /\ \A i \in 1 .. Len(l) - 1 : RemoveAt(l, k)[i] = IF i < k THEN l[i] ELSE l[i + 1]
      BY <1>1, RemovedAt
    <3>2. s = RemoveAt(l, k)
      BY <1>2
    <3> QED
      BY <3>1, <3>2
  <2>2. ByPrice(s)
    <3> SUFFICES ASSUME NEW i \in 1 .. Len(s), NEW j \in 1 .. Len(s), i < j
                 PROVE  s[i].price <= s[j].price
      BY DEF ByPrice
    <3>1. PICK a, b : a = (IF i < k THEN i ELSE i + 1) /\ b = (IF j < k THEN j ELSE j + 1)
      OBVIOUS
    <3>2. a \in 1 .. Len(l) /\ b \in 1 .. Len(l) /\ a < b
      BY <1>1, <2>1, <3>1
    <3>3. s[i] = l[a] /\ s[j] = l[b]
      BY <2>1, <3>1
    <3> QED
      BY <1>1, <3>2, <3>3
  <2> QED
    BY <1>1, <2>1, <2>2 DEF Book, Ladders
<1>3. CASE n # 0
  <2>1. s = [l EXCEPT ![k] = [price |-> l[k].price, units |-> n]]
    <3>1. l[k] = [price |-> l[k].price, units |-> l[k].units]
      BY <1>1 DEF LadderAsk
    <3>2. [l[k] EXCEPT !.units = n] = [price |-> l[k].price, units |-> n]
      BY <3>1
    <3>3. s = [l EXCEPT ![k] = [l[k] EXCEPT !.units = n]]
      BY <1>3
    <3> QED
      BY <3>2, <3>3
  <2>2. [price |-> l[k].price, units |-> n] \in LadderAsk
    BY <1>1, <1>3 DEF LadderAsk
  <2>3. s \in Seq(LadderAsk) /\ Len(s) = Len(l)
    BY <1>1, <2>1, <2>2, ExceptSeq
  <2>4. \A i \in 1 .. Len(l) : s[i].price = l[i].price
    <3>1. PICK q : q = [price |-> l[k].price, units |-> n]
      OBVIOUS
    <3>2. s = [l EXCEPT ![k] = q] /\ q.price = l[k].price /\ DOMAIN l = 1 .. Len(l)
      BY <1>1, <2>1, <3>1, LadderAsks
    <3>3. \A i \in 1 .. Len(l) : s[i] = IF i = k THEN q ELSE l[i]
      BY <3>2
    <3> QED
      BY <3>2, <3>3
  <2>5. ByPrice(s)
    BY <1>1, <2>3, <2>4 DEF ByPrice
  <2> QED
    BY <1>1, <2>3, <2>5 DEF Book, Ladders
<1> QED
  BY <1>2, <1>3

\* A cancel or a fill by others.
LEMMA TakeKeeps ==
  ASSUME TicketInv, OthersTake
  PROVE  TicketInv'
<1>0. PICK k \in 1 .. Len(ladder) : \E n \in 0 .. ladder[k].units - 1 :
        /\ ladder' = IF n = 0 THEN RemoveAt(ladder, k) ELSE [ladder EXCEPT ![k].units = n]
        /\ OthersMove("less")
  BY DEF OthersTake
<1>1. PICK n \in 0 .. ladder[k].units - 1 :
        /\ ladder' = IF n = 0 THEN RemoveAt(ladder, k) ELSE [ladder EXCEPT ![k].units = n]
        /\ OthersMove("less")
  BY <1>0
<1>2. Book(ladder) /\ (ticket = NoTicket \/ Signable(ticket))
  BY DEF TicketInv
<1>3. Book(ladder')
  BY <1>1, <1>2, BookAfterTake
<1>4. ticket' = ticket /\ charge' = charge /\ Pending' = Pending
  BY <1>1, OthersMoveIs
<1>5. Pending' => "less" \in moved' /\ ~(moved' = {})
  BY <1>1, <1>4, OthersMoveIs
<1>6. TicketHonoured'
  BY <1>1, ChargeStays
<1>7. (ticket = NoTicket \/ Signable(ticket))'
  BY <1>2, <1>4 DEF Signable
<1> QED
  BY <1>3, <1>5, <1>6, <1>7 DEF TicketInv

\* A page shows a ticket.
LEMMA ShowKeeps ==
  ASSUME TicketInv, NEW size \in TicketSizes, ShowTicket(size)
  PROVE  TicketInv'
<1>1. /\ CostOf(ladder, size).filled = size /\ ticket' = CostOf(ladder, size)
      /\ moved' = {} /\ charge' = Uncharged /\ ladder' = ladder
  BY DEF ShowTicket
<1>2. size \in Nat /\ size > 0 /\ Book(ladder)
  BY TicketNumbers DEF TicketInv
<1>3. PICK tk : tk = CostOf(ladder, size)
  OBVIOUS
<1>4. Signable(tk) /\ Shown(ladder, tk) /\ Covered(ladder, tk)
  BY <1>1, <1>2, <1>3, ShownIsCovered
<1>5. ticket' = tk
  BY <1>1, <1>3
<1>6. TicketHonoured'
  BY <1>1 DEF TicketHonoured, Charged
<1> QED
  BY <1>1, <1>2, <1>4, <1>5, <1>6 DEF TicketInv

\* Every state of the specification has it.
LEMMA TicketInvHolds == TicketSpec => []TicketInv
<1>1. TicketInit => TicketInv
  <2> SUFFICES ASSUME TicketInit PROVE TicketInv
    OBVIOUS
  <2>1. ladder = <<>> /\ ticket = NoTicket /\ charge = Uncharged
    BY DEF TicketInit
  <2>2. Book(ladder)
    <3>1. ladder \in Seq(LadderAsk) /\ Len(ladder) = 0 /\ MaxAsks \in Nat
      BY <2>1, TicketNumbers
    <3>2. ByPrice(ladder)
      BY <3>1 DEF ByPrice
    <3> QED
      BY <3>1, <3>2 DEF Book, Ladders
  <2> QED
    BY <2>1, <2>2 DEF TicketInv, Pending, TicketHonoured, Charged
<1>2. TicketInv /\ [TicketNext]_ticketVars => TicketInv'
  <2> SUFFICES ASSUME TicketInv, [TicketNext]_ticketVars PROVE TicketInv'
    OBVIOUS
  <2>1. CASE \E size \in TicketSizes : ShowTicket(size)
    BY <2>1, ShowKeeps
  <2>2. CASE BuyLands
    BY <2>2, BuyHonours
  <2>3. CASE BuyFails
    <3>1. ticket' = NoTicket /\ charge' = Uncharged /\ ladder' = ladder
      BY <2>3 DEF BuyFails
    <3> QED
      BY <3>1 DEF TicketInv, Pending, TicketHonoured, Charged
  <2>4. CASE OthersPost
    BY <2>4, PostKeeps
  <2>5. CASE OthersTake
    BY <2>5, TakeKeeps
  <2>6. CASE UNCHANGED ticketVars
    <3>1. /\ ladder' = ladder /\ ticket' = ticket /\ moved' = moved /\ charge' = charge
      BY <2>6 DEF ticketVars
    <3> QED
      BY <3>1 DEF TicketInv, Pending, TicketHonoured, Charged
  <2> QED
    BY <2>1, <2>2, <2>3, <2>4, <2>5, <2>6 DEF TicketNext
<1> QED
  BY <1>1, <1>2, PTL DEF TicketSpec

\* On the book it was read from a ticket is filled whole at the premium shown; if
\* others have only posted, an eviction included, the buyer pays less than a unit
\* more for each ask walked; and no lot costs more than the limit.
THEOREM TicketsAreHonoured == TicketSpec => []TicketHonoured
<1>1. TicketInv => TicketHonoured
  BY DEF TicketInv
<1> QED
  BY <1>1, TicketInvHolds, PTL

-----------------------------------------------------------------------------
(* The grid stays lit: GridStaysLit of Grid.  First, serving wishes in     *)
(* turn while there is room.                                               *)

\* Some places of a list served in turn.  W[i] is what place i asks for, Q the
\* places that ask, L what is there already and n the room for all of it.
AskedOf(W, Q) == {W[i] : i \in Q}
Earlier(W, Q, i) == AskedOf(W, {j \in Q : j < i})
ServedOf(W, Q, L, n) == {i \in Q : Cardinality(L \cup Earlier(W, Q, i)) < n}

\* What finitely many places ask for is finitely much.
LEMMA AskedIsFinite ==
  ASSUME NEW W, NEW Q, IsFiniteSet(Q)
  PROVE  IsFiniteSet(AskedOf(W, Q))
<1> DEFINE g == [i \in Q |-> W[i]]
<1>1. g \in Surjection(Q, AskedOf(W, Q))
  BY DEF Surjection, AskedOf
<1> QED
  BY <1>1, FS_Surjection

\* A finite set of numbers that is not empty has a largest one.
LEMMA LargestNat ==
  ASSUME NEW T \in SUBSET Nat, T # {}, IsFiniteSet(T)
  PROVE  \E m \in T : \A k \in T : k <= m
<1> DEFINE C == {t \in SUBSET T : t # {} => \E m \in t : \A k \in t : k <= m}
<1>1. {} \in C
  OBVIOUS
<1>2. ASSUME NEW t \in SUBSET T, t \in C, NEW x \in T \ t PROVE t \cup {x} \in C
  <2>1. CASE t = {}
    BY <2>1
  <2>2. CASE t # {}
    <3>1. PICK m \in t : \A k \in t : k <= m
      BY <1>2, <2>2
    <3>2. CASE x <= m
      BY <3>1, <3>2
    <3>3. CASE m <= x
      BY <3>1, <3>3
    <3>4. x \in Nat /\ m \in Nat
      OBVIOUS
    <3> QED
      BY <3>2, <3>3, <3>4
  <2> QED
    BY <2>1, <2>2
<1>3. T \in C
  <2> HIDE DEF C
  <2> QED
    BY <1>1, <1>2, FiniteInduction
<1> QED
  BY <1>3

\* A set with one member more.
LEMMA OneAdded ==
  ASSUME NEW S, NEW x, IsFiniteSet(S)
  PROVE  /\ IsFiniteSet(S \cup {x}) /\ Cardinality(S) \in Nat /\ Cardinality(S \cup {x}) \in Nat
         /\ Cardinality(S) <= Cardinality(S \cup {x})
         /\ Cardinality(S \cup {x}) <= Cardinality(S) + 1
<1>1. Cardinality(S) \in Nat
  BY FS_CardinalityType
<1> QED
  BY <1>1, FS_AddElement

\* A part of a finite set is finite and no larger.
LEMMA PartIsSmaller ==
  ASSUME NEW S, IsFiniteSet(S), NEW T, T \subseteq S
  PROVE  /\ IsFiniteSet(T) /\ Cardinality(T) \in Nat /\ Cardinality(S) \in Nat
         /\ Cardinality(T) <= Cardinality(S)
BY FS_Subset, FS_CardinalityType

\* Places are served in turn: who is served finds all earlier places served,
\* all are unless the room is used up, and no more than the room is used.
LEMMA ServedInTurn ==
  ASSUME NEW W, NEW Q \in SUBSET Nat, IsFiniteSet(Q),
         NEW L, IsFiniteSet(L), NEW n \in Nat, Cardinality(L) <= n
  PROVE  LET X == ServedOf(W, Q, L, n)
             R == L \cup AskedOf(W, X)
         IN  /\ IsFiniteSet(R) /\ Cardinality(R) <= n
             /\ \A i \in X, j \in Q : j < i => j \in X
             /\ Cardinality(R) = n \/ X = Q
<1> DEFINE X == ServedOf(W, Q, L, n)
           R == L \cup AskedOf(W, X)
<1>1. ASSUME NEW i \in Q
      PROVE  IsFiniteSet(L \cup Earlier(W, Q, i)) /\ Cardinality(L \cup Earlier(W, Q, i)) \in Nat
  <2>1. IsFiniteSet({j \in Q : j < i})
    BY FS_Subset
  <2>2. IsFiniteSet(Earlier(W, Q, i))
    BY <2>1, AskedIsFinite DEF Earlier
  <2> QED
    BY <2>2, FS_Union, FS_CardinalityType
<1>2. IsFiniteSet(R) /\ Cardinality(R) \in Nat
  <2>1. IsFiniteSet(X)
    BY FS_Subset DEF ServedOf
  <2>2. IsFiniteSet(AskedOf(W, X))
    BY <2>1, AskedIsFinite
  <2> QED
    BY <2>2, FS_Union, FS_CardinalityType
<1>3. ASSUME NEW i \in X, NEW j \in Q, j < i PROVE j \in X
  <2>1. i \in Q /\ Cardinality(L \cup Earlier(W, Q, i)) < n
    BY DEF ServedOf
  <2>2. L \cup Earlier(W, Q, j) \subseteq L \cup Earlier(W, Q, i)
    BY <1>3, <2>1 DEF Earlier, AskedOf
  <2>3. Cardinality(L \cup Earlier(W, Q, j)) <= Cardinality(L \cup Earlier(W, Q, i))
    BY <1>1, <2>1, <2>2, PartIsSmaller
  <2> QED
    BY <1>1, <2>1, <2>3 DEF ServedOf
<1>4. Cardinality(R) <= n
  <2>1. CASE X = {}
    BY <2>1 DEF AskedOf
  <2>2. CASE X # {}
    <3>1. PICK m \in X : \A k \in X : k <= m
      <4> DEFINE U == {u \in Nat : \A k \in X : k <= u}
      <4>1. X \subseteq Q /\ X \in SUBSET Nat /\ IsFiniteSet(X)
        BY FS_Subset DEF ServedOf
      <4> HIDE DEF X
      <4>2. \E u \in X : \A k \in X : k <= u
        BY <2>2, <4>1, LargestNat
      <4> QED
        BY <4>2
    <3>2. m \in Q /\ Cardinality(L \cup Earlier(W, Q, m)) < n
      BY DEF ServedOf
    <3>3. R \subseteq (L \cup Earlier(W, Q, m)) \cup {W[m]}
      <4>1. \A k \in X : k = m \/ (k \in Q /\ k < m)
        BY <3>1 DEF ServedOf
      <4> HIDE DEF X
      <4>2. AskedOf(W, X) \subseteq Earlier(W, Q, m) \cup {W[m]}
        BY <4>1, Zenon DEF AskedOf, Earlier
      <4> QED
        BY <4>2
    <3>4. Cardinality(R) <= Cardinality((L \cup Earlier(W, Q, m)) \cup {W[m]})
      BY <1>1, <3>2, <3>3, OneAdded, PartIsSmaller
    <3>5. Cardinality((L \cup Earlier(W, Q, m)) \cup {W[m]}) <= Cardinality(L \cup Earlier(W, Q, m)) + 1
      BY <1>1, <3>2, OneAdded
    <3>6. /\ Cardinality(L \cup Earlier(W, Q, m)) \in Nat
          /\ Cardinality((L \cup Earlier(W, Q, m)) \cup {W[m]}) \in Nat
      BY <1>1, <3>2, OneAdded
    <3> HIDE DEF R
    <3> QED
      BY <1>2, <3>2, <3>4, <3>5, <3>6
  <2> QED
    BY <2>1, <2>2
<1>5. Cardinality(R) = n \/ X = Q
  <2>1. SUFFICES ASSUME X # Q PROVE Cardinality(R) = n
    OBVIOUS
  <2>2. PICK i \in Q \ X : \A k \in Q \ X : i <= k
    <3>1. Q \ X \in SUBSET Nat /\ Q \ X # {}
      BY <2>1 DEF ServedOf
    <3> QED
      BY <3>1, LeastNat
  <2>3. Cardinality(L \cup Earlier(W, Q, i)) >= n
    BY <1>1, <2>2 DEF ServedOf
  <2>4. L \cup Earlier(W, Q, i) \subseteq R
    BY <2>2 DEF Earlier, AskedOf
  <2>5. Cardinality(L \cup Earlier(W, Q, i)) <= Cardinality(R)
    BY <1>2, <2>4, PartIsSmaller
  <2> HIDE DEF R
  <2> QED
    BY <1>1, <1>2, <1>4, <2>2, <2>3, <2>5
<1> QED
  BY <1>2, <1>3, <1>4, <1>5

-----------------------------------------------------------------------------
(* The calendar.                                                           *)

\* The last expiry passed and the next two.
Opening == (hour \div Gap) * Gap
Near == Opening + Gap
Far == Opening + 2 * Gap

\* A quotient is known from its bounds.
LEMMA QuotientIs ==
  ASSUME NEW t \in Nat, NEW q \in Nat, NEW g \in Nat, g > 0, q * g <= t, t < q * g + g
  PROVE  t \div g = q
<1>1. /\ t \div g \in Nat /\ (t \div g) * g <= t /\ t < (t \div g) * g + g
  BY DivBounds
<1> DEFINE d == t \div g
<1>2. d \in Nat /\ d * g \in Nat /\ q * g \in Nat
  BY <1>1, MulNat
<1>3. ASSUME d < q PROVE FALSE
  <2>1. (d + 1) * g <= q * g
    BY <1>2, <1>3, MulMono
  <2>2. (d + 1) * g = d * g + g
    OBVIOUS
  <2> QED
    BY <1>1, <1>2, <2>1, <2>2
<1>4. ASSUME q < d PROVE FALSE
  <2>1. (q + 1) * g <= d * g
    BY <1>2, <1>4, MulMono
  <2>2. (q + 1) * g = q * g + g
    OBVIOUS
  <2> QED
    BY <1>1, <1>2, <2>1, <2>2
<1> QED
  BY <1>2, <1>3, <1>4

\* The clock is between the last expiry and the next.
LEMMA CalendarFacts ==
  ASSUME hour \in Nat
  PROVE  /\ Gap \in Nat /\ Gap > 0 /\ Opening \in Nat /\ Near \in Nat /\ Far \in Nat
         /\ Opening <= hour /\ hour < Near /\ Near = Opening + Gap /\ Far = Near + Gap
         /\ hour % Gap = hour - Opening
<1>1. Gap \in Nat /\ Gap > 0
  BY GridConstants
<1> DEFINE d == hour \div Gap
<1>2. d \in Nat /\ d * Gap <= hour /\ hour < d * Gap + Gap
  BY <1>1, DivBounds
<1>3. d * Gap \in Nat
  BY <1>1, <1>2, MulNat
<1>4. hour % Gap = hour - d * Gap
  BY <1>1
<1>5. Opening = d * Gap
  BY DEF Opening
<1> HIDE DEF d
<1> QED
  BY <1>1, <1>2, <1>3, <1>4, <1>5 DEF Near, Far

\* An expiry passes, or the calendar stays.
LEMMA CalendarTurns ==
  ASSUME hour \in Nat, hour' = hour + 1
  PROVE  Opening' = IF hour + 1 = Near THEN Near ELSE Opening
<1> DEFINE d == hour \div Gap
<1>1. Gap \in Nat /\ Gap > 0 /\ d \in Nat /\ d * Gap \in Nat
  BY GridConstants, DivBounds, MulNat
<1>2. Opening = d * Gap /\ Opening <= hour /\ hour < Near /\ Near = d * Gap + Gap
  BY CalendarFacts DEF Opening
<1>3. (d + 1) * Gap = d * Gap + Gap
  BY <1>1
<1>4. Opening' = ((hour + 1) \div Gap) * Gap
  BY DEF Opening
<1> HIDE DEF d
<1>5. CASE hour + 1 = Near
  <2>1. (hour + 1) \div Gap = d + 1
    <3>1. d + 1 \in Nat /\ hour + 1 \in Nat /\ (d + 1) * Gap <= hour + 1
          /\ hour + 1 < (d + 1) * Gap + Gap
      BY <1>1, <1>2, <1>3, <1>5
    <3> QED
      BY <1>1, <3>1, QuotientIs
  <2> QED
    BY <1>2, <1>3, <1>4, <1>5, <2>1
<1>6. CASE hour + 1 # Near
  <2>1. (hour + 1) \div Gap = d
    <3>1. hour + 1 \in Nat /\ d * Gap <= hour + 1 /\ hour + 1 < d * Gap + Gap
      BY <1>1, <1>2, <1>6
    <3> QED
      BY <1>1, <3>1, QuotientIs
  <2> QED
    BY <1>2, <1>4, <1>6, <2>1
<1> QED
  BY <1>5, <1>6

\* Of n members at most the n soonest are all.
LEMMA SoonestOfFew ==
  ASSUME NEW S \in SUBSET Int, IsFiniteSet(S), NEW n \in Nat, Cardinality(S) <= n
  PROVE  Soonest(n, S) = S
<1>1. ASSUME NEW e \in S PROVE Cardinality({f \in S : f < e}) < n
  <2> DEFINE T == {f \in S : f < e}
  <2>1. T \subseteq S \ {e}
    BY DEF T
  <2>2. IsFiniteSet(S \ {e}) /\ Cardinality(S \ {e}) = Cardinality(S) - 1
    BY FS_RemoveElement
  <2>3. Cardinality(T) <= Cardinality(S \ {e}) /\ Cardinality(T) \in Nat
    BY <2>1, <2>2, PartIsSmaller
  <2>4. Cardinality(S) \in Nat
    BY FS_CardinalityType
  <2> HIDE DEF T
  <2>5. Cardinality(T) < n
    BY <2>2, <2>3, <2>4
  <2> QED
    BY <2>5 DEF T
<1> QED
  BY <1>1 DEF Soonest

\* A pair of numbers.
LEMMA PairOfNumbers ==
  ASSUME NEW a, NEW c, a # c
  PROVE  IsFiniteSet({a, c}) /\ Cardinality({a, c}) = 2
<1>1. {a, c} = {a} \cup {c} /\ c \notin {a}
  OBVIOUS
<1>2. IsFiniteSet({a}) /\ Cardinality({a}) = 1
  BY FS_Singleton
<1>3. IsFiniteSet({a} \cup {c}) /\ Cardinality({a} \cup {c}) = Cardinality({a}) + 1
  BY <1>1, <1>2, FS_AddElement
<1> QED
  BY <1>1, <1>2, <1>3

\* The grids this section is about: two expiries ahead and none beside them, the
\* grace over before half the cycle, two strikes a side and a cap with room for a
\* call and a put at three expiries (DEFAULT_KEEPER, DEFAULT_QUOTER, list-markets.ts:42,62).
RoomyGrid ==
  /\ ExpiriesAhead = 2 /\ Extra = {} /\ 2 * GraceTime < Gap
  /\ StrikesPerSide >= 2 /\ MaxLiveSeries >= 6

\* rollGrid keeps the next two expiries.
LEMMA CalendarIs ==
  ASSUME RoomyGrid, hour \in Nat
  PROVE  Calendar(hour) = {Near, Far}
<1> DEFINE d == hour \div Gap
<1>1. /\ Gap \in Nat /\ Gap > 0 /\ Opening \in Nat /\ Near \in Nat /\ Far \in Nat
      /\ hour < Near /\ Near = Opening + Gap /\ Far = Near + Gap
  BY CalendarFacts
<1>2. d \in Nat /\ Opening = d * Gap
  BY <1>1, DivBounds DEF Opening
<1>3. (d + 1) * Gap = Near /\ (d + 2) * Gap = Far
  BY <1>1, <1>2
<1> HIDE DEF d
<1>4. {k * Gap : k \in (d + 1) .. (d + 2)} = {Near, Far}
  <2>1. (d + 1) .. (d + 2) = {d + 1, d + 2}
    BY <1>2
  <2> QED
    BY <1>3, <2>1
<1>5. /\ IsFiniteSet({Near, Far}) /\ Cardinality({Near, Far}) = 2 /\ {Near, Far} \in SUBSET Int
  <2>1. Near # Far
    BY <1>1
  <2> QED
    BY <1>1, <2>1, PairOfNumbers
<1>6. NextExpiries(hour, ExpiriesAhead) = {Near, Far}
  <2>1. NextExpiries(hour, 2) = Soonest(2, {k * Gap : k \in (d + 1) .. (d + 2)})
    BY DEF NextExpiries, d
  <2> QED
    BY <1>4, <1>5, <2>1, SoonestOfFew DEF RoomyGrid
<1>7. {e \in Extra \cup NextExpiries(hour, ExpiriesAhead) : e > hour} = {Near, Far}
  BY <1>1, <1>6, GridConstants DEF RoomyGrid
<1> QED
  BY <1>5, <1>7, SoonestOfFew DEF Calendar

\* Of at most two expiries everything ahead is quoted, and what can be created is
\* in the first band.
LEMMA FewExpiries ==
  ASSUME NEW X \in SUBSET Int, IsFiniteSet(X), Cardinality(X) <= 2
  PROVE  /\ Quotable(X) = AheadOf(X) /\ Creatable(X) \subseteq AheadOf(X)
         /\ Soonest(2, Creatable(X)) = Creatable(X)
<1>1. Creatable(X) \subseteq AheadOf(X) /\ AheadOf(X) \subseteq X
  BY DEF Creatable, AheadOf
<1>2. /\ IsFiniteSet(AheadOf(X)) /\ Cardinality(AheadOf(X)) <= 2
      /\ IsFiniteSet(Creatable(X)) /\ Cardinality(Creatable(X)) <= 2
      /\ Cardinality(AheadOf(X) \ Creatable(X)) \in Nat /\ Cardinality(AheadOf(X)) \in Nat
  BY <1>1, PartIsSmaller
<1> DEFINE n == Cardinality(AheadOf(X) \ Creatable(X)) + 2
<1>3. n \in Nat /\ Cardinality(AheadOf(X)) <= n
  BY <1>2
<1> HIDE DEF n
<1>4. Soonest(n, AheadOf(X)) = AheadOf(X)
  BY <1>1, <1>2, <1>3, SoonestOfFew
<1>5. Soonest(2, Creatable(X)) = Creatable(X)
  BY <1>1, <1>2, SoonestOfFew
<1> QED
  BY <1>1, <1>4, <1>5 DEF Quotable, n

-----------------------------------------------------------------------------
(* The plan, place by place.                                               *)

\* The plan of a pass asks, for each rank of strikes, for the near call and put and
\* then for the far call and put.
ExpiryAt(i) == IF i % 4 < 2 THEN Near ELSE Far
PairAt(i) == Pair(Sides[(i % 2) + 1], i \div 4, ExpiryAt(i))
PlanAt == [i \in 0 .. 11 |-> Term(PairAt(i))]

\* The places of the plan that are of one of the expiries K, and of these the ones
\* not there already and not lost.
PlacesOf(K) == {i \in 0 .. 4 * StrikesPerSide - 1 : ExpiryAt(i) \in K}
Missing(K, gone) == {i \in PlacesOf(K) : PlanAt[i] \notin gone}

\* A comparison of places is one of their first different entries.
LEMMA FirstDifference ==
  ASSUME NEW a1, NEW a2, NEW a3, NEW a4, NEW b1, NEW b2, NEW b3, NEW b4
  PROVE  LET a == <<a1, a2, a3, a4>>
             b == <<b1, b2, b3, b4>>
         IN  (\E i \in DOMAIN a : a[i] < b[i] /\ \A j \in 1 .. i - 1 : a[j] = b[j])
               <=> \/ a1 < b1
                   \/ a1 = b1 /\ a2 < b2
                   \/ a1 = b1 /\ a2 = b2 /\ a3 < b3
                   \/ a1 = b1 /\ a2 = b2 /\ a3 = b3 /\ a4 < b4
<1> DEFINE a == <<a1, a2, a3, a4>>
           b == <<b1, b2, b3, b4>>
           P(i) == a[i] < b[i] /\ \A j \in 1 .. i - 1 : a[j] = b[j]
<1>1. DOMAIN a = {1, 2, 3, 4}
  OBVIOUS
<1>2. a[1] = a1 /\ a[2] = a2 /\ a[3] = a3 /\ a[4] = a4
  OBVIOUS
<1>3. b[1] = b1 /\ b[2] = b2 /\ b[3] = b3 /\ b[4] = b4
  OBVIOUS
<1>4. 1 .. 0 = {} /\ 1 .. 1 = {1} /\ 1 .. 2 = {1, 2} /\ 1 .. 3 = {1, 2, 3}
  OBVIOUS
<1> HIDE DEF a, b
<1>5. P(1) <=> a1 < b1
  <2>1. 1 - 1 = 0
    OBVIOUS
  <2> QED
    BY <1>2, <1>3, <1>4, <2>1
<1>6. P(2) <=> a1 = b1 /\ a2 < b2
  <2>1. 2 - 1 = 1
    OBVIOUS
  <2> QED
    BY <1>2, <1>3, <1>4, <2>1
<1>7. P(3) <=> a1 = b1 /\ a2 = b2 /\ a3 < b3
  <2>1. 3 - 1 = 2
    OBVIOUS
  <2> QED
    BY <1>2, <1>3, <1>4, <2>1
<1>8. P(4) <=> a1 = b1 /\ a2 = b2 /\ a3 = b3 /\ a4 < b4
  <2>1. 4 - 1 = 3
    OBVIOUS
  <2> QED
    BY <1>2, <1>3, <1>4, <2>1
<1>9. (\E i \in DOMAIN a : P(i)) <=> P(1) \/ P(2) \/ P(3) \/ P(4)
  <2> HIDE DEF P
  <2> QED
    BY <1>1
<1> HIDE DEF P
<1>10. (\E i \in DOMAIN a : P(i))
               <=> \/ a1 < b1
                   \/ a1 = b1 /\ a2 < b2
                   \/ a1 = b1 /\ a2 = b2 /\ a3 < b3
                   \/ a1 = b1 /\ a2 = b2 /\ a3 = b3 /\ a4 < b4
  BY <1>5, <1>6, <1>7, <1>8, <1>9
<1> QED
  BY <1>10 DEF P, a, b

\* The order of the plan is that of its places.
LEMMA PlanInOrder ==
  ASSUME RoomyGrid, hour \in Nat,
         NEW X \in SUBSET Int, IsFiniteSet(X), Cardinality(X) <= 2,
         Creatable(X) \subseteq {Near, Far},
         NEW i \in PlacesOf(Creatable(X)), NEW j \in PlacesOf(Creatable(X))
  PROVE  Precedes(PairAt(j), PairAt(i), X) <=> j < i
<1> DEFINE K == Creatable(X)
<1>1. Near \in Nat /\ Far \in Nat /\ Near < Far
  BY CalendarFacts
<1>2. i \in 0 .. 11 /\ j \in 0 .. 11 /\ ExpiryAt(i) \in K /\ ExpiryAt(j) \in K
  BY GridConstants DEF PlacesOf
<1>3. ASSUME NEW k \in 0 .. 11, ExpiryAt(k) \in K
      PROVE  PlaceOf(PairAt(k), X) = <<0, k \div 4, ExpiryAt(k), k % 2>>
  <2>1. /\ PairAt(k).expiry = ExpiryAt(k) /\ PairAt(k).rank = k \div 4
        /\ PairAt(k).side = Sides[(k % 2) + 1]
    BY DEF PairAt, Pair
  <2>2. Band(PairAt(k), X) = 0
    BY <1>3, <2>1, FewExpiries DEF Band
  <2>3. (IF Sides[(k % 2) + 1] = "call" THEN 0 ELSE 1) = k % 2
    <3>1. k % 2 = 0 \/ k % 2 = 1
      OBVIOUS
    <3>2. Sides[1] = "call" /\ Sides[2] = "put"
      BY DEF Sides
    <3>3. CASE k % 2 = 0
      BY <3>2, <3>3
    <3>4. CASE k % 2 = 1
      BY <3>2, <3>4
    <3> QED
      BY <3>1, <3>3, <3>4
  <2> QED
    BY <2>1, <2>2, <2>3 DEF PlaceOf
<1> DEFINE a == <<0, j \div 4, ExpiryAt(j), j % 2>>
           b == <<0, i \div 4, ExpiryAt(i), i % 2>>
<1>4. Precedes(PairAt(j), PairAt(i), X)
        <=> \E k \in DOMAIN a : a[k] < b[k] /\ \A m \in 1 .. k - 1 : a[m] = b[m]
  <2>1. PlaceOf(PairAt(j), X) = a /\ PlaceOf(PairAt(i), X) = b
    BY <1>2, <1>3
  <2> HIDE DEF a, b
  <2> QED
    BY <2>1 DEF Precedes
<1>5. Precedes(PairAt(j), PairAt(i), X)
        <=> \/ j \div 4 < i \div 4
            \/ j \div 4 = i \div 4 /\ ExpiryAt(j) < ExpiryAt(i)
            \/ j \div 4 = i \div 4 /\ ExpiryAt(j) = ExpiryAt(i) /\ j % 2 < i % 2
  <2> DEFINE z == 0
             a2 == j \div 4
             a3 == ExpiryAt(j)
             a4 == j % 2
             b2 == i \div 4
             b3 == ExpiryAt(i)
             b4 == i % 2
  <2>1. a = <<z, a2, a3, a4>> /\ b = <<z, b2, b3, b4>>
    OBVIOUS
  <2> HIDE DEF a, b, z, a2, a3, a4, b2, b3, b4
  <2>2. (\E k \in DOMAIN a : a[k] < b[k] /\ \A m \in 1 .. k - 1 : a[m] = b[m])
               <=> \/ z < z
                   \/ z = z /\ a2 < b2
                   \/ z = z /\ a2 = b2 /\ a3 < b3
                   \/ z = z /\ a2 = b2 /\ a3 = b3 /\ a4 < b4
    BY <2>1, FirstDifference
  <2>3. ~(z < z)
    BY DEF z
  <2>4. Precedes(PairAt(j), PairAt(i), X)
          <=> \/ a2 < b2
              \/ a2 = b2 /\ a3 < b3
              \/ a2 = b2 /\ a3 = b3 /\ a4 < b4
    BY <1>4, <2>2, <2>3
  <2> QED
    BY <2>4 DEF a2, a3, a4, b2, b3, b4
<1>6. \A k \in 0 .. 11 : /\ k % 4 \in 0 .. 3 /\ k = 4 * (k \div 4) + (k % 4) /\ k \div 4 \in 0 .. 2
                         /\ k % 2 = IF k % 4 \in {0, 2} THEN 0 ELSE 1
  OBVIOUS
<1>7. /\ (ExpiryAt(j) < ExpiryAt(i) <=> j % 4 < 2 /\ i % 4 >= 2)
      /\ (ExpiryAt(j) = ExpiryAt(i) <=> (j % 4 < 2 <=> i % 4 < 2))
  BY <1>1, <1>2, <1>6 DEF ExpiryAt
<1> QED
  BY <1>2, <1>5, <1>6, <1>7

\* The plan is what its places ask for.
LEMMA PlannedAt ==
  ASSUME RoomyGrid, hour \in Nat,
         NEW X \in SUBSET Int, IsFiniteSet(X), Cardinality(X) <= 2,
         Creatable(X) \subseteq {Near, Far}
  PROVE  Planned(X) = {PairAt(i) : i \in PlacesOf(Creatable(X))}
<1> DEFINE K == Creatable(X)
<1>1. Near \in Nat /\ Far \in Nat /\ Near < Far /\ StrikesPerSide \in 2 .. 3
  BY CalendarFacts, GridConstants DEF RoomyGrid
<1>2. K \cap Quotable(X) = K
  BY FewExpiries
<1>3. ASSUME NEW i \in PlacesOf(K)
      PROVE  PairAt(i) \in Planned(X)
  <2>1. /\ (i % 2) + 1 \in 1 .. 2 /\ i \div 4 \in 0 .. StrikesPerSide - 1 /\ ExpiryAt(i) \in K
    BY <1>1 DEF PlacesOf
  <2> QED
    BY <1>2, <2>1 DEF Planned, PairAt
<1>4. ASSUME NEW d \in 1 .. 2, NEW rank \in 0 .. StrikesPerSide - 1, NEW e \in K
      PROVE  \E i \in PlacesOf(K) : Pair(Sides[d], rank, e) = PairAt(i)
  <2> DEFINE i == 4 * rank + (IF e = Near THEN 0 ELSE 2) + (d - 1)
  <2>1. e = Near \/ e = Far
    OBVIOUS
  <2>2. /\ i \in 0 .. 4 * StrikesPerSide - 1 /\ i \div 4 = rank /\ (i % 2) + 1 = d
        /\ (i % 4 < 2 <=> e = Near)
    BY <1>1, <2>1
  <2> HIDE DEF i
  <2>3. ExpiryAt(i) = e
    BY <1>1, <2>1, <2>2 DEF ExpiryAt
  <2> QED
    BY <2>2, <2>3 DEF PlacesOf, PairAt
<1>5. ASSUME NEW p \in Planned(X) PROVE p \in {PairAt(i) : i \in PlacesOf(K)}
  BY <1>2, <1>4 DEF Planned
<1> QED
  BY <1>3, <1>5

\* What a pass creates is what the places without a series ask for, in turn.
LEMMA CreatedInTurn ==
  ASSUME RoomyGrid, hour \in Nat,
         NEW X \in SUBSET Int, IsFiniteSet(X), Cardinality(X) <= 2,
         Creatable(X) \subseteq {Near, Far}, NEW left, NEW lost
  PROVE  Created(X, left, lost) =
           AskedOf(PlanAt, ServedOf(PlanAt, Missing(Creatable(X), left \cup lost), left, MaxLiveSeries))
<1> DEFINE K == Creatable(X)
           Q == Missing(K, left \cup lost)
           missing == {p \in Planned(X) : Term(p) \notin left \cup lost}
           before(p) == {Term(q) : q \in {q \in missing : Precedes(q, p, X)}}
           N == {p \in missing : Cardinality(left \cup before(p)) < MaxLiveSeries}
<1>1. \A i \in PlacesOf(K) : i \in 0 .. 11 /\ PlanAt[i] = Term(PairAt(i))
  BY GridConstants DEF PlacesOf, PlanAt
<1>2. Planned(X) = {PairAt(i) : i \in PlacesOf(K)}
  BY PlannedAt
<1>3. missing = {PairAt(i) : i \in Q}
  BY <1>1, <1>2 DEF Missing
<1>4. Q \subseteq PlacesOf(K)
  BY DEF Missing
<1>5. ASSUME NEW i \in Q PROVE before(PairAt(i)) = Earlier(PlanAt, Q, i)
  <2>1. \A j \in Q : Precedes(PairAt(j), PairAt(i), X) <=> j < i
    BY <1>4, PlanInOrder
  <2>2. {q \in missing : Precedes(q, PairAt(i), X)} = {PairAt(j) : j \in {j \in Q : j < i}}
    <3> HIDE DEF missing, Q
    <3> QED
      BY <1>3, <2>1
  <2>3. before(PairAt(i)) = {Term(PairAt(j)) : j \in {j \in Q : j < i}}
    <3> HIDE DEF missing, Q
    <3> QED
      BY <2>2
  <2> HIDE DEF before
  <2> QED
    BY <1>1, <1>4, <2>3 DEF Earlier, AskedOf
<1>6. N = {PairAt(i) : i \in ServedOf(PlanAt, Q, left, MaxLiveSeries)}
  <2> HIDE DEF missing, before, Q
  <2> QED
    BY <1>3, <1>5 DEF ServedOf
<1>7. Created(X, left, lost) = {Term(p) : p \in N}
  BY DEF Created
<1> HIDE DEF N, Q
<1>8. Created(X, left, lost) = {Term(PairAt(i)) : i \in ServedOf(PlanAt, Q, left, MaxLiveSeries)}
  BY <1>6, <1>7
<1>9. ServedOf(PlanAt, Q, left, MaxLiveSeries) \subseteq PlacesOf(K)
  BY <1>4 DEF ServedOf
<1> QED
  BY <1>1, <1>8, <1>9 DEF AskedOf, Q

\* What is created out of places for the expiries K: it fits, a place is served
\* after all earlier ones, and all are unless the room is used up.
FillsRoom(K, L, C, lost) ==
  /\ IsFiniteSet(L \cup C) /\ Cardinality(L \cup C) <= MaxLiveSeries
  /\ \A s \in C : \E i \in PlacesOf(K) :
       s = PlanAt[i] /\ \A j \in PlacesOf(K) : j < i => PlanAt[j] \in L \cup C \cup lost
  /\ \/ Cardinality(L \cup C) = MaxLiveSeries
     \/ \A j \in PlacesOf(K) : PlanAt[j] \in L \cup C \cup lost

\* A pass fills the room it finds.
LEMMA PassFillsRoom ==
  ASSUME RoomyGrid, hour \in Nat,
         NEW X \in SUBSET Int, IsFiniteSet(X), Cardinality(X) <= 2,
         Creatable(X) \subseteq {Near, Far},
         NEW L, IsFiniteSet(L), Cardinality(L) <= MaxLiveSeries, NEW lost
  PROVE  FillsRoom(Creatable(X), L, Created(X, L, lost), lost)
<1> DEFINE K == Creatable(X)
           Q == Missing(K, L \cup lost)
           V == ServedOf(PlanAt, Q, L, MaxLiveSeries)
           C == AskedOf(PlanAt, V)
<1>1. Created(X, L, lost) = C
  BY CreatedInTurn
<1>2. PlacesOf(K) \subseteq 0 .. 11 /\ Q \subseteq PlacesOf(K) /\ V \subseteq Q
  BY GridConstants DEF PlacesOf, Missing, ServedOf
<1>3. Q \in SUBSET Nat /\ IsFiniteSet(Q)
  <2>1. \A m \in Nat : IsFiniteSet(0 .. m)
    BY FS_Interval
  <2>2. 11 \in Nat
    OBVIOUS
  <2>3. IsFiniteSet(0 .. 11)
    BY <2>1, <2>2, Zenon
  <2> HIDE DEF Q
  <2>4. Q \subseteq 0 .. 11
    BY <1>2
  <2>5. IsFiniteSet(Q)
    BY <2>3, <2>4, PartIsSmaller
  <2>6. Q \in SUBSET Nat
    BY <2>4
  <2> QED
    BY <2>5, <2>6
<1>4. MaxLiveSeries \in Nat
  BY GridConstants
<1>5. /\ IsFiniteSet(L \cup C) /\ Cardinality(L \cup C) <= MaxLiveSeries
      /\ \A i \in V, j \in Q : j < i => j \in V
      /\ Cardinality(L \cup C) = MaxLiveSeries \/ V = Q
  <2> DEFINE W == PlanAt
             n == MaxLiveSeries
  <2>1. n \in Nat /\ Cardinality(L) <= n
    BY <1>4
  <2> HIDE DEF Q, W, n
  <2>2. LET T == ServedOf(W, Q, L, n)
            R == L \cup AskedOf(W, T)
        IN  /\ IsFiniteSet(R) /\ Cardinality(R) <= n
            /\ \A i \in T, j \in Q : j < i => j \in T
            /\ Cardinality(R) = n \/ T = Q
    BY <1>3, <2>1, ServedInTurn
  <2> QED
    BY <2>2 DEF W, n
<1>6. \A j \in PlacesOf(K) : j \notin Q => PlanAt[j] \in L \cup lost
  BY DEF Missing
<1>7. \A j \in V : PlanAt[j] \in C
  BY DEF AskedOf
<1>8. \A s \in C : \E i \in V : s = PlanAt[i]
  BY DEF AskedOf
<1> HIDE DEF C, V, Q
<1>9. \A s \in C : \E i \in PlacesOf(K) :
        s = PlanAt[i] /\ \A j \in PlacesOf(K) : j < i => PlanAt[j] \in L \cup C \cup lost
  BY <1>2, <1>5, <1>6, <1>7, <1>8
<1>10. V = Q => \A j \in PlacesOf(K) : PlanAt[j] \in L \cup C \cup lost
  BY <1>6, <1>7
<1> QED
  BY <1>1, <1>5, <1>9, <1>10 DEF FillsRoom

\* The nearest strikes of a side differ from one another, and the first is the
\* forward.
LEMMA PlanFacts ==
  ASSUME forward \in Nat \ {0}, hour \in Nat
  PROVE  /\ \A i \in 0 .. 11 : /\ PlanAt[i].side = Sides[(i % 2) + 1]
                               /\ PlanAt[i].side \in {"call", "put"}
                               /\ PlanAt[i].expiry = ExpiryAt(i)
                               /\ PlanAt[i] \in [side : {"call", "put"}, strike : Int, expiry : Nat]
         /\ \A i \in 0 .. 3 : PlanAt[i].strike = forward
         /\ \A i \in 4 .. 7 : PlanAt[i].strike # forward
<1>1. Near \in Nat /\ Far \in Nat
  BY CalendarFacts
<1>2. Sides[1] = "call" /\ Sides[2] = "put"
  BY DEF Sides
<1>3. \A i \in 0 .. 11 : PlanAt[i] = [side |-> Sides[(i % 2) + 1], strike |-> Strike(Sides[(i % 2) + 1], i \div 4),
                                   expiry |-> ExpiryAt(i)]
  BY DEF PlanAt, PairAt, Pair, Term
<1>4. \A i \in 0 .. 11 : /\ (i % 2) + 1 \in {1, 2} /\ i \div 4 \in 0 .. 2
                         /\ (i \in 0 .. 3 => i \div 4 = 0)
                         /\ (i \in 4 .. 7 => i \div 4 = 1)
  OBVIOUS
<1>5. \A i \in 0 .. 11 : ExpiryAt(i) \in Nat
  BY <1>1 DEF ExpiryAt
<1>6. \A side \in {"call", "put"} : Strike(side, 0) = forward /\ Strike(side, 1) # forward
  BY DEF Strike
<1>7. \A side \in {"call", "put"}, rank \in 0 .. 2 : Strike(side, rank) \in Int
  BY DEF Strike
<1>8. \A i \in 0 .. 11 : Sides[(i % 2) + 1] \in {"call", "put"}
  BY <1>2, <1>4
<1>9. \A i \in 0 .. 11 : /\ PlanAt[i].side = Sides[(i % 2) + 1] /\ PlanAt[i].expiry = ExpiryAt(i)
                         /\ PlanAt[i].strike = Strike(Sides[(i % 2) + 1], i \div 4)
  BY <1>3
<1>10. \A i \in 0 .. 11 : PlanAt[i] \in [side : {"call", "put"}, strike : Int, expiry : Nat]
  BY <1>3, <1>4, <1>5, <1>7, <1>8
<1>11. \A i \in 0 .. 3 : PlanAt[i].strike = forward
  <2> TAKE i \in 0 .. 3
  <2>1. i \in 0 .. 11
    OBVIOUS
  <2> QED
    BY <1>4, <1>6, <1>8, <1>9, <2>1
<1>12. \A i \in 4 .. 7 : PlanAt[i].strike # forward
  <2> TAKE i \in 4 .. 7
  <2>1. i \in 0 .. 11
    OBVIOUS
  <2> QED
    BY <1>4, <1>6, <1>8, <1>9, <2>1
<1> QED
  BY <1>8, <1>9, <1>10, <1>11, <1>12

\* A set with three members.
LEMMA ThreeMembers ==
  ASSUME NEW S, IsFiniteSet(S), NEW x \in S, NEW y \in S, NEW z \in S,
         x # y, y # z, x # z
  PROVE  Cardinality(S) \in Nat /\ Cardinality(S) >= 3
<1>1. {x, y} \cup {z} \subseteq S /\ z \notin {x, y}
  OBVIOUS
<1>2. IsFiniteSet({x, y}) /\ Cardinality({x, y}) = 2
  BY PairOfNumbers
<1>3. Cardinality({x, y} \cup {z}) = 3
  BY <1>1, <1>2, FS_AddElement
<1> QED
  BY <1>1, <1>3, PartIsSmaller

\* A set with four members.
LEMMA FourMembers ==
  ASSUME NEW S, IsFiniteSet(S), NEW w \in S, NEW x \in S, NEW y \in S, NEW z \in S,
         w # x, w # y, w # z, x # y, y # z, x # z
  PROVE  Cardinality(S) \in Nat /\ Cardinality(S) >= 4
<1>1. /\ IsFiniteSet(S \ {w}) /\ Cardinality(S \ {w}) = Cardinality(S) - 1
      /\ Cardinality(S) \in Nat
  BY FS_RemoveElement, FS_CardinalityType
<1>2. x \in S \ {w} /\ y \in S \ {w} /\ z \in S \ {w}
  OBVIOUS
<1>3. Cardinality(S \ {w}) >= 3
  BY <1>1, <1>2, ThreeMembers
<1> QED
  BY <1>1, <1>3

\* Of the places for the expiries K, at most a is before p, and a and b before q.
FewBefore(K, p, q, a, b) ==
  \A i \in PlacesOf(K) : /\ i < p => i = a
                         /\ i < q /\ i # p => i \in {a, b}

\* A side with a place left unserved bounds what was created before it.
LEMMA PlacesLeft ==
  ASSUME RoomyGrid, NEW K, NEW L, IsFiniteSet(L), NEW C, NEW lost, IsFiniteSet(lost),
         Cardinality(lost) <= 1, Cardinality(L) + 2 + Cardinality(lost) <= MaxLiveSeries,
         FillsRoom(K, L, C, lost),
         NEW p \in PlacesOf(K), NEW q \in PlacesOf(K), p < q, PlanAt[p] # PlanAt[q],
         NEW a, NEW b, FewBefore(K, p, q, a, b)
  PROVE  PlanAt[p] \in L \cup C \/ PlanAt[q] \in L \cup C
<1>1. SUFFICES ASSUME PlanAt[p] \notin L \cup C, PlanAt[q] \notin L \cup C PROVE FALSE
  OBVIOUS
<1>0. \A i \in PlacesOf(K) : /\ i < p => i = a
                             /\ i < q /\ i # p => i \in {a, b}
  BY DEF FewBefore
<1> DEFINE S == L \cup C
           n == MaxLiveSeries
<1>2. ~(PlanAt[p] \in lost /\ PlanAt[q] \in lost)
  <2>1. SUFFICES ASSUME PlanAt[p] \in lost, PlanAt[q] \in lost PROVE FALSE
    OBVIOUS
  <2>2. {PlanAt[p], PlanAt[q]} \subseteq lost /\ Cardinality({PlanAt[p], PlanAt[q]}) = 2
    BY <2>1, PairOfNumbers
  <2>3. Cardinality({PlanAt[p], PlanAt[q]}) <= Cardinality(lost) /\ Cardinality(lost) \in Nat
    BY <2>2, PartIsSmaller
  <2> QED
    BY <2>2, <2>3
<1>3. /\ IsFiniteSet(S) /\ n \in Nat /\ Cardinality(L) \in Nat
      /\ PlacesOf(K) \subseteq Int
  BY GridConstants, FS_CardinalityType DEF FillsRoom, PlacesOf
<1>4. Cardinality(S) = n
  BY <1>1, <1>2 DEF FillsRoom
<1>5. ASSUME NEW s \in C
      PROVE  \E i \in PlacesOf(K) : s = PlanAt[i] /\ i < q /\ i # p
  <2>1. PICK i \in PlacesOf(K) : s = PlanAt[i] /\ \A j \in PlacesOf(K) : j < i => PlanAt[j] \in S \cup lost
    BY DEF FillsRoom
  <2>2. i # p /\ i # q
    BY <1>1, <2>1
  <2>3. ~(q < i)
    BY <1>1, <1>2, <1>3, <2>1
  <2> QED
    BY <1>3, <2>1, <2>2, <2>3
<1>6. S \subseteq (L \cup {PlanAt[a]}) \cup {PlanAt[b]}
  BY <1>0, <1>5
<1>7. /\ IsFiniteSet(L \cup {PlanAt[a]}) /\ Cardinality(L \cup {PlanAt[a]}) \in Nat
      /\ Cardinality(L \cup {PlanAt[a]}) <= Cardinality(L) + 1
  BY OneAdded
<1>8. /\ IsFiniteSet((L \cup {PlanAt[a]}) \cup {PlanAt[b]})
      /\ Cardinality((L \cup {PlanAt[a]}) \cup {PlanAt[b]}) \in Nat
      /\ Cardinality((L \cup {PlanAt[a]}) \cup {PlanAt[b]}) <= Cardinality(L \cup {PlanAt[a]}) + 1
  BY <1>7, OneAdded
<1>9. Cardinality(S) <= Cardinality((L \cup {PlanAt[a]}) \cup {PlanAt[b]})
  BY <1>6, <1>8, PartIsSmaller
<1>10. Cardinality(lost) \in Nat
  BY FS_CardinalityType
<1>11. CASE lost = {}
  <2>1. ASSUME NEW s \in C PROVE s = PlanAt[a]
    <3>1. PICK i \in PlacesOf(K) : s = PlanAt[i] /\ \A j \in PlacesOf(K) : j < i => PlanAt[j] \in S \cup lost
      BY DEF FillsRoom
    <3>2. i # p /\ ~(p < i)
      BY <1>1, <1>11, <3>1
    <3> QED
      BY <1>0, <1>3, <3>1, <3>2
  <2>2. S \subseteq L \cup {PlanAt[a]}
    BY <2>1
  <2>3. Cardinality(S) <= Cardinality(L \cup {PlanAt[a]})
    BY <1>7, <2>2, PartIsSmaller
  <2> QED
    BY <1>3, <1>4, <1>7, <1>10, <2>3
<1>12. CASE lost # {}
  <2>1. Cardinality(lost) = 1
    BY <1>10, <1>12, FS_EmptySet
  <2> QED
    BY <1>3, <1>4, <1>7, <1>8, <1>9, <2>1
<1> QED
  BY <1>11, <1>12

-----------------------------------------------------------------------------
(* What a pass leaves.                                                     *)

\* The series of an expiry, and whether both sides have one of some expiries.
Expiring(S, e) == {s \in S : s.expiry = e}
CountOf(S, e) == Cardinality(Expiring(S, e))
BothSides(S, E) == \A d \in 1 .. 2 : \E s \in S : s.side = Sides[d] /\ s.expiry \in E

\* The first places of a plan.
LEMMA FirstPlaces ==
  ASSUME RoomyGrid, hour \in Nat, NEW K \in SUBSET {Near, Far}
  PROVE  /\ PlacesOf(K) \subseteq 0 .. 11
         /\ Near \in K => {0, 1, 4, 5} \subseteq PlacesOf(K)
         /\ Far \in K => {2, 3, 6, 7} \subseteq PlacesOf(K)
         /\ \A i \in PlacesOf(K) : /\ i % 4 < 2 => Near \in K
                                   /\ i % 4 >= 2 => Far \in K
         /\ \A i \in {0, 1, 4, 5} : ExpiryAt(i) = Near
         /\ \A i \in {2, 3, 6, 7} : ExpiryAt(i) = Far
<1>1. StrikesPerSide \in 2 .. 3
  BY GridConstants DEF RoomyGrid
<1>2. \A i \in {0, 1, 4, 5} : ExpiryAt(i) = Near /\ i \in 0 .. 4 * StrikesPerSide - 1
  BY <1>1 DEF ExpiryAt
<1>3. \A i \in {2, 3, 6, 7} : ExpiryAt(i) = Far /\ i \in 0 .. 4 * StrikesPerSide - 1
  BY <1>1 DEF ExpiryAt
<1>4. \A i \in PlacesOf(K) : /\ i \in 0 .. 11
                             /\ i % 4 < 2 => Near \in K
                             /\ i % 4 >= 2 => Far \in K
  BY <1>1 DEF PlacesOf, ExpiryAt
<1> QED
  BY <1>2, <1>3, <1>4 DEF PlacesOf

\* With room for two series, and one more for a send that is lost, a pass leaves a
\* call and a put of what it can create.
LEMMA RoomForBoth ==
  ASSUME RoomyGrid, hour \in Nat, forward \in Nat \ {0},
         NEW K \in SUBSET {Near, Far}, K # {},
         NEW L, IsFiniteSet(L), NEW C, NEW lost, IsFiniteSet(lost), Cardinality(lost) <= 1,
         Cardinality(L) + 2 + Cardinality(lost) <= MaxLiveSeries,
         FillsRoom(K, L, C, lost)
  PROVE  BothSides(L \cup C, K)
<1>1. Near \in Nat /\ Far \in Nat /\ Near < Far
  BY CalendarFacts
<1>2. ASSUME NEW p \in 0 .. 11, NEW q \in 0 .. 11, p \in PlacesOf(K), q \in PlacesOf(K),
             p < q, p % 2 = q % 2, PlanAt[p] # PlanAt[q], NEW a, NEW b, FewBefore(K, p, q, a, b)
      PROVE  \E s \in L \cup C : s.side = Sides[(p % 2) + 1] /\ s.expiry \in K
  <2>1. PlanAt[p] \in L \cup C \/ PlanAt[q] \in L \cup C
    BY <1>2, PlacesLeft
  <2>2. /\ PlanAt[p].side = Sides[(p % 2) + 1] /\ PlanAt[p].expiry \in K
        /\ PlanAt[q].side = Sides[(p % 2) + 1] /\ PlanAt[q].expiry \in K
    BY <1>2, PlanFacts DEF PlacesOf
  <2> QED
    BY <2>1, <2>2
<1>3. \A i \in {0, 1, 4, 5} : PlanAt[i].expiry = Near
  BY PlanFacts, FirstPlaces
<1>4. \A i \in {2, 3, 6, 7} : PlanAt[i].expiry = Far
  BY PlanFacts, FirstPlaces
<1>5. \A i \in 0 .. 3, j \in 4 .. 7 : PlanAt[i] # PlanAt[j]
  BY PlanFacts
<1>6. CASE K = {Near, Far}
  <2>1. {0, 1, 2, 3} \subseteq PlacesOf(K) /\ PlacesOf(K) \subseteq 0 .. 11
    BY <1>6, FirstPlaces
  <2>2. PlanAt[0] # PlanAt[2] /\ PlanAt[1] # PlanAt[3]
    BY <1>1, <1>3, <1>4
  <2>3. FewBefore(K, 0, 2, 1, 1) /\ FewBefore(K, 1, 3, 0, 2)
    BY <2>1 DEF FewBefore
  <2>4. \E s \in L \cup C : s.side = Sides[(0 % 2) + 1] /\ s.expiry \in K
    <3>1. 0 \in 0 .. 11 /\ 2 \in 0 .. 11 /\ 0 < 2 /\ 0 % 2 = 2 % 2
      OBVIOUS
    <3> QED
      BY <1>2, <2>1, <2>2, <2>3, <3>1
  <2>5. \E s \in L \cup C : s.side = Sides[(1 % 2) + 1] /\ s.expiry \in K
    <3>1. 1 \in 0 .. 11 /\ 3 \in 0 .. 11 /\ 1 < 3 /\ 1 % 2 = 3 % 2
      OBVIOUS
    <3> QED
      BY <1>2, <2>1, <2>2, <2>3, <3>1
  <2> QED
    BY <2>4, <2>5 DEF BothSides
<1>7. CASE K = {Near}
  <2>1. {0, 1, 4, 5} \subseteq PlacesOf(K) /\ PlacesOf(K) \subseteq 0 .. 11
        /\ \A i \in PlacesOf(K) : i % 4 < 2
    BY <1>1, <1>7, FirstPlaces
  <2>2. PlanAt[0] # PlanAt[4] /\ PlanAt[1] # PlanAt[5]
    BY <1>5
  <2>3. FewBefore(K, 0, 4, 1, 1) /\ FewBefore(K, 1, 5, 0, 4)
    BY <2>1 DEF FewBefore
  <2>4. \E s \in L \cup C : s.side = Sides[(0 % 2) + 1] /\ s.expiry \in K
    <3>1. 0 \in 0 .. 11 /\ 4 \in 0 .. 11 /\ 0 < 4 /\ 0 % 2 = 4 % 2
      OBVIOUS
    <3> QED
      BY <1>2, <2>1, <2>2, <2>3, <3>1
  <2>5. \E s \in L \cup C : s.side = Sides[(1 % 2) + 1] /\ s.expiry \in K
    <3>1. 1 \in 0 .. 11 /\ 5 \in 0 .. 11 /\ 1 < 5 /\ 1 % 2 = 5 % 2
      OBVIOUS
    <3> QED
      BY <1>2, <2>1, <2>2, <2>3, <3>1
  <2> QED
    BY <2>4, <2>5 DEF BothSides
<1>8. CASE K = {Far}
  <2>1. {2, 3, 6, 7} \subseteq PlacesOf(K) /\ PlacesOf(K) \subseteq 0 .. 11
        /\ \A i \in PlacesOf(K) : i % 4 >= 2
    <3>1. Near \notin K /\ Far \in K
      BY <1>1, <1>8
    <3>2. \A i \in 0 .. 11 : i % 4 \in Int
      OBVIOUS
    <3> QED
      BY <3>1, <3>2, FirstPlaces
  <2>2. PlanAt[2] # PlanAt[6] /\ PlanAt[3] # PlanAt[7]
    BY <1>5
  <2>3. FewBefore(K, 2, 6, 3, 3) /\ FewBefore(K, 3, 7, 2, 6)
    BY <2>1 DEF FewBefore
  <2>4. \E s \in L \cup C : s.side = Sides[(2 % 2) + 1] /\ s.expiry \in K
    <3>1. 2 \in 0 .. 11 /\ 6 \in 0 .. 11 /\ 2 < 6 /\ 2 % 2 = 6 % 2
      OBVIOUS
    <3> QED
      BY <1>2, <2>1, <2>2, <2>3, <3>1
  <2>5. \E s \in L \cup C : s.side = Sides[(3 % 2) + 1] /\ s.expiry \in K
    <3>1. 3 \in 0 .. 11 /\ 7 \in 0 .. 11 /\ 3 < 7 /\ 3 % 2 = 7 % 2
      OBVIOUS
    <3> QED
      BY <1>2, <2>1, <2>2, <2>3, <3>1
  <2> QED
    BY <2>4, <2>5 DEF BothSides
<1> QED
  BY <1>6, <1>7, <1>8

\* A finite set is a part and the rest.
LEMMA Parted ==
  ASSUME NEW S, IsFiniteSet(S), NEW A, A \subseteq S
  PROVE  /\ IsFiniteSet(A) /\ IsFiniteSet(S \ A) /\ Cardinality(S) \in Nat
         /\ Cardinality(A) \in Nat /\ Cardinality(S \ A) \in Nat
         /\ Cardinality(S) = Cardinality(A) + Cardinality(S \ A)
<1>1. S \cap A = A
  OBVIOUS
<1>2. IsFiniteSet(A) /\ Cardinality(A) \in Nat /\ Cardinality(S) \in Nat
  BY PartIsSmaller
<1>3. IsFiniteSet(S \ A) /\ Cardinality(S \ A) = Cardinality(S) - Cardinality(S \cap A)
  BY FS_Difference
<1>4. Cardinality(S \ A) \in Nat
  BY <1>3, FS_CardinalityType
<1>5. Cardinality(S \ A) = Cardinality(S) - Cardinality(A)
  BY <1>1, <1>3
<1> QED
  BY <1>2, <1>3, <1>4, <1>5

\* Two finite sets together are no larger than both.
LEMMA TogetherAtMost ==
  ASSUME NEW S, IsFiniteSet(S), NEW T, IsFiniteSet(T)
  PROVE  /\ IsFiniteSet(S \cup T) /\ Cardinality(S) \in Nat /\ Cardinality(T) \in Nat
         /\ Cardinality(S \cup T) \in Nat
         /\ Cardinality(S \cup T) <= Cardinality(S) + Cardinality(T)
<1>1. Cardinality(S \cap T) \in Nat /\ Cardinality(S) \in Nat /\ Cardinality(T) \in Nat
  <2>1. S \cap T \subseteq S
    OBVIOUS
  <2> QED
    BY <2>1, PartIsSmaller, FS_CardinalityType
<1>2. /\ IsFiniteSet(S \cup T)
      /\ Cardinality(S \cup T) = Cardinality(S) + Cardinality(T) - Cardinality(S \cap T)
  BY FS_Union
<1>3. Cardinality(S \cup T) \in Nat
  BY <1>2, FS_CardinalityType
<1> QED
  BY <1>1, <1>2, <1>3

\* A set with two members.
LEMMA TwoMembers ==
  ASSUME NEW S, IsFiniteSet(S), NEW x \in S, NEW y \in S, x # y
  PROVE  Cardinality(S) \in Nat /\ Cardinality(S) >= 2
<1>1. {x, y} \subseteq S
  OBVIOUS
<1>2. Cardinality({x, y}) = 2
  BY PairOfNumbers
<1>3. Cardinality(S) \in Nat /\ Cardinality({x, y}) <= Cardinality(S)
  BY <1>1, PartIsSmaller
<1> QED
  BY <1>2, <1>3

\* The near places of a plan differ from one another and so do the far ones, and
\* its first four are a call and a put of each.
LEMMA PlacesDiffer ==
  ASSUME forward \in Nat \ {0}, hour \in Nat
  PROVE  /\ \A i \in {0, 1, 4, 5} : PlanAt[i].expiry = Near
         /\ \A i \in {2, 3} : PlanAt[i].expiry = Far
         /\ PlanAt[0] # PlanAt[1] /\ PlanAt[0] # PlanAt[4] /\ PlanAt[0] # PlanAt[5]
         /\ PlanAt[1] # PlanAt[4] /\ PlanAt[1] # PlanAt[5] /\ PlanAt[4] # PlanAt[5]
         /\ PlanAt[0].side = Sides[1] /\ PlanAt[1].side = Sides[2]
         /\ PlanAt[2].side = Sides[1] /\ PlanAt[3].side = Sides[2]
         /\ \A i \in 0 .. 3 : PlanAt[i].strike = forward
<1>1. /\ 0 % 2 = 0 /\ 1 % 2 = 1 /\ 2 % 2 = 0 /\ 3 % 2 = 1 /\ 4 % 2 = 0 /\ 5 % 2 = 1
  OBVIOUS
<1>2. Sides[1] = "call" /\ Sides[2] = "put" /\ "call" # "put"
  BY DEF Sides
<1>3. /\ PlanAt[0].side = Sides[1] /\ PlanAt[1].side = Sides[2] /\ PlanAt[2].side = Sides[1]
      /\ PlanAt[3].side = Sides[2] /\ PlanAt[4].side = Sides[1] /\ PlanAt[5].side = Sides[2]
  <2>1. \A i \in 0 .. 11 : PlanAt[i].side = Sides[(i % 2) + 1]
    BY PlanFacts
  <2> QED
    BY <1>1, <2>1
<1>4. /\ \A i \in 0 .. 3 : PlanAt[i].strike = forward
      /\ \A i \in 4 .. 7 : PlanAt[i].strike # forward
      /\ \A i \in 0 .. 11 : PlanAt[i].expiry = ExpiryAt(i)
  BY PlanFacts
<1>5. /\ PlanAt[0] # PlanAt[1] /\ PlanAt[0] # PlanAt[5] /\ PlanAt[1] # PlanAt[4] /\ PlanAt[4] # PlanAt[5]
  BY <1>2, <1>3
<1>6. PlanAt[0] # PlanAt[4] /\ PlanAt[1] # PlanAt[5]
  BY <1>4
<1>7. \A i \in {0, 1, 4, 5} : ExpiryAt(i) = Near
  BY DEF ExpiryAt
<1>8. \A i \in {2, 3} : ExpiryAt(i) = Far
  BY DEF ExpiryAt
<1> QED
  BY <1>3, <1>4, <1>5, <1>6, <1>7, <1>8

\* What a pass creates of an expiry is out of that expiry's places.
LEMMA CreatedOf ==
  ASSUME RoomyGrid, hour \in Nat, forward \in Nat \ {0}, NEW K \in SUBSET {Near, Far},
         NEW L, NEW C, NEW lost, FillsRoom(K, L, C, lost), NEW s \in C
  PROVE  /\ s \in [side : {"call", "put"}, strike : Int, expiry : Nat] /\ s.expiry \in K
         /\ \E i \in PlacesOf(K) :
              /\ i \in 0 .. 11 /\ s = PlanAt[i] /\ s.expiry = ExpiryAt(i)
              /\ \A j \in PlacesOf(K) : j < i => PlanAt[j] \in L \cup C \cup lost
<1>1. PICK i \in PlacesOf(K) :
        s = PlanAt[i] /\ \A j \in PlacesOf(K) : j < i => PlanAt[j] \in L \cup C \cup lost
  BY DEF FillsRoom
<1>2. i \in 0 .. 11 /\ ExpiryAt(i) \in K
  BY FirstPlaces DEF PlacesOf
<1>3. /\ PlanAt[i].expiry = ExpiryAt(i)
      /\ PlanAt[i] \in [side : {"call", "put"}, strike : Int, expiry : Nat]
  BY <1>2, PlanFacts
<1> QED
  BY <1>1, <1>2, <1>3

\* The same of a pass over both expiries.
LEMMA CreatedOfEither ==
  ASSUME RoomyGrid, hour \in Nat, forward \in Nat \ {0},
         NEW L, NEW C, NEW lost, FillsRoom({Near, Far}, L, C, lost), NEW s \in C
  PROVE  \E i \in PlacesOf({Near, Far}) :
           /\ i \in 0 .. 11 /\ s = PlanAt[i] /\ s.expiry = ExpiryAt(i)
           /\ \A m \in PlacesOf({Near, Far}) : m < i => PlanAt[m] \in L \cup C \cup lost
<1> DEFINE K == {Near, Far}
<1>1. PICK i \in PlacesOf(K) :
        s = PlanAt[i] /\ \A m \in PlacesOf(K) : m < i => PlanAt[m] \in L \cup C \cup lost
  BY DEF FillsRoom
<1>2. i \in 0 .. 11
  BY FirstPlaces DEF PlacesOf
<1>3. PlanAt[i].expiry = ExpiryAt(i)
  BY <1>2, PlanFacts
<1> QED
  BY <1>1, <1>2, <1>3

\* A pass that leaves at most two near series stops within the first six places:
\* the room is used up, and what it has created far is at the forward.
LEMMA SpreadFacts ==
  ASSUME RoomyGrid, hour \in Nat, forward \in Nat \ {0},
         NEW L, IsFiniteSet(L), NEW C, NEW lost, IsFiniteSet(lost), Cardinality(lost) <= 1,
         FillsRoom({Near, Far}, L, C, lost), CountOf(L \cup C, Near) <= 2
  PROVE  /\ Cardinality(L \cup C) = MaxLiveSeries
         /\ \A s \in C : s.expiry = Far =>
              /\ s = PlanAt[2] \/ s = PlanAt[3]
              /\ \E t \in Expiring(L \cup C, Near) : t.strike = s.strike
              /\ lost = {} => PlanAt[0] \in L \cup C /\ PlanAt[1] \in L \cup C
<1> DEFINE S == L \cup C
           K == {Near, Far}
<1>1. {0, 1, 2, 3, 4, 5} \subseteq PlacesOf(K) /\ PlacesOf(K) \subseteq 0 .. 11
  BY FirstPlaces
<1>2. IsFiniteSet(S) /\ IsFiniteSet(Expiring(S, Near))
  <2>1. IsFiniteSet(S)
    BY DEF FillsRoom
  <2> QED
    BY <2>1, FS_Subset DEF Expiring
<1>3. ASSUME NEW x, NEW y, x # y PROVE x \notin lost \/ y \notin lost
  <2>1. SUFFICES ASSUME x \in lost, y \in lost PROVE FALSE
    OBVIOUS
  <2>2. Cardinality(lost) \in Nat /\ Cardinality(lost) >= 2
    BY <1>3, <2>1, TwoMembers
  <2> QED
    BY <2>2
<1>4. PICK j \in {0, 1, 4, 5} : PlanAt[j] \notin S \cup lost
  <2>1. SUFFICES ASSUME \A j \in {0, 1, 4, 5} : PlanAt[j] \in S \cup lost PROVE FALSE
    OBVIOUS
  <2>2. \A j \in {0, 1, 4, 5} : PlanAt[j] \in S => PlanAt[j] \in Expiring(S, Near)
    BY PlacesDiffer DEF Expiring
  <2> DEFINE N == Expiring(S, Near)
  <2>3. N = Expiring(S, Near) /\ Cardinality(N) <= 2
    BY DEF CountOf
  <2> HIDE DEF N, S
  <2>4. ASSUME NEW x \in N, NEW y \in N, NEW z \in N, x # y, y # z, x # z PROVE FALSE
    <3>1. IsFiniteSet(N)
      BY <1>2, <2>3
    <3>2. Cardinality(N) \in Nat /\ Cardinality(N) >= 3
      BY <2>4, <3>1, ThreeMembers
    <3> QED
      BY <2>3, <3>2
  <2>5. /\ PlanAt[0] # PlanAt[1] /\ PlanAt[0] # PlanAt[4] /\ PlanAt[0] # PlanAt[5]
        /\ PlanAt[1] # PlanAt[4] /\ PlanAt[1] # PlanAt[5] /\ PlanAt[4] # PlanAt[5]
    BY PlacesDiffer
  <2>6. \A i \in {0, 1, 4, 5} : PlanAt[i] \in N \/ PlanAt[i] \in lost
    BY <2>1, <2>2, <2>3
  <2>7. \A i, k \in {0, 1, 4, 5} : i = k \/ PlanAt[i] \notin lost \/ PlanAt[k] \notin lost
    BY <1>3, <2>5
  <2>8. CASE PlanAt[0] \in lost
    <3>1. PlanAt[1] \in N /\ PlanAt[4] \in N /\ PlanAt[5] \in N
      BY <2>6, <2>7, <2>8
    <3> QED
      BY <2>4, <2>5, <3>1
  <2>9. CASE PlanAt[1] \in lost
    <3>1. PlanAt[0] \in N /\ PlanAt[4] \in N /\ PlanAt[5] \in N
      BY <2>6, <2>7, <2>9
    <3> QED
      BY <2>4, <2>5, <3>1
  <2>10. CASE PlanAt[4] \in lost
    <3>1. PlanAt[0] \in N /\ PlanAt[1] \in N /\ PlanAt[5] \in N
      BY <2>6, <2>7, <2>10
    <3> QED
      BY <2>4, <2>5, <3>1
  <2>11. CASE PlanAt[0] \notin lost /\ PlanAt[1] \notin lost /\ PlanAt[4] \notin lost
    <3>1. PlanAt[0] \in N /\ PlanAt[1] \in N /\ PlanAt[4] \in N
      BY <2>6, <2>11
    <3> QED
      BY <2>4, <2>5, <3>1
  <2> QED
    BY <2>8, <2>9, <2>10, <2>11
<1>5. Cardinality(S) = MaxLiveSeries
  BY <1>1, <1>4 DEF FillsRoom
<1>6. ASSUME NEW s \in C, s.expiry = Far
      PROVE  /\ s = PlanAt[2] \/ s = PlanAt[3]
             /\ \E t \in Expiring(S, Near) : t.strike = s.strike
             /\ lost = {} => PlanAt[0] \in S /\ PlanAt[1] \in S
  <2>1. PICK i \in PlacesOf(K) :
          /\ i \in 0 .. 11 /\ s = PlanAt[i] /\ s.expiry = ExpiryAt(i)
          /\ \A m \in PlacesOf(K) : m < i => PlanAt[m] \in S \cup lost
    BY CreatedOfEither
  <2>2. ~(j < i)
    BY <1>1, <1>4, <2>1
  <2>3. i \in 0 .. 5
    BY <1>4, <2>1, <2>2
  <2>4. i \in {2, 3}
    <3>1. Near # Far
      BY CalendarFacts
    <3>2. i \notin {0, 1, 4, 5}
      BY <1>6, <2>1, <3>1, FirstPlaces
    <3> QED
      BY <2>3, <3>2
  <2>5. PlanAt[0] \in S \cup lost /\ PlanAt[1] \in S \cup lost
    BY <1>1, <2>1, <2>4
  <2>6. PICK m \in {0, 1} : PlanAt[m] \in S
    <3>1. PlanAt[0] # PlanAt[1]
      BY PlacesDiffer
    <3>2. PlanAt[0] \notin lost \/ PlanAt[1] \notin lost
      BY <1>3, <3>1
    <3> QED
      BY <2>5, <3>2
  <2>7. PlanAt[m] \in Expiring(S, Near) /\ PlanAt[m].strike = s.strike
    <3>1. PlanAt[m].expiry = Near /\ PlanAt[m].strike = forward /\ PlanAt[i].strike = forward
      BY <2>4, PlacesDiffer
    <3> QED
      BY <2>1, <2>6, <3>1 DEF Expiring
  <2> QED
    BY <2>1, <2>4, <2>5, <2>7
<1> QED
  BY <1>5, <1>6

\* A pass that loses nothing and finds room for four, and for six beside the series
\* that are not near, leaves four near series, and both sides of each expiry.
LEMMA FullFacts ==
  ASSUME RoomyGrid, hour \in Nat, forward \in Nat \ {0},
         NEW L, IsFiniteSet(L), NEW C, FillsRoom({Near, Far}, L, C, {}),
         Cardinality(L) + 4 <= MaxLiveSeries,
         Cardinality(L) + 6 <= MaxLiveSeries + CountOf(L, Near)
  PROVE  /\ BothSides(L \cup C, {Near}) /\ BothSides(L \cup C, {Far})
         /\ CountOf(L \cup C, Near) >= 4
<1> DEFINE S == L \cup C
           K == {Near, Far}
           n == MaxLiveSeries
<1>1. {0, 1, 2, 3, 4, 5} \subseteq PlacesOf(K) /\ PlacesOf(K) \subseteq 0 .. 11
  BY FirstPlaces
<1>2. /\ IsFiniteSet(S) /\ n \in Nat /\ Cardinality(L) \in Nat
      /\ IsFiniteSet(Expiring(S, Near)) /\ Cardinality(Expiring(S, Near)) \in Nat
  <2>1. IsFiniteSet(S)
    BY DEF FillsRoom
  <2>2. Expiring(S, Near) \subseteq S
    BY DEF Expiring
  <2> QED
    BY <2>1, <2>2, PartIsSmaller, GridConstants, FS_CardinalityType
<1>3. ASSUME NEW s \in C
      PROVE  \E i \in PlacesOf(K) : /\ i \in 0 .. 11 /\ s = PlanAt[i] /\ s.expiry = ExpiryAt(i)
                                    /\ \A m \in PlacesOf(K) : m < i => PlanAt[m] \in S
  <2> DEFINE none == {}
  <2>1. FillsRoom(K, L, C, none) /\ K \in SUBSET {Near, Far}
    OBVIOUS
  <2>2. S \cup none = S
    OBVIOUS
  <2> HIDE DEF K, none
  <2>3. \E i \in PlacesOf(K) : /\ i \in 0 .. 11 /\ s = PlanAt[i] /\ s.expiry = ExpiryAt(i)
                               /\ \A m \in PlacesOf(K) : m < i => PlanAt[m] \in S \cup none
    BY <2>1, CreatedOf
  <2> QED
    BY <2>2, <2>3
<1>4. \A i \in 0 .. 3 : PlanAt[i] \in S
  <2>1. SUFFICES ASSUME NEW i \in 0 .. 3, PlanAt[i] \notin S PROVE FALSE
    OBVIOUS
  <2>2. Cardinality(S) = n
    <3>1. i \in PlacesOf(K)
      BY <1>1
    <3> QED
      BY <2>1, <3>1 DEF FillsRoom
  <2>3. S \subseteq ((L \cup {PlanAt[0]}) \cup {PlanAt[1]}) \cup {PlanAt[2]}
    <3>1. ASSUME NEW s \in C PROVE s \in {PlanAt[0], PlanAt[1], PlanAt[2]}
      <4>1. PICK k \in PlacesOf(K) : /\ k \in 0 .. 11 /\ s = PlanAt[k]
                                     /\ \A m \in PlacesOf(K) : m < k => PlanAt[m] \in S
        BY <1>3
      <4>2. k # i
        BY <2>1, <4>1
      <4>3. ~(i < k)
        BY <1>1, <2>1, <4>1
      <4>4. k \in {0, 1, 2}
        BY <4>1, <4>2, <4>3
      <4> QED
        BY <4>1, <4>4
    <3> QED
      BY <3>1
  <2> DEFINE A1 == L \cup {PlanAt[0]}
             A2 == A1 \cup {PlanAt[1]}
             A3 == A2 \cup {PlanAt[2]}
  <2>4. IsFiniteSet(A1) /\ Cardinality(A1) \in Nat /\ Cardinality(A1) <= Cardinality(L) + 1
    BY OneAdded
  <2> HIDE DEF A1
  <2>5. IsFiniteSet(A2) /\ Cardinality(A2) \in Nat /\ Cardinality(A2) <= Cardinality(A1) + 1
    BY <2>4, OneAdded
  <2> HIDE DEF A2
  <2>6. IsFiniteSet(A3) /\ Cardinality(A3) \in Nat /\ Cardinality(A3) <= Cardinality(A2) + 1
    BY <2>5, OneAdded
  <2> HIDE DEF A3
  <2>7. Cardinality(S) <= Cardinality(A3)
    BY <2>3, <2>6, PartIsSmaller DEF A1, A2, A3
  <2> HIDE DEF S
  <2> QED
    BY <1>2, <2>2, <2>4, <2>5, <2>6, <2>7
<1>5. BothSides(S, {Near}) /\ BothSides(S, {Far})
  <2>1. PlanAt[0] \in S /\ PlanAt[1] \in S /\ PlanAt[2] \in S /\ PlanAt[3] \in S
    BY <1>4
  <2> HIDE DEF S
  <2> QED
    BY <2>1, PlacesDiffer DEF BothSides
<1>6. CASE \A j \in {0, 1, 4, 5} : PlanAt[j] \in S
  <2>1. /\ PlanAt[0] \in Expiring(S, Near) /\ PlanAt[1] \in Expiring(S, Near)
        /\ PlanAt[4] \in Expiring(S, Near) /\ PlanAt[5] \in Expiring(S, Near)
    BY <1>6, PlacesDiffer DEF Expiring
  <2>2. /\ PlanAt[0] # PlanAt[1] /\ PlanAt[0] # PlanAt[4] /\ PlanAt[0] # PlanAt[5]
        /\ PlanAt[1] # PlanAt[4] /\ PlanAt[1] # PlanAt[5] /\ PlanAt[4] # PlanAt[5]
    BY PlacesDiffer
  <2> DEFINE N == Expiring(S, Near)
  <2> HIDE DEF N
  <2>3. Cardinality(N) >= 4
    BY <1>2, <2>1, <2>2, FourMembers DEF N
  <2> QED
    BY <1>5, <2>3 DEF N, CountOf
<1>7. CASE \E j \in {0, 1, 4, 5} : PlanAt[j] \notin S
  <2>1. PICK j \in {0, 1, 4, 5} : PlanAt[j] \notin S
    BY <1>7
  <2>2. Cardinality(S) = n
    BY <1>1, <2>1 DEF FillsRoom
  <2> DEFINE O == L \ Expiring(L, Near)
             A1 == O \cup {PlanAt[2]}
             A2 == A1 \cup {PlanAt[3]}
  <2>3. S \ Expiring(S, Near) \subseteq A2
    <3>1. ASSUME NEW s \in C, s.expiry # Near PROVE s \in {PlanAt[2], PlanAt[3]}
      <4>1. PICK k \in PlacesOf(K) : /\ k \in 0 .. 11 /\ s = PlanAt[k] /\ s.expiry = ExpiryAt(k)
                                     /\ \A m \in PlacesOf(K) : m < k => PlanAt[m] \in S
        BY <1>3
      <4>2. ~(j < k)
        BY <1>1, <2>1, <4>1
      <4>3. k \in 0 .. 5 /\ k \notin {0, 1, 4, 5}
        BY <2>1, <3>1, <4>1, <4>2, FirstPlaces
      <4>4. k \in {2, 3}
        BY <4>3
      <4> QED
        BY <4>1, <4>4
    <3> QED
      BY <3>1 DEF Expiring
  <2>4. /\ IsFiniteSet(O) /\ Cardinality(O) \in Nat /\ Cardinality(Expiring(L, Near)) \in Nat
        /\ Cardinality(L) = Cardinality(Expiring(L, Near)) + Cardinality(O)
    <3>1. Expiring(L, Near) \subseteq L
      BY DEF Expiring
    <3> QED
      BY <3>1, Parted
  <2> HIDE DEF O
  <2>5. IsFiniteSet(A1) /\ Cardinality(A1) \in Nat /\ Cardinality(A1) <= Cardinality(O) + 1
    BY <2>4, OneAdded
  <2> HIDE DEF A1
  <2>6. IsFiniteSet(A2) /\ Cardinality(A2) \in Nat /\ Cardinality(A2) <= Cardinality(A1) + 1
    BY <2>5, OneAdded
  <2> HIDE DEF A2
  <2>7. /\ Cardinality(S \ Expiring(S, Near)) \in Nat
        /\ Cardinality(S) = Cardinality(Expiring(S, Near)) + Cardinality(S \ Expiring(S, Near))
    <3>1. Expiring(S, Near) \subseteq S
      BY DEF Expiring
    <3> HIDE DEF S
    <3> QED
      BY <1>2, <3>1, Parted
  <2>8. Cardinality(S \ Expiring(S, Near)) <= Cardinality(A2)
    BY <2>3, <2>6, PartIsSmaller
  <2>9. Cardinality(Expiring(S, Near)) >= 4
    <3>1. Cardinality(L) + 6 <= n + Cardinality(Expiring(L, Near))
      BY DEF CountOf
    <3> HIDE DEF S, n
    <3> QED
      BY <1>2, <2>2, <2>4, <2>5, <2>6, <2>7, <2>8, <3>1
  <2> QED
    BY <1>5, <2>9 DEF CountOf
<1> QED
  BY <1>6, <1>7

-----------------------------------------------------------------------------
(* The inductive invariant.                                                *)

\* The calendar has been rolled since the last expiry; a pass may still have that
\* expiry's series to keep.
Rolled == allowed = {Near, Far}
Unsettled == hour - Opening < GraceTime \/ (hour - Opening = GraceTime /\ lastPass < hour)

SeriesRecord == [side : {"call", "put"}, strike : Int, expiry : Nat]

\* The clock, and what may be on the calendar and in the book.
GridType ==
  /\ hour \in Nat /\ forward \in Nat \ {0} /\ missed \in BOOLEAN /\ lastPass \in {hour - 1, hour}
  /\ listed \in SUBSET SeriesRecord /\ IsFiniteSet(listed) /\ Cardinality(listed) <= MaxLiveSeries
  /\ \A s \in listed : s.expiry <= Opening - Gap \/ s.expiry \in {Opening, Near, Far}
  /\ allowed \in SUBSET Int /\ IsFiniteSet(allowed) /\ Cardinality(allowed) <= 2
  /\ Rolled \/ \A e \in allowed : e <= Opening \/ e = Near
  /\ Rolled \/ Expiring(listed, Far) = {}

\* The near expiry has three series or the far one both sides; failing that, while
\* the last expiry's series fill the book, there are few others.
Older(S) == {s \in S : s.expiry < Opening}
Spread == CountOf(listed, Near) >= 3 \/ BothSides(listed, {Far})
Tight ==
  /\ Cardinality(listed) >= MaxLiveSeries
  /\ CountOf(listed, Far) + Cardinality(Older(listed)) <= 2
  /\ \A s \in Expiring(listed, Far) : \E t \in Expiring(listed, Near) : t.strike = s.strike
SpreadInv == Rolled => Spread \/ (Unsettled /\ Tight)

\* Until the last expiry's series are closed there is a call and a put beside them,
\* or they will leave room for both; and once they are closed there is one of each,
\* or room for it.
RoomInv ==
  /\ Unsettled =>
       \/ CountOf(listed, Opening) >= 3
       \/ BothSides(listed, {Near, Far})
       \/ ~Rolled /\ Expiring(listed, Near) = {} /\ Near \notin allowed
  /\ hour - Opening = GraceTime /\ lastPass = hour =>
       \/ BothSides(listed, {Near, Far})
       \/ ~Rolled /\ CountOf(listed, Near) + 3 <= MaxLiveSeries

\* While no send is lost, the next expiry has both sides, and four series, and the
\* one after both sides; before the last expiry's series are closed, they are four.
Carried == BothSides(listed, {Near}) /\ CountOf(listed, Near) >= 4 /\ BothSides(listed, {Far})
UnmissedInv ==
  /\ lastPass = -1 => listed = {} /\ allowed = {} /\ hour = 0
  /\ ~missed =>
       /\ lastPass >= 0 => Near \in allowed /\ (lastPass = hour => Rolled)
       /\ \/ Carried
          \/ /\ Unsettled
             /\ \/ lastPass = -1
                \/ CountOf(listed, Opening) >= 4 /\ BothSides(listed, {Near})

GridIInv == GridType /\ SpreadInv /\ RoomInv /\ UnmissedInv

-----------------------------------------------------------------------------
(* A pass.                                                                 *)

\* What a pass does, of which one send at most is lost: K is what it can create for,
\* kept what it fails to close and lost what it fails to create, C what it creates.
Passed(K, kept, lost, C) ==
  /\ hour' = hour /\ forward' = forward /\ lastPass' = hour /\ missed' \in BOOLEAN
  /\ listed' = Unclosed(kept) \cup C /\ FillsRoom(K, Unclosed(kept), C, lost)
  /\ K \in SUBSET {Near, Far}
  /\ kept \in SUBSET listed /\ \A s \in kept : s.expiry + GraceTime <= hour
  /\ IsFiniteSet(kept) /\ IsFiniteSet(lost) /\ Cardinality(kept) + Cardinality(lost) <= 1
  /\ \/ /\ allowed' = {Near, Far} /\ Far \in K
        /\ Near \in K <=> Near - hour > GraceTime
     \/ /\ allowed' = allowed /\ ~Rolled /\ kept = {} /\ lost = {}
        /\ K = {} \/ (K = {Near} /\ Near \in allowed)
  /\ ~missed' => ~missed /\ allowed' = {Near, Far} /\ kept = {} /\ lost = {}

\* A pass that takes X for the calendar, fails to close kept and to create lost.
Losing(X, kept, lost) ==
  /\ PassWith(X, kept, lost) /\ missed' \in BOOLEAN
  /\ \/ X = {Near, Far}
     \/ X = allowed /\ ~Rolled /\ kept = {} /\ lost = {}
  /\ kept \in SUBSET listed /\ \A s \in kept : s \notin Unclosed({})
  /\ IsFiniteSet(kept) /\ IsFiniteSet(lost) /\ Cardinality(kept) + Cardinality(lost) <= 1
  /\ ~missed' => ~missed /\ X = {Near, Far} /\ kept = {} /\ lost = {}

\* Every pass is such a pass.
LEMMA PassIs ==
  ASSUME RoomyGrid, GridType, GridPass
  PROVE  \E K, kept, lost, C : Passed(K, kept, lost, C)
<1>1. /\ hour \in Nat /\ Calendar(hour) = {Near, Far} /\ GraceTime \in Nat /\ missed \in BOOLEAN
      /\ Opening \in Nat /\ Near \in Nat /\ Far \in Nat /\ Near < Far /\ hour < Near
      /\ Opening <= hour /\ Far = Near + Gap /\ Gap \in Nat /\ 2 * GraceTime < Gap
  BY CalendarIs, CalendarFacts, GridConstants DEF GridType, RoomyGrid
<1>2. /\ IsFiniteSet({}) /\ Cardinality({}) = 0
      /\ \A x : IsFiniteSet({x}) /\ Cardinality({x}) = 1
  BY FS_EmptySet, FS_Singleton
<1>3. PICK X, kept, lost : Losing(X, kept, lost)
  <2>1. CASE WholePass
    <3>1. Losing({Near, Far}, {}, {})
      BY <1>1, <1>2, <2>1 DEF WholePass, Losing
    <3> QED
      BY <3>1
  <2>2. CASE PassWithoutRoll
    <3>1. Losing(allowed, {}, {})
      BY <1>1, <1>2, <2>2 DEF PassWithoutRoll, Rolled, Losing
    <3> QED
      BY <3>1
  <2>3. CASE PassWithoutClosing
    <3>1. PICK s \in listed \ Unclosed({}) : PassWith(Calendar(hour), {s}, {}) /\ missed' = TRUE
      BY <2>3 DEF PassWithoutClosing
    <3>2. PassWith({Near, Far}, {s}, {}) /\ missed'
      BY <1>1, <3>1
    <3>3. {s} \in SUBSET listed /\ \A x \in {s} : x \notin Unclosed({})
      OBVIOUS
    <3>4. /\ IsFiniteSet({s}) /\ IsFiniteSet({})
          /\ Cardinality({s}) + Cardinality({}) <= 1
      <4>1. IsFiniteSet({s}) /\ Cardinality({s}) = 1
        BY <1>2
      <4>2. IsFiniteSet({}) /\ Cardinality({}) = 0
        BY <1>2
      <4> QED
        BY <4>1, <4>2
    <3>5. Losing({Near, Far}, {s}, {})
      BY <3>1, <3>2, <3>3, <3>4 DEF Losing
    <3> QED
      BY <3>5
  <2>4. CASE PassWithoutCreation
    <3>1. PICK s : PassWith(Calendar(hour), {}, {s}) /\ missed' = TRUE
      BY <2>4 DEF PassWithoutCreation
    <3>2. PassWith({Near, Far}, {}, {s}) /\ missed'
      BY <1>1, <3>1
    <3>3. /\ IsFiniteSet({s}) /\ IsFiniteSet({})
          /\ Cardinality({}) + Cardinality({s}) <= 1
      <4>1. IsFiniteSet({s}) /\ Cardinality({s}) = 1
        BY <1>2
      <4>2. IsFiniteSet({}) /\ Cardinality({}) = 0
        BY <1>2
      <4> QED
        BY <4>1, <4>2
    <3>4. Losing({Near, Far}, {}, {s})
      BY <3>1, <3>2, <3>3 DEF Losing
    <3> QED
      BY <3>4
  <2> QED
    BY <2>1, <2>2, <2>3, <2>4 DEF GridPass
<1> DEFINE K == Creatable(X)
           L == Unclosed(kept)
           C == Created(X, L, lost)
<1>4. X \in SUBSET Int /\ IsFiniteSet(X) /\ Cardinality(X) <= 2
  <2>1. CASE X = {Near, Far}
    <3>1. Near # Far
      BY <1>1
    <3>2. IsFiniteSet({Near, Far}) /\ Cardinality({Near, Far}) = 2
      BY <3>1, PairOfNumbers
    <3> QED
      BY <1>1, <2>1, <3>2
  <2>2. CASE X = allowed
    BY <2>2 DEF GridType
  <2> QED
    BY <1>3, <2>1, <2>2 DEF Losing
<1>5. \/ /\ X = {Near, Far} /\ Far \in K /\ K \subseteq {Near, Far}
         /\ Near \in K <=> Near - hour > GraceTime
      \/ /\ X = allowed /\ ~Rolled /\ kept = {} /\ lost = {}
         /\ K = {} \/ (K = {Near} /\ Near \in allowed)
  <2>1. CASE X = {Near, Far}
    <3>1. Far - hour > GraceTime
      BY <1>1
    <3> QED
      BY <1>1, <2>1, <3>1 DEF Creatable, AheadOf
  <2>2. CASE X = allowed /\ ~Rolled /\ kept = {} /\ lost = {}
    <3>1. \A e \in allowed : e <= Opening \/ e = Near
      BY <2>2 DEF GridType
    <3>2. \A e \in K : e = Near /\ Near \in allowed
      BY <1>1, <1>4, <2>2, <3>1 DEF Creatable, AheadOf
    <3>3. K = {} \/ (K = {Near} /\ Near \in allowed)
      BY <3>2
    <3> QED
      BY <2>2, <3>3
  <2> QED
    BY <1>3, <2>1, <2>2 DEF Losing
<1>6. L \subseteq listed /\ IsFiniteSet(L) /\ Cardinality(L) <= MaxLiveSeries
  <2>1. L \subseteq listed
    BY <1>3 DEF Unclosed, Losing
  <2>2. IsFiniteSet(listed) /\ Cardinality(listed) <= MaxLiveSeries /\ MaxLiveSeries \in Nat
    BY GridConstants DEF GridType
  <2> HIDE DEF L
  <2>3. IsFiniteSet(L) /\ Cardinality(L) \in Nat /\ Cardinality(listed) \in Nat
        /\ Cardinality(L) <= Cardinality(listed)
    BY <2>1, <2>2, PartIsSmaller
  <2> QED
    BY <2>1, <2>2, <2>3
<1>7. FillsRoom(K, L, C, lost)
  <2>1. K \subseteq {Near, Far}
    BY <1>5
  <2> QED
    BY <1>1, <1>4, <1>6, <2>1, PassFillsRoom
<1>8. \A s \in kept : s.expiry + GraceTime <= hour
  <2>1. \A s \in listed : s.expiry \in Nat
    BY DEF GridType, SeriesRecord
  <2>2. \A s \in kept : s \in listed /\ ~(s.expiry + GraceTime > hour)
    BY <1>3 DEF Unclosed, Losing
  <2> QED
    BY <1>1, <2>1, <2>2
<1>9. hour' = hour /\ forward' = forward /\ lastPass' = hour /\ allowed' = X /\ listed' = L \cup C
  BY <1>3 DEF PassWith, Losing
<1> HIDE DEF K, L, C
<1>10. Passed(K, kept, lost, C)
  BY <1>3, <1>5, <1>7, <1>8, <1>9 DEF Passed, L, Losing
<1> QED
  BY <1>10

\* What closing leaves: nothing of what is ahead, and until the grace is over nothing
\* of the last expiry, is closed; of what is older only what could not be closed stays.
LEMMA LeftIs ==
  ASSUME RoomyGrid, GridType, NEW kept \in SUBSET listed,
         \A s \in kept : s.expiry + GraceTime <= hour
  PROVE  /\ Unclosed(kept) \subseteq listed /\ IsFiniteSet(Unclosed(kept))
         /\ Cardinality(Unclosed(kept)) \in Nat /\ Cardinality(Unclosed(kept)) <= MaxLiveSeries
         /\ kept \subseteq Unclosed(kept)
         /\ \A s \in listed : s.expiry \in {Near, Far} => s \in Unclosed(kept)
         /\ \A s \in kept : s.expiry <= Opening
         /\ hour - Opening < GraceTime =>
              /\ \A s \in listed : s.expiry = Opening => s \in Unclosed(kept)
              /\ \A s \in kept : s.expiry < Opening
              /\ \A s \in Unclosed(kept) : s.expiry < Opening => s \in kept
         /\ hour - Opening >= GraceTime =>
              \A s \in Unclosed(kept) : s \in kept \/ s.expiry \in {Near, Far}
<1> DEFINE L == Unclosed(kept)
<1>1. /\ hour \in Nat /\ Opening \in Nat /\ Near \in Nat /\ Far \in Nat /\ Gap \in Nat
      /\ Opening <= hour /\ hour < Near /\ Near = Opening + Gap /\ Far = Near + Gap
      /\ GraceTime \in Nat /\ 2 * GraceTime < Gap /\ MaxLiveSeries \in Nat
  BY CalendarFacts, GridConstants DEF GridType, RoomyGrid
<1>2. \A s \in listed : /\ s.expiry \in Nat
                        /\ s.expiry <= Opening - Gap \/ s.expiry \in {Opening, Near, Far}
  BY DEF GridType, SeriesRecord
<1>3. \A s : s \in L <=> (s \in listed /\ s.expiry + GraceTime > hour) \/ s \in kept
  BY DEF Unclosed
<1>4. L \subseteq listed /\ IsFiniteSet(L) /\ Cardinality(L) \in Nat /\ Cardinality(L) <= MaxLiveSeries
  <2>1. L \subseteq listed
    BY <1>3
  <2>2. IsFiniteSet(listed) /\ Cardinality(listed) <= MaxLiveSeries
    BY DEF GridType
  <2> HIDE DEF L
  <2>3. IsFiniteSet(L) /\ Cardinality(L) \in Nat /\ Cardinality(listed) \in Nat
        /\ Cardinality(L) <= Cardinality(listed)
    BY <2>1, <2>2, PartIsSmaller
  <2> QED
    BY <1>1, <2>1, <2>2, <2>3
<1> HIDE DEF L
<1>5. \A s \in listed : s.expiry \in {Near, Far} => s \in L
  BY <1>1, <1>2, <1>3
<1>6. \A s \in kept : s.expiry <= Opening
  BY <1>1, <1>2
<1>7. ASSUME hour - Opening < GraceTime
      PROVE  /\ \A s \in listed : s.expiry = Opening => s \in L
             /\ \A s \in kept : s.expiry < Opening
             /\ \A s \in L : s.expiry < Opening => s \in kept
  BY <1>1, <1>2, <1>3, <1>7
<1>8. ASSUME hour - Opening >= GraceTime
      PROVE  \A s \in L : s \in kept \/ s.expiry \in {Near, Far}
  BY <1>1, <1>2, <1>3, <1>8
<1> QED
  BY <1>3, <1>4, <1>5, <1>6, <1>7, <1>8 DEF L

\* The calendar stays while the clock does.
LEMMA SameClock ==
  ASSUME hour' = hour
  PROVE  Opening' = Opening /\ Near' = Near /\ Far' = Far
BY DEF Opening, Near, Far

\* A pass leaves a book and a calendar as GridType has them.
LEMMA PassType ==
  ASSUME RoomyGrid, GridType, NEW K, NEW kept, NEW lost, NEW C, Passed(K, kept, lost, C)
  PROVE  GridType'
<1>1. /\ hour \in Nat /\ Opening \in Nat /\ Near \in Nat /\ Far \in Nat /\ Gap \in Nat
      /\ Near < Far /\ forward \in Nat \ {0}
  BY CalendarFacts DEF GridType
<1>2. Opening' = Opening /\ Near' = Near /\ Far' = Far
  BY SameClock DEF Passed
<1> DEFINE L == Unclosed(kept)
<1>3. L \subseteq listed
  BY LeftIs DEF Passed
<1>4. \A s \in C : s \in SeriesRecord /\ s.expiry \in K
  BY <1>1, CreatedOf DEF Passed, SeriesRecord
<1>5. K \in SUBSET {Near, Far}
  BY DEF Passed
<1> HIDE DEF L
<1>6. listed' = L \cup C /\ IsFiniteSet(L \cup C) /\ Cardinality(L \cup C) <= MaxLiveSeries
  BY DEF Passed, FillsRoom, L
<1>7. listed \in SUBSET SeriesRecord
      /\ \A s \in listed : s.expiry <= Opening - Gap \/ s.expiry \in {Opening, Near, Far}
  BY DEF GridType
<1>8. /\ listed' \in SUBSET SeriesRecord /\ IsFiniteSet(listed') /\ Cardinality(listed') <= MaxLiveSeries
      /\ \A s \in listed' : s.expiry <= Opening - Gap \/ s.expiry \in {Opening, Near, Far}
  BY <1>3, <1>4, <1>5, <1>6, <1>7
<1>9. /\ allowed' \in SUBSET Int /\ IsFiniteSet(allowed') /\ Cardinality(allowed') <= 2
      /\ allowed' = {Near, Far} \/ \A e \in allowed' : e <= Opening \/ e = Near
      /\ allowed' = {Near, Far} \/ Expiring(listed', Far) = {}
  <2>1. CASE allowed' = {Near, Far}
    <3>1. Near # Far
      BY <1>1
    <3>2. IsFiniteSet({Near, Far}) /\ Cardinality({Near, Far}) = 2
      BY <3>1, PairOfNumbers
    <3> QED
      BY <1>1, <2>1, <3>2
  <2>2. CASE allowed' # {Near, Far}
    <3>1. allowed' = allowed /\ ~Rolled /\ Far \notin K
      BY <1>1, <2>2 DEF Passed
    <3>2. \A s \in C : s.expiry # Far
      BY <1>4, <3>1
    <3>3. Expiring(listed, Far) = {}
      BY <3>1 DEF GridType
    <3>4. Expiring(listed', Far) = {}
      BY <1>3, <1>6, <3>2, <3>3 DEF Expiring
    <3> QED
      BY <3>1, <3>4 DEF GridType
  <2> QED
    BY <2>1, <2>2
<1>10. hour' \in Nat /\ forward' \in Nat \ {0} /\ missed' \in BOOLEAN /\ lastPass' \in {hour' - 1, hour'}
  BY <1>1 DEF Passed
<1> QED
  BY <1>2, <1>8, <1>9, <1>10 DEF GridType, Rolled, Expiring

\* A set of two members or more has two that differ.
LEMMA TwoOf ==
  ASSUME NEW S, IsFiniteSet(S), Cardinality(S) >= 2
  PROVE  \E x, y \in S : x # y
<1>1. Cardinality(S) \in Nat
  BY FS_CardinalityType
<1>2. PICK x \in S : TRUE
  BY <1>1, FS_EmptySet
<1>3. IsFiniteSet(S \ {x}) /\ Cardinality(S \ {x}) = Cardinality(S) - 1
  BY <1>2, FS_RemoveElement
<1>4. S \ {x} # {}
  BY <1>1, <1>3, FS_EmptySet
<1> QED
  BY <1>2, <1>4

\* The rest of a book, beside what expires far ahead and what is older than the last
\* expiry.
Rest(S) == (S \ Expiring(S, Far)) \ Older(S)

\* A book in three parts.
LEMMA ThreeParts ==
  ASSUME hour \in Nat, NEW S, IsFiniteSet(S)
  PROVE  /\ CountOf(S, Far) \in Nat /\ Cardinality(Older(S)) \in Nat
         /\ IsFiniteSet(Rest(S)) /\ Cardinality(Rest(S)) \in Nat
         /\ Cardinality(S) = CountOf(S, Far) + Cardinality(Older(S)) + Cardinality(Rest(S))
<1> DEFINE F == Expiring(S, Far)
           T == S \ F
           O == Older(S)
<1>1. F \subseteq S
  BY DEF Expiring
<1>2. O \subseteq T
  <2>1. Opening \in Nat /\ Far \in Nat /\ Opening < Far
    BY CalendarFacts
  <2> QED
    BY <2>1 DEF Expiring, Older
<1> HIDE DEF F, O
<1>3. /\ IsFiniteSet(T) /\ Cardinality(S) \in Nat /\ Cardinality(F) \in Nat /\ Cardinality(T) \in Nat
      /\ Cardinality(S) = Cardinality(F) + Cardinality(T)
  BY <1>1, Parted
<1> HIDE DEF T
<1>4. /\ IsFiniteSet(T \ O) /\ Cardinality(O) \in Nat /\ Cardinality(T \ O) \in Nat
      /\ Cardinality(T) = Cardinality(O) + Cardinality(T \ O)
  BY <1>2, <1>3, Parted
<1>5. Rest(S) = T \ O /\ CountOf(S, Far) = Cardinality(F)
  BY DEF Rest, CountOf, F, T, O
<1> QED
  BY <1>3, <1>4, <1>5 DEF O

\* The series of an expiry are a part of the book.
LEMMA ExpiringIsPart ==
  ASSUME NEW S, IsFiniteSet(S), NEW e
  PROVE  /\ Expiring(S, e) \subseteq S /\ IsFiniteSet(Expiring(S, e))
         /\ CountOf(S, e) \in Nat /\ CountOf(S, e) = Cardinality(Expiring(S, e))
         /\ CountOf(S, e) <= Cardinality(S)
<1>1. Expiring(S, e) \subseteq S
  BY DEF Expiring
<1> QED
  BY <1>1, PartIsSmaller DEF CountOf

\* Series of an expiry that are in one book and in another.
LEMMA CarriedOver ==
  ASSUME NEW S, IsFiniteSet(S), NEW T, IsFiniteSet(T), NEW e, Expiring(T, e) \subseteq S
  PROVE  /\ CountOf(T, e) <= CountOf(S, e) /\ Expiring(T, e) \subseteq Expiring(S, e)
         /\ BothSides(T, {e}) => BothSides(S, {e})
<1>1. Expiring(T, e) \subseteq Expiring(S, e)
  BY DEF Expiring
<1>2. CountOf(T, e) <= CountOf(S, e)
  BY <1>1, ExpiringIsPart, PartIsSmaller DEF CountOf
<1>3. ASSUME BothSides(T, {e}) PROVE BothSides(S, {e})
  BY <1>1, <1>3 DEF BothSides, Expiring
<1> QED
  BY <1>1, <1>2, <1>3

\* A pass creates at most one far series if it leaves a side of the far expiry
\* without any.
LEMMA OneFar ==
  ASSUME hour \in Nat, forward \in Nat \ {0}, NEW L, NEW C, IsFiniteSet(L \cup C),
         ~BothSides(L \cup C, {Far}),
         \A s \in C : s.expiry = Far => s = PlanAt[2] \/ s = PlanAt[3]
  PROVE  /\ IsFiniteSet(Expiring(C, Far)) /\ CountOf(C, Far) \in Nat /\ CountOf(C, Far) <= 1
         /\ Expiring(L \cup C, Far) = Expiring(L, Far) \cup Expiring(C, Far)
<1>1. \E i \in {2, 3} : Expiring(C, Far) \subseteq {PlanAt[i]}
  <2>1. ~(PlanAt[2] \in L \cup C /\ PlanAt[3] \in L \cup C)
    BY PlacesDiffer DEF BothSides
  <2> QED
    BY <2>1 DEF Expiring
<1>2. PICK i \in {2, 3} : Expiring(C, Far) \subseteq {PlanAt[i]}
  BY <1>1
<1>3. IsFiniteSet({PlanAt[i]}) /\ Cardinality({PlanAt[i]}) = 1
  BY FS_Singleton
<1>4. /\ IsFiniteSet(Expiring(C, Far)) /\ Cardinality(Expiring(C, Far)) \in Nat
      /\ Cardinality(Expiring(C, Far)) <= Cardinality({PlanAt[i]})
  BY <1>2, <1>3, PartIsSmaller
<1> QED
  BY <1>3, <1>4 DEF Expiring, CountOf

\* The near expiry keeps its three series or the far one gets both sides, or the
\* last expiry's series still fill the book.
LEMMA PassSpread ==
  ASSUME RoomyGrid, GridType, SpreadInv, NEW K, NEW kept, NEW lost, NEW C,
         Passed(K, kept, lost, C)
  PROVE  SpreadInv'
<1> DEFINE L == Unclosed(kept)
           S == L \cup C
           n == MaxLiveSeries
<1>1. /\ hour \in Nat /\ Opening \in Nat /\ Near \in Nat /\ Far \in Nat /\ Gap \in Nat
      /\ Opening <= hour /\ hour < Near /\ Near = Opening + Gap /\ Far = Near + Gap
      /\ GraceTime \in Nat /\ 2 * GraceTime < Gap /\ n \in Nat /\ n >= 6
      /\ forward \in Nat \ {0}
  BY CalendarFacts, GridConstants DEF GridType, RoomyGrid
<1>2. Opening' = Opening /\ Near' = Near /\ Far' = Far /\ listed' = S /\ hour' = hour /\ lastPass' = hour
  BY SameClock DEF Passed
<1>3. SUFFICES ASSUME allowed' = {Near, Far}, CountOf(S, Near) <= 2, ~BothSides(S, {Far})
               PROVE  /\ hour - Opening < GraceTime
                      /\ Cardinality(S) >= n
                      /\ CountOf(S, Far) + Cardinality(Older(S)) <= 2
                      /\ \A s \in Expiring(S, Far) : \E t \in Expiring(S, Near) : t.strike = s.strike
  <2>1. IsFiniteSet(S)
    BY DEF Passed, FillsRoom
  <2> HIDE DEF S
  <2>2. CountOf(S, Near) \in Nat
    BY <2>1, ExpiringIsPart
  <2>3. CountOf(S, Near) <= 2 \/ CountOf(S, Near) >= 3
    BY <2>2
  <2> QED
    BY <1>2, <1>3, <2>3 DEF SpreadInv, Rolled, Spread, Tight, Unsettled, CountOf, Expiring, Older, BothSides
<1>4. /\ FillsRoom(K, L, C, lost) /\ Far \in K /\ K \in SUBSET {Near, Far}
      /\ Near \in K <=> Near - hour > GraceTime
  BY <1>3 DEF Passed, Rolled
<1>5. /\ L \subseteq listed /\ IsFiniteSet(L) /\ Cardinality(L) \in Nat
      /\ \A s \in listed : s.expiry \in {Near, Far} => s \in L
      /\ hour - Opening < GraceTime =>
           /\ \A s \in listed : s.expiry = Opening => s \in L
           /\ \A s \in L : s.expiry < Opening => s \in kept
      /\ hour - Opening >= GraceTime => \A s \in L : s \in kept \/ s.expiry \in {Near, Far}
  BY LeftIs DEF Passed
<1>6. /\ IsFiniteSet(S) /\ IsFiniteSet(listed) /\ Cardinality(listed) \in Nat /\ Cardinality(S) \in Nat
      /\ CountOf(S, Near) \in Nat
  <2>1. IsFiniteSet(S) /\ IsFiniteSet(listed)
    BY DEF GridType, Passed, FillsRoom
  <2> HIDE DEF S
  <2> QED
    BY <2>1, FS_CardinalityType, ExpiringIsPart
<1>7. /\ IsFiniteSet(kept) /\ IsFiniteSet(lost) /\ Cardinality(kept) \in Nat /\ Cardinality(lost) \in Nat
      /\ Cardinality(kept) + Cardinality(lost) <= 1
  BY FS_CardinalityType DEF Passed
<1>8. \A s \in C : s \in SeriesRecord /\ s.expiry \in K
  BY <1>1, <1>4, CreatedOf DEF SeriesRecord
<1>9. /\ Expiring(L, Near) = Expiring(listed, Near) /\ Expiring(L, Far) = Expiring(listed, Far)
      /\ Expiring(listed, Near) \subseteq S /\ Expiring(listed, Far) \subseteq S
  BY <1>5 DEF Expiring
<1> HIDE DEF L, S
<1>10. /\ CountOf(listed, Near) <= CountOf(S, Near) /\ CountOf(listed, Near) \in Nat
       /\ BothSides(listed, {Far}) => BothSides(S, {Far})
  BY <1>6, <1>9, CarriedOver, ExpiringIsPart
<1>11. ~Rolled \/ (Unsettled /\ Tight)
  <2>1. ~Spread
    BY <1>3, <1>6, <1>10 DEF Spread
  <2> QED
    BY <2>1 DEF SpreadInv
<1>12. CASE Near \notin K
  <2>1. Near - hour <= GraceTime
    BY <1>1, <1>4, <1>12
  <2>2. hour - Opening > GraceTime
    BY <1>1, <2>1
  <2>3. ~Rolled
    BY <1>1, <1>11, <2>2 DEF Unsettled
  <2>4. Expiring(listed, Far) = {}
    BY <2>3 DEF GridType
  <2>5. L \subseteq Expiring(listed, Near) \cup kept
    BY <1>1, <1>5, <2>2, <2>4 DEF Expiring
  <2>6. Cardinality(L) <= CountOf(listed, Near) + Cardinality(kept)
    <3>1. IsFiniteSet(Expiring(listed, Near))
      BY <1>6, ExpiringIsPart
    <3>2. /\ IsFiniteSet(Expiring(listed, Near) \cup kept)
          /\ Cardinality(Expiring(listed, Near) \cup kept) \in Nat
          /\ Cardinality(Expiring(listed, Near) \cup kept) <= CountOf(listed, Near) + Cardinality(kept)
      BY <1>7, <3>1, TogetherAtMost DEF CountOf
    <3>3. Cardinality(L) <= Cardinality(Expiring(listed, Near) \cup kept)
      BY <2>5, <3>2, PartIsSmaller
    <3> QED
      BY <1>5, <1>7, <1>10, <3>2, <3>3
  <2>7. Cardinality(L) + 2 + Cardinality(lost) <= n
    BY <1>1, <1>3, <1>5, <1>6, <1>7, <1>10, <2>6
  <2>8. K = {Far}
    BY <1>4, <1>12
  <2>9. BothSides(S, K)
    <3>1. K # {} /\ Cardinality(lost) <= 1
      BY <1>7, <2>8
    <3> QED
      BY <1>1, <1>4, <1>5, <1>7, <2>7, <3>1, RoomForBoth DEF S
  <2> QED
    BY <1>3, <2>8, <2>9
<1>13. CASE Near \in K
  <2>1. K = {Near, Far}
    BY <1>4, <1>13
  <2>2. /\ Cardinality(S) = n
        /\ \A s \in C : s.expiry = Far =>
             /\ s = PlanAt[2] \/ s = PlanAt[3]
             /\ \E t \in Expiring(S, Near) : t.strike = s.strike
             /\ lost = {} => PlanAt[0] \in S /\ PlanAt[1] \in S
    <3>1. Cardinality(lost) <= 1
      BY <1>7
    <3> QED
      BY <1>1, <1>3, <1>4, <1>5, <1>7, <2>1, <3>1, SpreadFacts DEF S
  <2>3. /\ IsFiniteSet(Expiring(C, Far)) /\ CountOf(C, Far) \in Nat /\ CountOf(C, Far) <= 1
        /\ Expiring(S, Far) = Expiring(listed, Far) \cup Expiring(C, Far)
    <3>1. \A s \in C : s.expiry = Far => s = PlanAt[2] \/ s = PlanAt[3]
      BY <2>2
    <3>2. ~BothSides(L \cup C, {Far}) /\ IsFiniteSet(L \cup C)
      BY <1>3, <1>6 DEF S
    <3>3. /\ IsFiniteSet(Expiring(C, Far)) /\ CountOf(C, Far) \in Nat /\ CountOf(C, Far) <= 1
          /\ Expiring(L \cup C, Far) = Expiring(L, Far) \cup Expiring(C, Far)
      BY <1>1, <3>1, <3>2, OneFar
    <3> QED
      BY <1>9, <3>3 DEF S
  <2>4. CASE hour - Opening < GraceTime
    <3>1. CountOf(S, Far) + Cardinality(Older(S)) <= 2
      <4>1. Older(S) \subseteq kept /\ Cardinality(Older(S)) \in Nat
            /\ Cardinality(Older(S)) <= Cardinality(kept)
        <5>1. Older(S) \subseteq kept
          <6>1. \A s \in C : s.expiry \in {Near, Far}
            BY <1>4, <1>8
          <6>2. \A s \in C : ~(s.expiry < Opening)
            BY <1>1, <6>1
          <6>3. \A s \in L : s.expiry < Opening => s \in kept
            BY <1>5, <2>4
          <6> QED
            BY <6>2, <6>3 DEF Older, S
        <5> QED
          BY <1>7, <5>1, PartIsSmaller
      <4>2. CASE ~Rolled
        <5>1. Expiring(listed, Far) = {}
          BY <4>2 DEF GridType
        <5>2. CountOf(S, Far) = CountOf(C, Far)
          BY <2>3, <5>1 DEF CountOf
        <5> QED
          BY <1>7, <2>3, <4>1, <5>2
      <4>3. CASE Tight
        <5>1. /\ Cardinality(listed) >= n
              /\ CountOf(listed, Far) + Cardinality(Older(listed)) <= 2
          BY <4>3 DEF Tight
        <5>2. Rest(listed) \subseteq Rest(S)
          <6>1. \A s \in listed : s.expiry <= Opening - Gap \/ s.expiry \in {Opening, Near, Far}
            BY DEF GridType
          <6>2. \A s \in listed : s.expiry \in Nat
            BY DEF GridType, SeriesRecord
          <6>3. \A s \in Rest(listed) : s \in L
            BY <1>1, <1>5, <2>4, <6>1, <6>2 DEF Rest, Older, Expiring
          <6> QED
            BY <6>3 DEF Rest, Older, Expiring, S
        <5>3. /\ CountOf(S, Far) \in Nat /\ Cardinality(Older(S)) \in Nat
              /\ IsFiniteSet(Rest(S)) /\ Cardinality(Rest(S)) \in Nat
              /\ Cardinality(S) = CountOf(S, Far) + Cardinality(Older(S)) + Cardinality(Rest(S))
          BY <1>1, <1>6, ThreeParts
        <5>4. /\ CountOf(listed, Far) \in Nat /\ Cardinality(Older(listed)) \in Nat
              /\ Cardinality(Rest(listed)) \in Nat
              /\ Cardinality(listed)
                   = CountOf(listed, Far) + Cardinality(Older(listed)) + Cardinality(Rest(listed))
          BY <1>1, <1>6, ThreeParts
        <5>5. Cardinality(Rest(listed)) <= Cardinality(Rest(S))
          BY <5>2, <5>3, PartIsSmaller
        <5> QED
          BY <1>1, <2>2, <5>1, <5>3, <5>4, <5>5
      <4> QED
        BY <1>11, <4>2, <4>3
    <3>2. ASSUME NEW s \in Expiring(S, Far)
          PROVE  \E t \in Expiring(S, Near) : t.strike = s.strike
      <4>1. CASE s \in Expiring(C, Far)
        BY <2>2, <4>1 DEF Expiring
      <4>2. CASE s \in Expiring(listed, Far)
        <5>1. Tight
          BY <1>11, <4>2 DEF GridType
        <5>2. Expiring(listed, Near) \subseteq Expiring(S, Near)
          BY <1>9 DEF Expiring
        <5> QED
          BY <4>2, <5>1, <5>2 DEF Tight
      <4> QED
        BY <2>3, <4>1, <4>2
    <3> QED
      BY <1>1, <2>2, <2>4, <3>1, <3>2
  <2>5. CASE hour - Opening >= GraceTime
    <3> DEFINE N == Expiring(S, Near)
               F == Expiring(listed, Far)
               G == Expiring(C, Far)
    <3>1. /\ IsFiniteSet(N) /\ Cardinality(N) \in Nat /\ Cardinality(N) <= 2
          /\ IsFiniteSet(F) /\ Cardinality(F) \in Nat
          /\ IsFiniteSet(G) /\ Cardinality(G) \in Nat /\ Cardinality(G) <= 1
      BY <1>3, <1>6, <2>3, ExpiringIsPart DEF CountOf
    <3>2. S \subseteq ((N \cup F) \cup G) \cup kept
      BY <1>1, <1>4, <1>5, <1>8, <2>5 DEF S, Expiring
    <3> HIDE DEF N, F, G
    <3>3. IsFiniteSet(N \cup F) /\ Cardinality(N \cup F) \in Nat
          /\ Cardinality(N \cup F) <= Cardinality(N) + Cardinality(F)
      BY <3>1, TogetherAtMost
    <3>4. IsFiniteSet((N \cup F) \cup G) /\ Cardinality((N \cup F) \cup G) \in Nat
          /\ Cardinality((N \cup F) \cup G) <= Cardinality(N \cup F) + Cardinality(G)
      BY <3>1, <3>3, TogetherAtMost
    <3>5. IsFiniteSet(((N \cup F) \cup G) \cup kept) /\ Cardinality(((N \cup F) \cup G) \cup kept) \in Nat
          /\ Cardinality(((N \cup F) \cup G) \cup kept) <= Cardinality((N \cup F) \cup G) + Cardinality(kept)
      BY <1>7, <3>4, TogetherAtMost
    <3>6. Cardinality(S) <= Cardinality(N) + Cardinality(F) + Cardinality(G) + Cardinality(kept)
      <4>1. Cardinality(S) <= Cardinality(((N \cup F) \cup G) \cup kept)
        BY <3>2, <3>5, PartIsSmaller
      <4> QED
        BY <1>6, <1>7, <3>1, <3>3, <3>4, <3>5, <4>1
    <3>7. CASE ~Rolled
      <4>1. Cardinality(F) = 0
        BY <3>7, FS_EmptySet DEF GridType, F
      <4> QED
        BY <1>1, <1>6, <1>7, <2>2, <3>1, <3>6, <4>1
    <3>8. CASE Tight
      <4>1. Cardinality(F) <= 2
        <5>1. CountOf(listed, Far) \in Nat /\ Cardinality(Older(listed)) \in Nat
          BY <1>1, <1>6, ThreeParts
        <5>2. CountOf(listed, Far) + Cardinality(Older(listed)) <= 2
          BY <3>8 DEF Tight
        <5> QED
          BY <5>1, <5>2 DEF CountOf, F
      <4>2. /\ Cardinality(F) = 2 /\ Cardinality(G) = 1 /\ Cardinality(lost) = 0
        BY <1>1, <1>6, <1>7, <2>2, <3>1, <3>6, <4>1
      <4>3. PlanAt[0] \in N /\ PlanAt[1] \in N
        <5>1. lost = {} /\ G # {}
          BY <1>7, <3>1, <4>2, FS_EmptySet
        <5>2. PICK s \in C : s.expiry = Far
          BY <5>1 DEF G, Expiring
        <5>3. PlanAt[0] \in S /\ PlanAt[1] \in S
          BY <2>2, <5>1, <5>2
        <5> QED
          BY <1>1, <5>3, PlacesDiffer DEF N, Expiring
      <4>4. \A t \in N : t.strike = forward
        <5>1. PlanAt[0] # PlanAt[1] /\ PlanAt[0].strike = forward /\ PlanAt[1].strike = forward
          BY <1>1, PlacesDiffer
        <5>2. ASSUME NEW t \in N, t # PlanAt[0], t # PlanAt[1] PROVE FALSE
          <6>1. Cardinality(N) >= 3
            BY <3>1, <4>3, <5>1, <5>2, ThreeMembers
          <6> QED
            BY <3>1, <6>1
        <5> QED
          BY <5>1, <5>2
      <4>5. PICK x, y \in F : x # y
        BY <3>1, <4>2, TwoOf
      <4>6. \A s \in F : s \in SeriesRecord /\ s.expiry = Far /\ s \in S /\ s.strike = forward
        <5>1. \A s \in F : \E t \in Expiring(listed, Near) : t.strike = s.strike
          BY <3>8 DEF Tight, F
        <5>2. Expiring(listed, Near) \subseteq N
          BY <1>9 DEF N, Expiring
        <5>3. \A s \in F : s \in SeriesRecord /\ s.expiry = Far /\ s \in S
          BY <1>9 DEF F, Expiring, GridType
        <5> QED
          BY <4>4, <5>1, <5>2, <5>3
      <4>7. x.side # y.side
        BY <4>5, <4>6 DEF SeriesRecord
      <4>8. BothSides(S, {Far})
        <5>1. x.side \in {"call", "put"} /\ y.side \in {"call", "put"}
          BY <4>5, <4>6 DEF SeriesRecord
        <5>2. Sides[1] = "call" /\ Sides[2] = "put"
          BY DEF Sides
        <5>3. \A side \in {"call", "put"} : \E s \in S : s.side = side /\ s.expiry \in {Far}
          BY <4>5, <4>6, <4>7, <5>1
        <5> QED
          BY <5>2, <5>3 DEF BothSides
      <4> QED
        BY <1>3, <4>8
    <3> QED
      BY <1>11, <3>7, <3>8
  <2> QED
    BY <1>1, <2>4, <2>5
<1> QED
  BY <1>12, <1>13

\* A pass that finds room for both sides leaves both, of the expiries it creates for.
LEMMA PassGivesBoth ==
  ASSUME RoomyGrid, GridType, NEW K, NEW kept, NEW lost, NEW C, Passed(K, kept, lost, C),
         K # {}, NEW P, IsFiniteSet(P), Unclosed(kept) \subseteq P \cup kept,
         Cardinality(P) + 3 <= MaxLiveSeries
  PROVE  BothSides(Unclosed(kept) \cup C, {Near, Far})
<1> DEFINE L == Unclosed(kept)
<1>1. hour \in Nat /\ forward \in Nat \ {0} /\ MaxLiveSeries \in Nat
  BY GridConstants DEF GridType
<1>2. /\ IsFiniteSet(kept) /\ IsFiniteSet(lost) /\ Cardinality(kept) \in Nat /\ Cardinality(lost) \in Nat
      /\ Cardinality(kept) + Cardinality(lost) <= 1
  BY FS_CardinalityType DEF Passed
<1>3. K \in SUBSET {Near, Far} /\ FillsRoom(K, L, C, lost)
  BY DEF Passed
<1>4. IsFiniteSet(L) /\ Cardinality(L) \in Nat
  BY LeftIs DEF Passed
<1>5. /\ IsFiniteSet(P \cup kept) /\ Cardinality(P) \in Nat /\ Cardinality(P \cup kept) \in Nat
      /\ Cardinality(P \cup kept) <= Cardinality(P) + Cardinality(kept)
  BY <1>2, TogetherAtMost
<1>6. Cardinality(L) <= Cardinality(P \cup kept)
  BY <1>5, PartIsSmaller
<1> HIDE DEF L
<1>7. Cardinality(L) + 2 + Cardinality(lost) <= MaxLiveSeries /\ Cardinality(lost) <= 1
  BY <1>1, <1>2, <1>4, <1>5, <1>6
<1>8. BothSides(L \cup C, K)
  BY <1>1, <1>2, <1>3, <1>4, <1>7, RoomForBoth
<1> QED
  BY <1>3, <1>8 DEF BothSides, L

\* While the last expiry's series stay there is a call and a put beside them or room
\* for both, and both are there once they are closed.
LEMMA PassRoom ==
  ASSUME RoomyGrid, GridType, RoomInv, NEW K, NEW kept, NEW lost, NEW C,
         Passed(K, kept, lost, C)
  PROVE  RoomInv'
<1> DEFINE L == Unclosed(kept)
           S == L \cup C
           n == MaxLiveSeries
<1>1. /\ hour \in Nat /\ Opening \in Nat /\ Near \in Nat /\ Far \in Nat /\ Gap \in Nat
      /\ Opening <= hour /\ hour < Near /\ Near = Opening + Gap /\ Far = Near + Gap
      /\ GraceTime \in Nat /\ 2 * GraceTime < Gap /\ n \in Nat /\ n >= 6
      /\ forward \in Nat \ {0} /\ lastPass \in {hour - 1, hour}
  BY CalendarFacts, GridConstants DEF GridType, RoomyGrid
<1>2. Opening' = Opening /\ Near' = Near /\ Far' = Far /\ listed' = S /\ hour' = hour /\ lastPass' = hour
  BY SameClock DEF Passed
<1>3. SUFFICES
        /\ hour - Opening < GraceTime =>
             \/ CountOf(S, Opening) >= 3
             \/ BothSides(S, {Near, Far})
             \/ allowed' # {Near, Far} /\ Expiring(S, Near) = {} /\ Near \notin allowed'
        /\ hour - Opening = GraceTime =>
             \/ BothSides(S, {Near, Far})
             \/ allowed' # {Near, Far} /\ CountOf(S, Near) + 3 <= n
  <2> HIDE DEF S
  <2> QED
    BY <1>1, <1>2 DEF RoomInv, Rolled, Unsettled, CountOf, Expiring, BothSides
<1>4. \/ /\ allowed' = {Near, Far} /\ K # {}
      \/ /\ allowed' = allowed /\ ~Rolled /\ kept = {} /\ lost = {}
         /\ K = {} \/ (K = {Near} /\ Near \in allowed)
  BY DEF Passed
<1>5. /\ L \subseteq listed /\ IsFiniteSet(L) /\ Cardinality(L) \in Nat
      /\ \A s \in listed : s.expiry \in {Near, Far} => s \in L
      /\ hour - Opening < GraceTime =>
           /\ \A s \in listed : s.expiry = Opening => s \in L
           /\ \A s \in L : s.expiry < Opening => s \in kept
      /\ hour - Opening >= GraceTime => \A s \in L : s \in kept \/ s.expiry \in {Near, Far}
  BY LeftIs DEF Passed
<1>6. /\ IsFiniteSet(S) /\ IsFiniteSet(listed) /\ Cardinality(listed) \in Nat
      /\ Cardinality(listed) <= n
  BY FS_CardinalityType DEF GridType, Passed, FillsRoom
<1>7. K = {} => C = {}
  <2>1. FillsRoom(K, L, C, lost) /\ K \in SUBSET {Near, Far}
    BY DEF Passed
  <2>2. \A s \in C : s.expiry \in K
    BY <1>1, <2>1, CreatedOf
  <2> QED
    BY <2>2
<1>8. BothSides(listed, {Near, Far}) => BothSides(S, {Near, Far})
  BY <1>5 DEF BothSides
<1>9. ~Rolled => Expiring(listed, Far) = {}
  BY DEF GridType
<1>10. \A s \in listed : /\ s.expiry \in Nat
                         /\ s.expiry <= Opening - Gap \/ s.expiry \in {Opening, Near, Far}
  BY DEF GridType, SeriesRecord
<1>11. Expiring(listed, Near) \subseteq S /\ Expiring(L, Near) = Expiring(listed, Near)
  BY <1>5 DEF Expiring
<1> HIDE DEF L
<1>12. ASSUME hour - Opening < GraceTime
       PROVE  \/ CountOf(S, Opening) >= 3
              \/ BothSides(S, {Near, Far})
              \/ allowed' # {Near, Far} /\ Expiring(S, Near) = {} /\ Near \notin allowed'
  <2>1. CountOf(listed, Opening) <= CountOf(S, Opening)
        /\ CountOf(S, Opening) \in Nat /\ CountOf(listed, Opening) \in Nat
    <3>1. Expiring(listed, Opening) \subseteq S
      BY <1>5, <1>12 DEF Expiring
    <3> HIDE DEF S
    <3> QED
      BY <1>6, <3>1, CarriedOver, ExpiringIsPart
  <2>2. CASE CountOf(listed, Opening) >= 3
    <3> HIDE DEF S
    <3> QED
      BY <2>1, <2>2
  <2>3. CASE BothSides(listed, {Near, Far})
    BY <1>8, <2>3
  <2>4. CASE /\ ~(CountOf(listed, Opening) >= 3)
             /\ ~Rolled /\ Expiring(listed, Near) = {} /\ Near \notin allowed
    <3>1. L \subseteq Expiring(listed, Opening) \cup kept
      <4>1. \A s \in listed : s.expiry # Near /\ s.expiry # Far
        BY <1>9, <2>4 DEF Expiring
      <4>2. \A s \in listed : s.expiry < Opening \/ s.expiry = Opening
        BY <1>1, <1>10, <4>1
      <4> QED
        BY <1>5, <1>12, <4>2 DEF Expiring
    <3>2. CASE allowed' = {Near, Far} /\ K # {}
      <4>1. IsFiniteSet(Expiring(listed, Opening)) /\ Cardinality(Expiring(listed, Opening)) + 3 <= n
        BY <1>1, <1>6, <2>1, <2>4, ExpiringIsPart DEF CountOf
      <4>2. BothSides(S, {Near, Far})
        BY <3>1, <3>2, <4>1, PassGivesBoth DEF L
      <4> QED
        BY <4>2
    <3>3. CASE allowed' = allowed /\ K = {}
      BY <1>7, <1>11, <2>4, <3>3 DEF Rolled, Expiring
    <3> QED
      BY <1>4, <2>4, <3>2, <3>3
  <2>5. Unsettled
    BY <1>12 DEF Unsettled
  <2> QED
    BY <2>2, <2>3, <2>4, <2>5 DEF RoomInv
<1>13. ASSUME hour - Opening = GraceTime
       PROVE  \/ BothSides(S, {Near, Far})
              \/ allowed' # {Near, Far} /\ CountOf(S, Near) + 3 <= n
  <2> DEFINE N == Expiring(listed, Near)
             P == N \cup Expiring(listed, Far)
  <2>1. /\ IsFiniteSet(N) /\ Cardinality(N) \in Nat
        /\ IsFiniteSet(P) /\ Cardinality(P) \in Nat /\ Cardinality(N) <= Cardinality(P)
        /\ P \subseteq listed
    <3>1. P \subseteq listed /\ N \subseteq P
      BY DEF Expiring
    <3> HIDE DEF P, N
    <3>2. IsFiniteSet(P) /\ Cardinality(P) \in Nat
      BY <1>6, <3>1, PartIsSmaller
    <3> QED
      BY <3>1, <3>2, PartIsSmaller
  <2>2. CASE BothSides(listed, {Near, Far})
    BY <1>8, <2>2
  <2>3. CASE Cardinality(P) + 3 <= n
    <3>1. L \subseteq P \cup kept
      BY <1>1, <1>5, <1>13 DEF Expiring
    <3>2. CASE K # {}
      <4> HIDE DEF P
      <4> QED
        BY <2>1, <2>3, <3>1, <3>2, PassGivesBoth DEF L
    <3>3. CASE K = {}
      <4>1. Expiring(S, Near) = N
        BY <1>7, <1>11, <3>3 DEF Expiring
      <4>2. CountOf(S, Near) + 3 <= n
        <5>1. CountOf(S, Near) = Cardinality(N)
          BY <4>1 DEF CountOf
        <5> HIDE DEF N, P, S
        <5> QED
          BY <1>1, <2>1, <2>3, <5>1
      <4>3. allowed' # {Near, Far}
        BY <1>4, <3>3 DEF Rolled
      <4> QED
        BY <4>2, <4>3
    <3> QED
      BY <3>2, <3>3
  <2>4. CASE ~Rolled /\ CountOf(listed, Near) + 3 <= n
    <3>1. P = N
      BY <1>9, <2>4
    <3>2. Cardinality(P) + 3 <= n
      BY <2>4, <3>1 DEF CountOf
    <3> QED
      BY <2>3, <3>2
  <2>5. CASE CountOf(listed, Opening) >= 3
    <3> DEFINE O == Expiring(listed, Opening)
    <3>1. O \subseteq listed
      BY DEF Expiring
    <3>2. P \subseteq listed \ O
      BY <1>1 DEF Expiring
    <3>3. Cardinality(O) >= 3
      BY <2>5 DEF CountOf
    <3> HIDE DEF O, P
    <3>4. /\ IsFiniteSet(listed \ O) /\ Cardinality(O) \in Nat /\ Cardinality(listed \ O) \in Nat
          /\ Cardinality(listed) = Cardinality(O) + Cardinality(listed \ O)
      BY <1>6, <3>1, Parted
    <3>5. Cardinality(P) <= Cardinality(listed \ O)
      BY <3>2, <3>4, PartIsSmaller
    <3>6. Cardinality(P) + 3 <= n
      BY <1>1, <1>6, <2>1, <3>3, <3>4, <3>5
    <3> QED
      BY <2>3, <3>6 DEF P
  <2>6. CASE ~Rolled /\ Expiring(listed, Near) = {} /\ Near \notin allowed
    <3>1. P = {}
      BY <1>9, <2>6
    <3>2. Cardinality(P) + 3 <= n
      BY <1>1, <3>1, FS_EmptySet
    <3> QED
      BY <2>3, <3>2
  <2>7. Unsettled \/ (hour - Opening = GraceTime /\ lastPass = hour)
    BY <1>1, <1>13 DEF Unsettled
  <2> QED
    BY <2>2, <2>4, <2>5, <2>6, <2>7 DEF RoomInv
<1> QED
  BY <1>12, <1>13

\* A pass that loses nothing, after passes that lost nothing, leaves both sides of the
\* next two expiries, or both of the next beside the last expiry's four series.
LEMMA PassWhole ==
  ASSUME RoomyGrid, GridType, UnmissedInv, NEW K, NEW kept, NEW lost, NEW C,
         Passed(K, kept, lost, C)
  PROVE  UnmissedInv'
<1> DEFINE L == Unclosed(kept)
           S == L \cup C
           n == MaxLiveSeries
<1>1. /\ hour \in Nat /\ Opening \in Nat /\ Near \in Nat /\ Far \in Nat /\ Gap \in Nat
      /\ Opening <= hour /\ hour < Near /\ Near = Opening + Gap /\ Far = Near + Gap
      /\ GraceTime \in Nat /\ 2 * GraceTime < Gap /\ n \in Nat /\ n >= 6
      /\ forward \in Nat \ {0} /\ lastPass \in {hour - 1, hour}
  BY CalendarFacts, GridConstants DEF GridType, RoomyGrid
<1>2. Opening' = Opening /\ Near' = Near /\ Far' = Far /\ listed' = S /\ hour' = hour /\ lastPass' = hour
  BY SameClock DEF Passed
<1>3. SUFFICES ASSUME ~missed', ~missed, allowed' = {Near, Far}, kept = {}, lost = {}
               PROVE  \/ /\ BothSides(S, {Near}) /\ CountOf(S, Near) >= 4
                         /\ BothSides(S, {Far})
                      \/ /\ hour - Opening < GraceTime
                         /\ CountOf(S, Opening) >= 4 /\ BothSides(S, {Near})
  <2>1. lastPass' # -1
    BY <1>1, <1>2
  <2>2. ~missed' => ~missed /\ allowed' = {Near, Far} /\ kept = {} /\ lost = {}
    BY DEF Passed
  <2> HIDE DEF S
  <2> QED
    BY <1>2, <1>3, <2>1, <2>2 DEF UnmissedInv, Carried, Unsettled, Rolled, CountOf, Expiring, BothSides
<1>4. /\ FillsRoom(K, L, C, {}) /\ Far \in K /\ K \in SUBSET {Near, Far}
      /\ Near \in K <=> Near - hour > GraceTime
  BY <1>3 DEF Passed, Rolled
<1>5. /\ L \subseteq listed /\ IsFiniteSet(L) /\ Cardinality(L) \in Nat
      /\ \A s \in listed : s.expiry \in {Near, Far} => s \in L
      /\ hour - Opening < GraceTime => \A s \in listed : s.expiry = Opening => s \in L
      /\ hour - Opening >= GraceTime => \A s \in L : s \in kept \/ s.expiry \in {Near, Far}
  BY LeftIs DEF Passed
<1>6. /\ IsFiniteSet(S) /\ IsFiniteSet(listed) /\ Cardinality(listed) \in Nat
      /\ Cardinality(listed) <= n
  BY FS_CardinalityType DEF GridType, Passed, FillsRoom
<1>7. /\ Expiring(L, Near) = Expiring(listed, Near)
      /\ Expiring(listed, Near) \subseteq S /\ Expiring(listed, Far) \subseteq S
  BY <1>5 DEF Expiring
<1> HIDE DEF L
<1>8. /\ CountOf(listed, Near) <= CountOf(S, Near)
      /\ CountOf(listed, Near) \in Nat /\ CountOf(S, Near) \in Nat
      /\ BothSides(listed, {Near}) => BothSides(S, {Near})
      /\ BothSides(listed, {Far}) => BothSides(S, {Far})
  <2> HIDE DEF S
  <2> QED
    BY <1>6, <1>7, CarriedOver, ExpiringIsPart
<1>9. CASE Carried
  <2> HIDE DEF S
  <2> QED
    BY <1>8, <1>9 DEF Carried
<1>10. ASSUME Unsettled, Cardinality(L) + 4 <= n, Cardinality(L) + 6 <= n + CountOf(L, Near)
       PROVE  /\ BothSides(S, {Near}) /\ CountOf(S, Near) >= 4 /\ BothSides(S, {Far})
  <2>1. Near - hour > GraceTime
    BY <1>1, <1>10 DEF Unsettled
  <2>2. K = {Near, Far}
    BY <1>4, <2>1
  <2>3. FillsRoom({Near, Far}, L, C, {})
    BY <1>4, <2>2
  <2> QED
    BY <1>1, <1>5, <1>10, <2>3, FullFacts
<1>11. CASE Unsettled /\ lastPass = -1
  <2>1. L = {}
    BY <1>5, <1>11 DEF UnmissedInv
  <2>2. Cardinality(L) = 0 /\ CountOf(L, Near) \in Nat
    BY <1>5, <2>1, FS_EmptySet, ExpiringIsPart
  <2> HIDE DEF S
  <2> QED
    BY <1>1, <1>10, <1>11, <2>2
<1>12. CASE /\ Unsettled
            /\ CountOf(listed, Opening) >= 4 /\ BothSides(listed, {Near})
  <2>1. CASE hour - Opening < GraceTime
    <3>1. Expiring(listed, Opening) \subseteq S
      BY <1>5, <2>1 DEF Expiring
    <3> HIDE DEF S
    <3>2. CountOf(listed, Opening) <= CountOf(S, Opening)
          /\ CountOf(listed, Opening) \in Nat /\ CountOf(S, Opening) \in Nat
      BY <1>6, <3>1, CarriedOver, ExpiringIsPart
    <3> QED
      BY <1>8, <1>12, <2>1, <3>2
  <2>2. CASE hour - Opening = GraceTime
    <3> DEFINE O == Expiring(listed, Opening)
    <3>1. O \subseteq listed
      BY DEF Expiring
    <3>2. L \subseteq listed \ O
      BY <1>1, <1>3, <1>5, <2>2 DEF Expiring
    <3>3. Cardinality(O) >= 4
      BY <1>12 DEF CountOf
    <3> HIDE DEF O
    <3>4. /\ IsFiniteSet(listed \ O) /\ Cardinality(O) \in Nat /\ Cardinality(listed \ O) \in Nat
          /\ Cardinality(listed) = Cardinality(O) + Cardinality(listed \ O)
      BY <1>6, <3>1, Parted
    <3>5. Cardinality(L) <= Cardinality(listed \ O)
      BY <3>2, <3>4, PartIsSmaller
    <3>6. Cardinality(L) + 4 <= n
      BY <1>1, <1>5, <1>6, <3>3, <3>4, <3>5
    <3>7. CountOf(L, Near) \in Nat /\ CountOf(L, Near) >= 2
      <4>1. PICK x \in listed : x.side = Sides[1] /\ x.expiry \in {Near}
        BY <1>12 DEF BothSides
      <4>2. PICK y \in listed : y.side = Sides[2] /\ y.expiry \in {Near}
        BY <1>12 DEF BothSides
      <4>3. x # y
        BY <4>1, <4>2 DEF Sides
      <4> DEFINE N == Expiring(L, Near)
      <4>4. x \in N /\ y \in N
        BY <1>7, <4>1, <4>2 DEF Expiring
      <4>5. IsFiniteSet(N)
        BY <1>5, ExpiringIsPart
      <4> HIDE DEF N
      <4>6. Cardinality(N) \in Nat /\ Cardinality(N) >= 2
        BY <4>3, <4>4, <4>5, TwoMembers
      <4> QED
        BY <4>6 DEF N, CountOf
    <3> HIDE DEF S
    <3>8. Cardinality(L) + 6 <= n + CountOf(L, Near)
      BY <1>1, <1>5, <3>6, <3>7
    <3> QED
      BY <1>10, <1>12, <3>6, <3>8
  <2> QED
    BY <1>12, <2>1, <2>2 DEF Unsettled
<1> QED
  BY <1>3, <1>9, <1>11, <1>12 DEF UnmissedInv

-----------------------------------------------------------------------------
(* The clock and the forward.                                              *)

\* An hour that ends no expiry changes nothing the invariant speaks of.
LEMMA HourWithin ==
  ASSUME RoomyGrid, GridIInv, HourPasses, hour + 1 # Near
  PROVE  GridIInv'
<1>1. /\ hour \in Nat /\ Opening \in Nat /\ Near \in Nat /\ Far \in Nat /\ Gap \in Nat
      /\ Opening <= hour /\ hour < Near /\ Near = Opening + Gap /\ Far = Near + Gap
      /\ GraceTime \in Nat /\ lastPass = hour
  BY CalendarFacts, GridConstants DEF GridIInv, GridType, HourPasses
<1>2. /\ hour' = hour + 1 /\ allowed' = allowed /\ listed' = listed /\ forward' = forward
      /\ lastPass' = hour /\ missed' = missed
  BY <1>1 DEF HourPasses
<1>3. Opening' = Opening /\ Near' = Near /\ Far' = Far
  <2>1. Opening' = Opening
    BY <1>1, <1>2, CalendarTurns
  <2> QED
    BY <2>1 DEF Near, Far
<1>4. Unsettled' <=> Unsettled
  BY <1>1, <1>2, <1>3 DEF Unsettled
<1>5. Rolled' <=> Rolled
  BY <1>2, <1>3 DEF Rolled
<1>6. GridType'
  <2>1. GridType
    BY DEF GridIInv
  <2>2. hour' \in Nat /\ lastPass' \in {hour' - 1, hour'}
    BY <1>1, <1>2
  <2> QED
    BY <1>2, <1>3, <1>5, <2>1, <2>2 DEF GridType, Expiring
<1>7. SpreadInv'
  BY <1>2, <1>3, <1>4, <1>5 DEF GridIInv, SpreadInv, Spread, Tight, CountOf, Expiring, Older, BothSides
<1>8. RoomInv'
  <2>1. lastPass' # hour'
    BY <1>1, <1>2
  <2> QED
    BY <1>2, <1>3, <1>4, <1>5, <2>1 DEF GridIInv, RoomInv, CountOf, Expiring, BothSides
<1>9. UnmissedInv'
  <2>1. lastPass' # -1 /\ lastPass >= 0 /\ lastPass # -1 /\ lastPass' # hour'
    BY <1>1, <1>2
  <2> QED
    BY <1>2, <1>3, <1>4, <1>5, <2>1 DEF GridIInv, UnmissedInv, Carried, CountOf, Expiring, BothSides
<1> QED
  BY <1>6, <1>7, <1>8, <1>9 DEF GridIInv

\* When an expiry passes, the one after it is the next, with its series and no others.
LEMMA HourOfExpiry ==
  ASSUME RoomyGrid, GridIInv, HourPasses, hour + 1 = Near
  PROVE  GridIInv'
<1>1. /\ hour \in Nat /\ Opening \in Nat /\ Near \in Nat /\ Far \in Nat /\ Gap \in Nat /\ Gap > 0
      /\ Opening <= hour /\ hour < Near /\ Near = Opening + Gap /\ Far = Near + Gap
      /\ GraceTime \in Nat /\ 2 * GraceTime < Gap /\ lastPass = hour
  BY CalendarFacts, GridConstants DEF GridIInv, GridType, HourPasses, RoomyGrid
<1>2. /\ hour' = hour + 1 /\ allowed' = allowed /\ listed' = listed /\ forward' = forward
      /\ lastPass' = hour /\ missed' = missed
  BY <1>1 DEF HourPasses
<1>3. Opening' = Near /\ Near' = Far /\ Far' = Far + Gap
  <2>1. Opening' = Near
    BY <1>1, <1>2, CalendarTurns
  <2> QED
    BY <1>1, <2>1 DEF Near, Far
<1>4. ~Unsettled
  BY <1>1 DEF Unsettled
<1>5. /\ GridType /\ SpreadInv /\ RoomInv /\ UnmissedInv
  BY DEF GridIInv
<1>6. /\ \A e \in allowed : e <= Near \/ e = Far
      /\ ~Rolled => Far \notin allowed /\ Expiring(listed, Far) = {}
      /\ allowed \in SUBSET Int
  <2>1. allowed \in SUBSET Int
    BY <1>5 DEF GridType
  <2>2. CASE Rolled
    BY <1>1, <2>1, <2>2 DEF Rolled
  <2>3. CASE ~Rolled
    <3>1. \A e \in allowed : e <= Opening \/ e = Near
      BY <1>5, <2>3 DEF GridType
    <3>2. Expiring(listed, Far) = {}
      BY <1>5, <2>3 DEF GridType
    <3>3. \A e \in allowed : e <= Near
      BY <1>1, <2>1, <3>1
    <3>4. Far \notin allowed
      BY <1>1, <3>3
    <3> QED
      BY <2>1, <3>2, <3>3, <3>4
  <2> QED
    BY <2>2, <2>3
<1>7. ~Rolled'
  <2>1. Far + Gap \notin allowed
    BY <1>1, <1>6
  <2> QED
    BY <1>2, <1>3, <2>1 DEF Rolled
<1>8. /\ listed \in SUBSET SeriesRecord
      /\ \A s \in listed : s.expiry \in Nat /\ (s.expiry <= Opening - Gap \/ s.expiry \in {Opening, Near, Far})
  BY <1>5 DEF GridType, SeriesRecord
<1>9. GridType'
  <2>1. hour' \in Nat /\ lastPass' \in {hour' - 1, hour'}
    BY <1>1, <1>2
  <2>2. \A s \in listed : s.expiry <= Near - Gap \/ s.expiry \in {Near, Far, Far + Gap}
    BY <1>1, <1>8
  <2>3. Expiring(listed, Far + Gap) = {}
    BY <1>1, <1>8 DEF Expiring
  <2> QED
    BY <1>2, <1>3, <1>5, <1>6, <2>1, <2>2, <2>3 DEF GridType, Expiring
<1>10. SpreadInv'
  BY <1>7 DEF SpreadInv
<1>11. RoomInv'
  <2>1. lastPass' # hour'
    BY <1>1, <1>2
  <2>2. \/ CountOf(listed, Near) >= 3
        \/ BothSides(listed, {Far, Far + Gap})
        \/ Expiring(listed, Far) = {} /\ Far \notin allowed
    <3>1. CASE Rolled
      BY <1>4, <1>5, <3>1 DEF SpreadInv, Spread, BothSides
    <3>2. CASE ~Rolled
      BY <1>6, <3>2
    <3> QED
      BY <3>1, <3>2
  <2> QED
    BY <1>2, <1>3, <1>7, <2>1, <2>2 DEF RoomInv, CountOf, Expiring, BothSides
<1>12. UnmissedInv'
  <2>1. lastPass' # -1 /\ lastPass >= 0 /\ lastPass' # hour'
    BY <1>1, <1>2
  <2>2. SUFFICES ASSUME ~missed'
                 PROVE  /\ Far \in allowed /\ Unsettled'
                        /\ CountOf(listed, Near) >= 4 /\ BothSides(listed, {Far})
    BY <1>2, <1>3, <2>1 DEF UnmissedInv, CountOf, Expiring, BothSides
  <2>3. Rolled /\ Carried
    BY <1>1, <1>2, <1>4, <1>5, <2>1, <2>2 DEF UnmissedInv
  <2>4. Unsettled'
    BY <1>1, <1>2, <1>3 DEF Unsettled
  <2> QED
    BY <2>3, <2>4 DEF Rolled, Carried
<1> QED
  BY <1>9, <1>10, <1>11, <1>12 DEF GridIInv

\* The first state is as the invariant has it.
LEMMA GridStarts ==
  ASSUME RoomyGrid, GridInit
  PROVE  GridIInv
<1>1. /\ hour = 0 /\ allowed = {} /\ listed = {} /\ forward \in Nat \ {0} /\ lastPass = -1
      /\ missed = FALSE
  BY GridConstants DEF GridInit
<1>2. /\ Gap \in Nat /\ Gap > 0 /\ Opening \in Nat /\ Near = Opening + Gap /\ Opening <= hour
      /\ GraceTime \in Nat /\ MaxLiveSeries \in Nat
  BY <1>1, CalendarFacts, GridConstants
<1>3. Opening = 0
  BY <1>1, <1>2
<1>4. IsFiniteSet({}) /\ Cardinality({}) = 0
  BY FS_EmptySet
<1>5. /\ ~Rolled /\ Unsettled
  BY <1>1, <1>2, <1>3 DEF Rolled, Unsettled
<1>6. GridType
  <2>1. hour \in Nat /\ lastPass \in {hour - 1, hour} /\ forward \in Nat \ {0} /\ missed \in BOOLEAN
    <3>1. hour \in Nat /\ lastPass = hour - 1
      BY <1>1
    <3>2. forward \in Nat \ {0} /\ missed \in BOOLEAN
      BY <1>1, Zenon
    <3> QED
      BY <3>1, <3>2
  <2>2. /\ listed \in SUBSET SeriesRecord /\ IsFiniteSet(listed) /\ Cardinality(listed) <= MaxLiveSeries
        /\ \A s \in listed : s.expiry <= Opening - Gap \/ s.expiry \in {Opening, Near, Far}
        /\ Expiring(listed, Far) = {}
    BY <1>1, <1>2, <1>4 DEF Expiring
  <2>3. /\ allowed \in SUBSET Int /\ IsFiniteSet(allowed) /\ Cardinality(allowed) <= 2
        /\ \A e \in allowed : e <= Opening \/ e = Near
    BY <1>1, <1>4
  <2> QED
    BY <2>1, <2>2, <2>3 DEF GridType
<1>7. SpreadInv
  BY <1>5 DEF SpreadInv
<1>8. RoomInv
  BY <1>1, <1>5 DEF RoomInv, Expiring
<1>9. UnmissedInv
  BY <1>1, <1>5 DEF UnmissedInv
<1> QED
  BY <1>6, <1>7, <1>8, <1>9 DEF GridIInv

\* Every step keeps the invariant.
LEMMA GridSteps ==
  ASSUME RoomyGrid, GridIInv, [GridNext]_gridVars
  PROVE  GridIInv'
<1>1. CASE GridPass
  <2>1. GridType /\ SpreadInv /\ RoomInv /\ UnmissedInv
    BY DEF GridIInv
  <2>2. PICK K, kept, lost, C : Passed(K, kept, lost, C)
    BY <1>1, <2>1, PassIs
  <2>3. GridType'
    BY <2>1, <2>2, PassType
  <2>4. SpreadInv'
    BY <2>1, <2>2, PassSpread
  <2>5. RoomInv'
    BY <2>1, <2>2, PassRoom
  <2>6. UnmissedInv'
    BY <2>1, <2>2, PassWhole
  <2> QED
    BY <2>3, <2>4, <2>5, <2>6 DEF GridIInv
<1>2. CASE HourPasses
  BY <1>2, HourWithin, HourOfExpiry
<1>3. CASE ForwardMoves \/ UNCHANGED gridVars
  <2>1. /\ hour' = hour /\ allowed' = allowed /\ listed' = listed /\ lastPass' = lastPass
        /\ missed' = missed
    BY <1>3 DEF ForwardMoves, gridVars
  <2>2. forward' \in Nat \ {0}
    BY <1>3, GridConstants DEF ForwardMoves, gridVars, GridIInv, GridType
  <2>3. Opening' = Opening /\ Near' = Near /\ Far' = Far
    BY <2>1, SameClock
  <2>4. Rolled' = Rolled /\ Unsettled' = Unsettled
    BY <2>1, <2>3 DEF Rolled, Unsettled
  <2>5. GridType'
    BY <2>1, <2>2, <2>3, <2>4 DEF GridIInv, GridType, Expiring
  <2>6. SpreadInv'
    BY <2>1, <2>3, <2>4 DEF GridIInv, SpreadInv, Spread, Tight, CountOf, Expiring, Older, BothSides
  <2>7. RoomInv'
    BY <2>1, <2>3, <2>4 DEF GridIInv, RoomInv, CountOf, Expiring, BothSides
  <2>8. UnmissedInv'
    BY <2>1, <2>3, <2>4 DEF GridIInv, UnmissedInv, Carried, CountOf, Expiring, BothSides
  <2> QED
    BY <2>5, <2>6, <2>7, <2>8 DEF GridIInv
<1> QED
  BY <1>1, <1>2, <1>3 DEF GridNext

\* A book with both sides of expiries that are quoted is lit.
LEMMA BothAreLit ==
  ASSUME GridType, NEW E, BothSides(listed, E), E \subseteq allowed, E \subseteq {Near, Far}
  PROVE  Lit
<1>1. hour \in Nat /\ hour < Near /\ hour < Far /\ Near \in Nat /\ Far \in Nat
  BY CalendarFacts DEF GridType
<1>2. Quotable(allowed) = AheadOf(allowed)
  BY FewExpiries DEF GridType
<1>3. E \subseteq Quotable(allowed)
  BY <1>1, <1>2 DEF AheadOf
<1> QED
  BY <1>3 DEF Lit, BothSides

\* The invariant is what the grid is spread for.
LEMMA GridIsLit ==
  ASSUME RoomyGrid, GridIInv
  PROVE  GridStaysLit
<1>1. GridType /\ RoomInv /\ UnmissedInv
  BY DEF GridIInv
<1>2. hour \in Nat /\ hour % Gap = hour - Opening /\ Near \in Nat /\ Far \in Nat
  BY <1>1, CalendarFacts DEF GridType
<1>3. ASSUME lastPass >= 0, ~missed PROVE Lit
  <2>1. Near \in allowed /\ BothSides(listed, {Near})
    BY <1>1, <1>2, <1>3 DEF UnmissedInv, Carried, GridType
  <2> QED
    BY <1>1, <2>1, BothAreLit
<1>4. ASSUME lastPass = hour, hour % Gap = GraceTime, allowed = Calendar(hour) PROVE Lit
  <2>1. allowed = {Near, Far}
    BY <1>2, <1>4, CalendarIs
  <2>2. BothSides(listed, {Near, Far})
    BY <1>1, <1>2, <1>4, <2>1 DEF RoomInv, Rolled
  <2> QED
    BY <1>1, <2>1, <2>2, BothAreLit
<1> QED
  BY <1>3, <1>4 DEF GridStaysLit, NeverDarkAtExpiry, LitEveryCycle

\* An expiry never darkens a side of a grid with two expiries ahead and room for six
\* series, and a lost send darkens one for a cycle at most.
THEOREM GridNeverDark == ASSUME RoomyGrid PROVE GridSpec => []GridStaysLit
<1>1. GridInit => GridIInv
  BY GridStarts
<1>2. GridIInv /\ [GridNext]_gridVars => GridIInv'
  BY GridSteps
<1>3. GridIInv => GridStaysLit
  BY GridIsLit
<1> QED
  BY <1>1, <1>2, <1>3, PTL DEF GridSpec
=============================================================================
