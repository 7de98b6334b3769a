--------------------------- MODULE ProtocolProofs ---------------------------
(***************************************************************************)
(* The markets, the protocol and the opt-ins of the program, for any keys, *)
(* terms, fees, series and prices.                                         *)
(***************************************************************************)
EXTENDS Governance, AutoExercise, FiniteSetTheorems, TLAPS

-----------------------------------------------------------------------------
(* The cap counts the series there are, and the pause key only pauses:     *)
(* LiveCounted and PauseKeyOnlyPauses of Governance.                       *)

\* Nothing lives before there is a market, and the count is of what lives.
CountInv ==
  /\ {"live", "exists"} \subseteq DOMAIN market /\ DOMAIN terms = Terms
  /\ ~market.exists => Live = {}
  /\ LiveCounted

\* The accounts are records of the fields the updates name.
Accounts ==
  /\ prot = [f \in DOMAIN prot |-> prot[f]] /\ "pausedAll" \in DOMAIN prot
  /\ market = [f \in DOMAIN market |-> market[f]] /\ {"live", "paused"} \subseteq DOMAIN market

\* Terms are finitely many, so what lives can be counted.
LEMMA LiveIsFinite == IsFiniteSet(Live) /\ Cardinality(Live) \in Nat
<1>1. IsFiniteSet(Terms) /\ Live \subseteq Terms
  BY GovernanceConstants DEF Live
<1>2. QED
  BY <1>1, FS_Subset, FS_CardinalityType

\* An update names one field, or one and the flag.
LEMMA ChangesName ==
  ASSUME NEW fields, NEW flag, NEW change \in ChangesTo(fields, flag)
  PROVE  \E f \in DOMAIN fields : DOMAIN change = {f} \/ DOMAIN change = {f, flag}
<1> DEFINE With(f) == {[g \in {f, flag} |-> IF g = flag THEN TRUE ELSE v] : v \in fields[f]}
<1>1. PICK f \in DOMAIN fields : change \in [{f} -> fields[f]] \/ change \in With(f)
  BY DEF ChangesTo
<1>2. QED
  BY <1>1

\* No update of a market names its count or its existence.
LEMMA UpdateLeavesCount ==
  ASSUME NEW change \in MarketChanges
  PROVE  "live" \notin DOMAIN change /\ "exists" \notin DOMAIN change
<1>1. DOMAIN MarketFields = {"listed", "paused", "tier", "maxLive", "expiries"}
  BY DEF MarketFields
<1>2. \E f \in DOMAIN MarketFields : DOMAIN change = {f} \/ DOMAIN change = {f, "paused"}
  BY ChangesName DEF MarketChanges
<1>3. QED
  BY <1>1, <1>2

\* Nothing lives at first.
LEMMA InitCounts == GovernInit => CountInv
<1> SUFFICES ASSUME GovernInit PROVE CountInv
  OBVIOUS
<1>1. Live = {}
  BY DEF GovernInit, Live
<1>2. QED
  BY <1>1, FS_EmptySet DEF GovernInit, CountInv, LiveCounted

\* A step that leaves every term where it was, and the count, keeps it.
LEMMA SameTerms ==
  ASSUME CountInv, UNCHANGED <<market, terms>> PROVE CountInv'
<1>1. Live' = Live
  BY DEF Live
<1>2. QED
  BY <1>1 DEF CountInv, LiveCounted

\* Creating and closing move the count with the set; an update leaves both.
LEMMA CountKept == CountInv /\ [GovernNext]_govVars => CountInv'
<1> SUFFICES ASSUME CountInv, [GovernNext]_govVars PROVE CountInv'
  OBVIOUS
<1>1. ASSUME NEW k \in Keys, SetUp(k) PROVE CountInv'
  <2>1. ASSUME NEW tier \in {2, 3}, NEW cap \in Caps, NEW es \in Grids, CreateMarket(k, tier, cap, es)
        PROVE CountInv'
    <3>1. Live' = {}
      BY <2>1 DEF CreateMarket, CountInv, Live
    <3>2. QED
      BY <2>1, <3>1, FS_EmptySet DEF CreateMarket, CountInv, LiveCounted
  <2>2. QED
    BY <1>1, <2>1, SameTerms DEF SetUp, InitProtocol, InitVault
<1>2. ASSUME NEW k \in Keys, Govern(k) PROVE CountInv'
  <2>1. ASSUME NEW change \in MarketChanges, UpdateMarket(k, change) PROVE CountInv'
    <3>1. Live' = Live /\ UNCHANGED terms
      BY <2>1 DEF UpdateMarket, Live
    <3>2. market' = [f \in DOMAIN market |-> IF f \in DOMAIN change THEN change[f] ELSE market[f]]
      BY <2>1 DEF UpdateMarket, Updated
    <3>3. market'.live = market.live /\ market'.exists = market.exists /\ DOMAIN market' = DOMAIN market
      BY <3>2, UpdateLeavesCount DEF CountInv
    <3>4. QED
      BY <3>1, <3>3 DEF CountInv, LiveCounted
  <2>2. QED
    BY <1>2, <2>1, SameTerms DEF Govern, UpdateProtocol, SetVaultParams, VaultSetHalt, WithdrawFees
<1>3. ASSUME NEW k \in Keys, Use(k) PROVE CountInv'
  <2>1. ASSUME NEW t \in Terms, CreateSeries(k, t) PROVE CountInv'
    <3>1. Live' = Live \cup {t} /\ t \notin Live
      BY <2>1 DEF CreateSeries, CountInv, Live
    <3>2. Cardinality(Live') = Cardinality(Live) + 1
      BY <3>1, LiveIsFinite, FS_AddElement
    <3>3. market'.live = market.live + 1 /\ market'.exists /\ DOMAIN market' = DOMAIN market
          /\ DOMAIN terms' = Terms
      BY <2>1 DEF CreateSeries, CountInv
    <3>4. QED
      BY <3>2, <3>3 DEF CountInv, LiveCounted
  <2>2. ASSUME NEW t \in Terms, SettleSeries(k, t) PROVE CountInv'
    <3>1. Live' = Live /\ UNCHANGED market /\ DOMAIN terms' = Terms
      BY <2>2 DEF SettleSeries, CountInv, Live
    <3>2. QED
      BY <3>1 DEF CountInv, LiveCounted
  <2>3. ASSUME NEW t \in Terms, CloseSeries(k, t) PROVE CountInv'
    <3>1. Live' = Live \ {t} /\ t \in Live
      BY <2>3 DEF CloseSeries, CountInv, Live
    <3>2. Cardinality(Live') = Cardinality(Live) - 1 /\ Cardinality(Live) \in Nat \ {0}
      BY <3>1, LiveIsFinite, FS_RemoveElement, FS_EmptySet
    <3>3. market'.live = market.live - 1 /\ market'.exists = market.exists
          /\ DOMAIN market' = DOMAIN market /\ DOMAIN terms' = Terms
      BY <2>3, <3>2 DEF CloseSeries, AfterClose, CountInv, LiveCounted
    <3>4. ~market.exists => Live' = {}
      BY <3>1 DEF CountInv
    <3>5. QED
      BY <3>2, <3>3, <3>4 DEF CountInv, LiveCounted
  <2>4. QED
    BY <1>3, <2>1, <2>2, <2>3, SameTerms DEF Use, Buy
<1>4. ASSUME NEW t \in Terms, ObserveHalt(t) \/ Expire(t) PROVE CountInv'
  BY <1>4, SameTerms DEF ObserveHalt, Expire
<1>5. CASE UNCHANGED govVars
  BY <1>5, SameTerms DEF govVars
<1>6. QED
  BY <1>1, <1>2, <1>3, <1>4, <1>5 DEF GovernNext

\* For any terms, caps and reconfigurations: the count create_series compares
\* with the cap is the number of series that are not closed.
THEOREM CapCountsWhatLives == GovernSpec => []LiveCounted
<1>1. CountInv => LiveCounted
  BY DEF CountInv
<1>2. QED
  BY InitCounts, CountKept, <1>1, PTL DEF GovernSpec

\* The accounts start as records.
LEMMA InitAccounts == GovernInit => Accounts
  BY DEF GovernInit, Accounts, ProtocolOf

\* An update of an account gives the account its fields back.
LEMMA UpdatedFields ==
  ASSUME NEW account, NEW change
  PROVE  /\ DOMAIN Updated(account, change) = DOMAIN account
         /\ Updated(account, change) = [f \in DOMAIN Updated(account, change) |-> Updated(account, change)[f]]
  BY DEF Updated

\* And every instruction leaves them records.
LEMMA AccountsKept == Accounts /\ [GovernNext]_govVars => Accounts'
<1> SUFFICES ASSUME Accounts, [GovernNext]_govVars PROVE Accounts'
  OBVIOUS
<1>1. ASSUME NEW k \in Keys, SetUp(k) PROVE Accounts'
  BY <1>1 DEF SetUp, InitProtocol, CreateMarket, InitVault, ProtocolOf, Accounts
<1>2. ASSUME NEW k \in Keys, Govern(k) PROVE Accounts'
  BY <1>2, UpdatedFields DEF Govern, UpdateProtocol, UpdateMarket, SetVaultParams, VaultSetHalt, WithdrawFees, Accounts
<1>3. ASSUME NEW k \in Keys, Use(k) PROVE Accounts'
  BY <1>3 DEF Use, CreateSeries, SettleSeries, CloseSeries, AfterClose, Buy, Accounts
<1>4. ASSUME NEW t \in Terms, ObserveHalt(t) \/ Expire(t) PROVE Accounts'
  BY <1>4 DEF ObserveHalt, Expire, Accounts
<1>5. CASE UNCHANGED govVars
  BY <1>5 DEF govVars, Accounts
<1>6. QED
  BY <1>1, <1>2, <1>3, <1>4, <1>5 DEF GovernNext

\* What a step of anybody may leave of the three accounts.
OnlyPaused ==
  /\ prot' \in {prot, [prot EXCEPT !.pausedAll = TRUE]}
  /\ [market' EXCEPT !.live = 0]
       \in {[market EXCEPT !.live = 0], [market EXCEPT !.live = 0, !.paused = TRUE]}
  /\ desk' \in {desk, [desk EXCEPT !.halted = TRUE]}

\* A key without the authority's or the manager's office only ever pauses.
LEMMA OthersOnlyPause ==
  ASSUME Accounts, Exists, NEW k \in Keys \ {prot.authority, desk.manager},
         SetUp(k) \/ Govern(k) \/ Use(k)
  PROVE  OnlyPaused
<1>1. ~SetUp(k)
  BY DEF SetUp, InitProtocol, CreateMarket, InitVault
<1>2. CASE Govern(k)
  <2>1. ASSUME NEW change \in ProtocolChanges, UpdateProtocol(k, change) PROVE OnlyPaused
    <3>1. DOMAIN change = {"pausedAll"} /\ change["pausedAll"] = TRUE /\ UNCHANGED <<market, desk>>
      BY <2>1 DEF UpdateProtocol, OnlyPauses
    <3>2. prot' = [f \in DOMAIN prot |-> IF f \in {"pausedAll"} THEN change[f] ELSE prot[f]]
      BY <2>1, <3>1 DEF UpdateProtocol, Updated
    <3>3. prot' = [prot EXCEPT !.pausedAll = TRUE]
      BY <3>1, <3>2 DEF Accounts
    <3>4. QED
      BY <3>1, <3>3 DEF OnlyPaused
  <2>2. ASSUME NEW change \in MarketChanges, UpdateMarket(k, change) PROVE OnlyPaused
    <3>1. DOMAIN change = {"paused"} /\ change["paused"] = TRUE /\ UNCHANGED <<prot, desk>>
      BY <2>2 DEF UpdateMarket, OnlyPauses
    <3>2. market' = [f \in DOMAIN market |-> IF f \in {"paused"} THEN change[f] ELSE market[f]]
      BY <2>2, <3>1 DEF UpdateMarket, Updated
    <3>3. market' = [market EXCEPT !.paused = TRUE]
      BY <3>1, <3>2 DEF Accounts
    <3>4. [market' EXCEPT !.live = 0] = [market EXCEPT !.live = 0, !.paused = TRUE]
      BY <3>3 DEF Accounts
    <3>5. QED
      BY <3>1, <3>4 DEF OnlyPaused
  <2>3. ASSUME NEW halted \in BOOLEAN, VaultSetHalt(k, halted) PROVE OnlyPaused
    <3>1. halted = TRUE
      BY <2>3 DEF VaultSetHalt, MayLift
    <3>2. QED
      BY <2>3, <3>1 DEF VaultSetHalt, OnlyPaused
  <2>4. QED
    BY <1>2, <2>1, <2>2, <2>3 DEF Govern, SetVaultParams, WithdrawFees
<1>3. CASE Use(k)
  <2>1. UNCHANGED <<prot, desk>> /\ (market' = market \/ \E n : market' = [market EXCEPT !.live = n])
    BY <1>3 DEF Use, CreateSeries, SettleSeries, CloseSeries, AfterClose, Buy, Accounts
  <2>2. [market' EXCEPT !.live = 0] = [market EXCEPT !.live = 0]
    BY <2>1 DEF Accounts
  <2>3. QED
    BY <2>1, <2>2 DEF OnlyPaused
<1>4. QED
  BY <1>1, <1>2, <1>3

\* For any keys in any offices and any update they may ask for: a key that is
\* neither the authority nor the manager can pause and halt, and nothing else.
THEOREM PauseKeyCannotElse == GovernSpec => PauseKeyOnlyPauses
<1>1. Accounts /\ [GovernNext]_govVars
        => [ \/ /\ prot' \in {prot, [prot EXCEPT !.pausedAll = TRUE]}
                /\ [market' EXCEPT !.live = 0]
                     \in {[market EXCEPT !.live = 0], [market EXCEPT !.live = 0, !.paused = TRUE]}
                /\ desk' \in {desk, [desk EXCEPT !.halted = TRUE]}
             \/ ~Exists
             \/ \A k \in Keys \ {prot.authority, desk.manager} :
                  ~(SetUp(k) \/ Govern(k) \/ Use(k)) ]_govVars
  BY OthersOnlyPause DEF OnlyPaused
<1>2. QED
  BY InitAccounts, AccountsKept, <1>1, PTL DEF GovernSpec, PauseKeyOnlyPauses

-----------------------------------------------------------------------------
(* One opt-in is good for the whole position: OnlyOptInCovered of          *)
(* AutoExercise.                                                           *)

\* What is enabled or untouched was opted in to, and the amounts are numbers.
OptInv ==
  /\ position \in [Positions -> Nat] /\ burnAllowance \in [Positions -> Nat] /\ payAllowance \in Nat
  /\ DOMAIN enabled = Positions
  /\ opted \subseteq Positions /\ untouched \subseteq opted
  /\ \A s \in Positions : enabled[s] => s \in opted

OptedInv == OptInv /\ OnlyOptInCovered

\* The strike of any number of lots is a number.
LEMMA OwedIsNumber ==
  ASSUME NEW s \in Positions, NEW lots \in Nat PROVE Owed(s, lots) \in Nat
<1>1. StrikeAt[s] \in Nat
  BY AutoExerciseConstants
<1>2. QED
  BY <1>1 DEF Owed

\* A holder who opted in to one series only has that one and no other.
LEMMA OneSeries ==
  ASSUME NEW S \in SUBSET Positions, Cardinality(S) <= 1, NEW s \in S PROVE S = {s}
<1>1. IsFiniteSet(S)
  BY AutoExerciseConstants, FS_Subset
<1>2. Cardinality(S) \in Nat /\ Cardinality(S) # 0
  BY <1>1, FS_CardinalityType, FS_EmptySet
<1>3. PICK x : S = {x}
  BY <1>1, <1>2, FS_Singleton
<1>4. QED
  BY <1>3

\* Nothing is opted in to at first.
LEMMA InitOpted == ExerciseInit => OptedInv
  BY AutoExerciseConstants DEF ExerciseInit, OptedInv, OptInv, OnlyOptInCovered, EveryOptInCovered

\* The holder's steps: opting in approves what the position is at that moment.
LEMMA HolderKeeps ==
  ASSUME OptedInv, NEW s \in Positions,
         \/ EnableAutoExercise(s) \/ DisableAutoExercise(s) \/ RevokePay
         \/ \E have, open \in 0 .. MaxPosition : PositionMoves(s, have, open)
  PROVE  OptedInv'
<1>1. CASE EnableAutoExercise(s)
  <2>1. Owed(s, position[s]) \in Nat /\ position[s] \in Nat
    BY OwedIsNumber DEF OptedInv, OptInv
  <2>2. /\ position' = position /\ burnAllowance' = [burnAllowance EXCEPT ![s] = position[s]]
        /\ payAllowance' = Owed(s, position[s]) /\ enabled' = [enabled EXCEPT ![s] = TRUE]
        /\ opted' = opted \cup {s} /\ untouched' = untouched \cup {s}
    BY <1>1 DEF EnableAutoExercise, ApprovedPay, holding
  <2>3. OptInv'
    BY <2>1, <2>2 DEF OptedInv, OptInv
  <2>4. ASSUME Cardinality(opted') <= 1 PROVE untouched' \subseteq {s}
    BY <2>2, <2>3, <2>4, OneSeries DEF OptInv
  <2>5. CoveredBy(s)'
    BY <2>1, <2>2 DEF OptedInv, OptInv, CoveredBy, Owed
  <2>6. QED
    BY <2>3, <2>4, <2>5 DEF OptedInv, OnlyOptInCovered, EveryOptInCovered
<1>2. CASE DisableAutoExercise(s)
  <2>1. /\ position' = position /\ burnAllowance' = [burnAllowance EXCEPT ![s] = 0]
        /\ payAllowance' = 0 /\ enabled' = [enabled EXCEPT ![s] = FALSE]
        /\ opted' = opted \cup {s} /\ untouched' = untouched \ {s}
    BY <1>2 DEF DisableAutoExercise, LeftAfterDisable, holding
  <2>2. OptInv'
    BY <2>1 DEF OptedInv, OptInv
  <2>3. ASSUME Cardinality(opted') <= 1 PROVE untouched' = {}
    BY <2>1, <2>2, <2>3, OneSeries DEF OptInv
  <2>4. QED
    BY <2>2, <2>3 DEF OptedInv, OnlyOptInCovered, EveryOptInCovered
<1>3. CASE RevokePay
  BY <1>3 DEF RevokePay, holding, OptedInv, OptInv, OnlyOptInCovered, EveryOptInCovered
<1>4. ASSUME NEW have \in 0 .. MaxPosition, NEW open \in 0 .. MaxPosition, PositionMoves(s, have, open)
      PROVE  OptedInv'
  <2>1. /\ position' = [position EXCEPT ![s] = have] /\ have \in Nat
        /\ UNCHANGED <<enabled, burnAllowance, payAllowance, opted>>
        /\ untouched' = IF have = position[s] THEN untouched ELSE untouched \ {s}
    BY <1>4, AutoExerciseConstants DEF PositionMoves, approvals
  <2>2. OptInv'
    BY <2>1 DEF OptedInv, OptInv
  <2>3. ASSUME NEW x \in untouched', CoveredBy(x) PROVE x \in untouched /\ CoveredBy(x)'
    BY <2>1, <2>3 DEF OptedInv, OptInv, CoveredBy, Owed
  <2>4. QED
    BY <2>1, <2>2, <2>3 DEF OptedInv, OnlyOptInCovered, EveryOptInCovered
<1>5. QED
  BY <1>1, <1>2, <1>3, <1>4

\* A crank draws on the pay account: of the one series opted in to, no other.
LEMMA CrankKeeps ==
  ASSUME OptedInv, NEW s \in Positions, NEW lots \in 1 .. MaxPosition, NEW worth \in FeedValues,
         NEW registered \in BOOLEAN, Crank(s, lots, worth, registered)
  PROVE  OptedInv'
<1>1. lots \in Nat /\ lots <= position[s] /\ lots <= burnAllowance[s] /\ Owed(s, lots) \in Nat
      /\ Owed(s, lots) <= payAllowance
  <2>1. lots \in Nat /\ lots <= burnAllowance[s] /\ Owed(s, lots) <= payAllowance
        /\ lots \in WholePosition(s) /\ lots <= unassigned[s]
    BY AutoExerciseConstants DEF Crank
  <2>2. lots <= position[s]
    BY <2>1 DEF WholePosition, OptedInv, OptInv
  <2>3. QED
    BY <2>1, <2>2, OwedIsNumber
<1>2. /\ enabled[s] /\ position' = [position EXCEPT ![s] = @ - lots]
      /\ burnAllowance' = [burnAllowance EXCEPT ![s] = @ - lots]
      /\ payAllowance' = payAllowance - Owed(s, lots) /\ untouched' = untouched \ {s}
      /\ UNCHANGED <<enabled, opted>>
  BY DEF Crank
<1>3. OptInv'
  BY <1>1, <1>2 DEF OptedInv, OptInv
<1>4. ASSUME Cardinality(opted') <= 1 PROVE untouched' = {}
  BY <1>2, <1>3, <1>4, OneSeries DEF OptedInv, OptInv
<1>5. QED
  BY <1>3, <1>4 DEF OptedInv, OnlyOptInCovered, EveryOptInCovered

\* For any series, strikes and prices: a holder who only ever opts in to one
\* series has, until the holder moves or revokes, all of it covered.
THEOREM OneOptInIsCovered == ExerciseSpec => []OnlyOptInCovered
<1>1. OptedInv /\ [ExerciseNext]_exerciseVars => OptedInv'
  <2> SUFFICES ASSUME OptedInv, [ExerciseNext]_exerciseVars PROVE OptedInv'
    OBVIOUS
  <2>1. CASE RevokePay
    BY <2>1 DEF RevokePay, holding, OptedInv, OptInv, OnlyOptInCovered, EveryOptInCovered
  <2>2. CASE Suspend \/ TimePasses
    BY <2>2 DEF Suspend, TimePasses, holding, approvals, OptedInv, OptInv, OnlyOptInCovered,
         EveryOptInCovered, CoveredBy, Owed
  <2>3. CASE UNCHANGED exerciseVars
    BY <2>3 DEF exerciseVars, holding, approvals, OptedInv, OptInv, OnlyOptInCovered,
         EveryOptInCovered, CoveredBy, Owed
  <2>4. QED
    BY <2>1, <2>2, <2>3, HolderKeeps, CrankKeeps DEF ExerciseNext
<1>2. OptedInv => OnlyOptInCovered
  BY DEF OptedInv
<1>3. QED
  BY InitOpted, <1>1, <1>2, PTL DEF ExerciseSpec
=============================================================================
