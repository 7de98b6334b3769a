----------------------------- MODULE Governance -----------------------------
(***************************************************************************)
(* Who may change what in programs/roster_finance: the protocol account    *)
(* and its offices, a market, its terms, a vault's limits and the fees.    *)
(*                                                                         *)
(* The offices are the authority (a multisig), the pause authority (a hot  *)
(* key), the series creator and a vault's manager.  Any office may change  *)
(* hands, and any key may hold several or none, at any time.               *)
(***************************************************************************)
EXTENDS Integers, FiniteSets, Instructions

CONSTANTS
  Keys,            (* pubkeys that can sign                                 *)
  NoKey,           (* Pubkey::default(): the office is empty                *)
  MaxFeeBps,       (* 1_000: a tenth                                        *)
  HasHook,         (* the mint has a live transfer hook                     *)
  Terms,           (* side, strike and expiry: the seeds of a series        *)
  Fees,            (* bound: fees an update may ask for                     *)
  Caps,            (* bound: max_live_series an update may ask for          *)
  Grids,           (* bound: allowed_expiries an update may ask for         *)
  Treasuries,      (* bound: treasuries an update may ask for               *)
  MaxFees          (* bound: what the fee vault ever takes in               *)

ASSUME GovernanceConstants ==
  /\ NoKey \notin Keys
  /\ MaxFeeBps \in Nat /\ Fees \cup Caps \subseteq Nat /\ MaxFees \in Nat
  /\ Grids \subseteq SUBSET Terms /\ Treasuries \subseteq Keys
  /\ HasHook \in BOOLEAN
  /\ IsFiniteSet(Terms)

\* The instructions that may write the configuration accounts are the ones
\* modelled here; no other instruction of the program could change them.
WritersOf(account) == {ix \in DOMAIN AccountsOf : account \in Writes(ix)}
ASSUME ConfigurationWriters ==
  /\ WritersOf("protocol") = {"initProtocol", "updateProtocol"}
  /\ WritersOf("market") = {"createMarket", "updateMarket", "createSeries", "closeSeries"}
  /\ {ix \in DOMAIN AccountsOf : Signers(ix) = {}} = {"observeHalt"}

VARIABLES
  prot,            (* the protocol account; authority NoKey until it exists *)
  market,          (* the market account                                    *)
  terms,           (* term -> where its series account is in its life       *)
  haltedTerms,     (* series left in SERIES_HALTED                          *)
  past,            (* terms whose expiry has gone by                        *)
  desk,            (* the vault account's manager, cap and halt             *)
  feeVault         (* fees not withdrawn yet                                *)

govVars == <<prot, market, terms, haltedTerms, past, desk, feeVault>>

-----------------------------------------------------------------------------
(* The accounts.                                                           *)

ProtocolOf(auth, pause, treasury, fee) ==
  [authority |-> auth, pauseAuthority |-> pause, treasury |-> treasury,
   seriesCreator |-> NoKey, feeBps |-> fee, pausedAll |-> FALSE]

\* The values each field may be given; a partial update is a function on some.
ProtocolFields ==
  [authority |-> Keys, pauseAuthority |-> Keys, treasury |-> Treasuries,
   seriesCreator |-> Keys \cup {NoKey}, feeBps |-> Fees, pausedAll |-> BOOLEAN]
MarketFields ==
  [listed |-> BOOLEAN, paused |-> BOOLEAN, tier |-> {2, 3}, maxLive |-> Caps,
   expiries |-> Grids]

\* An account after Some(v) fields are assigned and None fields left alone.
Updated(account, change) ==
  [f \in DOMAIN account |-> IF f \in DOMAIN change THEN change[f] ELSE account[f]]

Live == {t \in Terms : terms[t] \in {"live", "settled"}}

GovernInit ==
  /\ prot = ProtocolOf(NoKey, NoKey, NoKey, 0)
  /\ market = [exists |-> FALSE, listed |-> FALSE, paused |-> FALSE, tier |-> 2,
               maxLive |-> 0, expiries |-> {}, live |-> 0]
  /\ terms = [t \in Terms |-> "none"]
  /\ haltedTerms = {} /\ past = {}
  /\ desk = [exists |-> FALSE, manager |-> NoKey, halted |-> FALSE, cap |-> 0]
  /\ feeVault = 0

-----------------------------------------------------------------------------
(* Protocol and market.                                                    *)

Exists == prot.authority # NoKey

InitProtocol(k, pause, treasury, fee) ==
  /\ ~Exists
  /\ fee <= MaxFeeBps
  /\ prot' = ProtocolOf(k, pause, treasury, fee)
  /\ UNCHANGED <<market, terms, haltedTerms, past, desk, feeVault>>

\* Mutant of OnlyPauses: the rest of the update is not looked at.
OnlyPausesUnchecked(change, flag) == flag \in DOMAIN change /\ change[flag]
\* All the pause key may ask for.
OnlyPauses(change, flag) == DOMAIN change = {flag} /\ change[flag]

UpdateProtocol(k, change) ==
  /\ Exists
  /\ k = prot.authority \/ (k = prot.pauseAuthority /\ OnlyPauses(change, "pausedAll"))
  /\ "feeBps" \in DOMAIN change => change.feeBps <= MaxFeeBps
  /\ prot' = Updated(prot, change)
  /\ UNCHANGED <<market, terms, haltedTerms, past, desk, feeVault>>

\* A mint with a live hook starts out delisted.
CreateMarket(k, tier, cap, expiries) ==
  /\ k = prot.authority /\ ~market.exists
  /\ market' = [exists |-> TRUE, listed |-> ~HasHook, paused |-> FALSE, tier |-> tier,
                maxLive |-> cap, expiries |-> expiries, live |-> 0]
  /\ UNCHANGED <<prot, terms, haltedTerms, past, desk, feeVault>>

UpdateMarket(k, change) ==
  /\ market.exists
  /\ k = prot.authority \/ (k = prot.pauseAuthority /\ OnlyPauses(change, "paused"))
  /\ market' = Updated(market, change)
  /\ UNCHANGED <<prot, terms, haltedTerms, past, desk, feeVault>>

-----------------------------------------------------------------------------
(* Terms.                                                                  *)

Trading == market.listed /\ ~market.paused /\ ~prot.pausedAll

\* Tier 3 is open to anyone.
MayCreateSeries(k) ==
  \/ market.tier >= 3
  \/ k = prot.authority
  \/ prot.seriesCreator # NoKey /\ k = prot.seriesCreator

CreateSeries(k, t) ==
  /\ market.exists /\ Trading
  /\ t \in market.expiries \ past
  /\ market.live < market.maxLive
  /\ MayCreateSeries(k)
  /\ terms[t] = "none"
  /\ terms' = [terms EXCEPT ![t] = "live"]
  /\ market' = [market EXCEPT !.live = @ + 1]
  /\ UNCHANGED <<prot, haltedTerms, past, desk, feeVault>>

\* Mutant of SettleSeries: the crank waits for trading to be allowed.
SettleWhileTrading(k, t) ==
  /\ Trading
  /\ terms[t] = "live" /\ t \in past \ haltedTerms
  /\ terms' = [terms EXCEPT ![t] = "settled"]
  /\ UNCHANGED <<prot, market, haltedTerms, past, desk, feeVault>>
\* settle_writer for its last writer.  No pause and no office is asked about.
SettleSeries(k, t) ==
  /\ terms[t] = "live" /\ t \in past \ haltedTerms
  /\ terms' = [terms EXCEPT ![t] = "settled"]
  /\ UNCHANGED <<prot, market, haltedTerms, past, desk, feeVault>>

\* Mutant of AfterClose: the place is not given back.
AfterCloseKeepsPlace == market
\* live_series is lowered by a saturating subtraction.
AfterClose == [market EXCEPT !.live = IF @ > 0 THEN @ - 1 ELSE 0]

CloseSeries(k, t) ==
  /\ terms[t] = "settled" /\ t \notin haltedTerms
  /\ terms' = [terms EXCEPT ![t] = "closed"]
  /\ market' = AfterClose
  /\ UNCHANGED <<prot, haltedTerms, past, desk, feeVault>>

\* observe_halt, which nobody signs: the issuer pauses, or its pause is over.
ObserveHalt(t) ==
  /\ t \in Live
  /\ haltedTerms' = IF t \in haltedTerms THEN haltedTerms \ {t} ELSE haltedTerms \cup {t}
  /\ UNCHANGED <<prot, market, terms, past, desk, feeVault>>

\* The clock reaches a term's expiry.
Expire(t) ==
  /\ t \notin past
  /\ past' = past \cup {t}
  /\ UNCHANGED <<prot, market, terms, haltedTerms, desk, feeVault>>

-----------------------------------------------------------------------------
(* The vault's parameters, and the fees.                                   *)

InitVault(k, manager, cap) ==
  /\ k = prot.authority /\ market.exists /\ ~desk.exists
  /\ desk' = [exists |-> TRUE, manager |-> manager, halted |-> FALSE, cap |-> cap]
  /\ UNCHANGED <<prot, market, terms, haltedTerms, past, feeVault>>

SetVaultParams(k, change) ==
  /\ desk.exists
  /\ k \in {prot.authority, desk.manager}
  /\ "manager" \in DOMAIN change => k = prot.authority
  /\ desk' = Updated(desk, change)
  /\ UNCHANGED <<prot, market, terms, haltedTerms, past, feeVault>>

MayHalt == {desk.manager, prot.pauseAuthority, prot.authority}
MayLift == {prot.authority, desk.manager}

VaultSetHalt(k, halted) ==
  /\ desk.exists
  /\ k \in (IF halted THEN MayHalt ELSE MayLift)
  /\ desk' = [desk EXCEPT !.halted = halted]
  /\ UNCHANGED <<prot, market, terms, haltedTerms, past, feeVault>>

\* buy takes the fee the protocol account asks for.
Buy(k) ==
  /\ Trading /\ prot.feeBps > 0 /\ Live \ past # {}
  /\ feeVault < MaxFees
  /\ feeVault' = feeVault + 1
  /\ UNCHANGED <<prot, market, terms, haltedTerms, past, desk>>

WithdrawFees(k) ==
  /\ k = prot.authority /\ feeVault > 0
  /\ feeVault' = 0
  /\ UNCHANGED <<prot, market, terms, haltedTerms, past, desk>>

-----------------------------------------------------------------------------

\* Updates of one field, and of a field together with a pause.
ChangesTo(fields, flag) ==
  (UNION {[{f} -> fields[f]] : f \in DOMAIN fields})
    \cup (UNION {{[g \in {f, flag} |-> IF g = flag THEN TRUE ELSE v] : v \in fields[f]} :
                  f \in DOMAIN fields})
ProtocolChanges == ChangesTo(ProtocolFields, "pausedAll")
MarketChanges == ChangesTo(MarketFields, "paused")
DeskChanges == [{"manager"} -> Keys] \cup [{"cap"} -> Caps]

SetUp(k) ==
  \/ \E pause \in Keys, treasury \in Treasuries, fee \in Fees : InitProtocol(k, pause, treasury, fee)
  \/ \E tier \in {2, 3}, cap \in Caps, es \in Grids : CreateMarket(k, tier, cap, es)
  \/ \E manager \in Keys, cap \in Caps : InitVault(k, manager, cap)

Govern(k) ==
  \/ \E change \in ProtocolChanges : UpdateProtocol(k, change)
  \/ \E change \in MarketChanges : UpdateMarket(k, change)
  \/ \E change \in DeskChanges : SetVaultParams(k, change)
  \/ \E halted \in BOOLEAN : VaultSetHalt(k, halted)
  \/ WithdrawFees(k)

Use(k) ==
  \/ \E t \in Terms : CreateSeries(k, t)
  \/ \E t \in Terms : SettleSeries(k, t)
  \/ \E t \in Terms : CloseSeries(k, t)
  \/ Buy(k)

GovernNext ==
  \/ \E k \in Keys : SetUp(k) \/ Govern(k) \/ Use(k)
  \/ \E t \in Terms : ObserveHalt(t) \/ Expire(t)

GovernSpec == GovernInit /\ [][GovernNext]_govVars

\* Time passes, and somebody runs the two permissionless cranks.
GovernFairness ==
  \A t \in Terms :
    /\ WF_govVars(Expire(t))
    /\ WF_govVars(\E k \in Keys : SettleSeries(k, t))
    /\ WF_govVars(\E k \in Keys : CloseSeries(k, t))
FairGovernSpec == GovernSpec /\ GovernFairness

-----------------------------------------------------------------------------
(* Properties.                                                             *)

GovernTypeOK ==
  /\ prot \in [authority : Keys \cup {NoKey}, pauseAuthority : Keys \cup {NoKey},
               treasury : Keys \cup {NoKey}, seriesCreator : Keys \cup {NoKey},
               feeBps : Nat, pausedAll : BOOLEAN]
  /\ market \in [exists : BOOLEAN, listed : BOOLEAN, paused : BOOLEAN, tier : {2, 3},
                 maxLive : Nat, expiries : SUBSET Terms, live : Nat]
  /\ terms \in [Terms -> {"none", "live", "settled", "closed"}]
  /\ haltedTerms \subseteq Terms /\ past \subseteq Terms
  /\ desk \in [exists : BOOLEAN, manager : Keys \cup {NoKey}, halted : BOOLEAN, cap : Nat]
  /\ feeVault \in Nat

\* No sequence of updates takes the taker fee past a tenth of the premium.
FeeBounded == prot.feeBps <= MaxFeeBps

\* live_series is exactly how many series of the market are not closed yet,
\* whatever was created, halted, settled, closed or reconfigured: the cap of
\* create_series counts what is there (create_series.rs, settle.rs).
LiveCounted == market.live = Cardinality(Live)

\* "The pause key can pause and nothing else" (docs/01-architecture.md): no step
\* of a key that is neither the authority nor a manager changes a parameter or
\* an office, or lifts a pause or a halt, whatever offices it has held before.
PauseKeyOnlyPauses ==
  [][ \/ /\ prot' \in {prot, [prot EXCEPT !.pausedAll = TRUE]}
         /\ [market' EXCEPT !.live = 0]
              \in {[market EXCEPT !.live = 0], [market EXCEPT !.live = 0, !.paused = TRUE]}
         /\ desk' \in {desk, [desk EXCEPT !.halted = TRUE]}
      \/ ~Exists
      \/ \A k \in Keys \ {prot.authority, desk.manager} :
           ~(SetUp(k) \/ Govern(k) \/ Use(k)) ]_govVars

\* The place a term takes under the cap comes back whatever is paused, delisted
\* or rotated meanwhile, unless the series is left halted.
PlacesComeBack ==
  \A t \in Terms :
    terms[t] = "live" ~> terms[t] = "closed" \/ t \in haltedTerms
=============================================================================
