------------------------------- MODULE Marks -------------------------------
(***************************************************************************)
(* What a market's asks are priced on: the price sources of the services'  *)
(* tick, the caches two of them keep, and the decision to quote.           *)
(*                                                                         *)
(* A price is abstracted to the moment it was true at its source.  Time is *)
(* counted in units of the caches' life, a minute; a tick is shorter.  The *)
(* operator's own reference price and the volatility's value are left out. *)
(***************************************************************************)
EXTENDS Integers, FiniteSetsExt

CONSTANTS
  MaxPriceAge,      (* QuoterConfig.maxPriceAgeSecs                         *)
  CacheLife,        (* how long a cached price is not asked for again       *)
  LastMinute        (* bound: the last minute                               *)

ASSUME MarksConstants == {MaxPriceAge, CacheLife, LastMinute} \subseteq Nat \ {0}

VARIABLES
  minute,           (* the wall clock, from 1                               *)
  asset,            (* cluster, wrapper and whether the market has a feed   *)
  issuerCache,      (* preipoCache: price and time of the last refresh      *)
  snapCache,        (* the Tokens API's                                     *)
  published,        (* the newest price the oracle has served               *)
  decided           (* what the last tick decided, and on which price       *)

marksVars == <<minute, asset, issuerCache, snapCache, published, decided>>

\* A price is the moment it was true; 0 is none.
Unpriced == [source |-> "none", taken |-> 0]

MarksInit ==
  /\ minute = 1
  /\ asset \in [testCluster : BOOLEAN, preIpo : BOOLEAN, hasFeed : BOOLEAN]
  /\ ~(asset.preIpo /\ asset.hasFeed)
  /\ issuerCache = [taken |-> 0, at |-> 0] /\ snapCache = [taken |-> 0, at |-> 0]
  /\ published = 0 /\ decided = [does |-> "nothing", on |-> Unpriced]

-----------------------------------------------------------------------------
\* An answer has the token's price, leaves it out, or is refused: what it leaves
\* out keeps its price, and a refusal keeps the time of the refresh too.
Answers == {"with", "without", "refused"}
Refreshed(cache, answer) ==
  [taken |-> IF answer = "with" THEN minute ELSE cache.taken,
   at |-> IF answer = "refused" THEN cache.at ELSE minute]

\* preipoTokens asks after CacheLife, refreshSnapshots from CacheLife on.
IssuerAfter(answer) ==
  IF asset.preIpo /\ minute - issuerCache.at > CacheLife
    THEN Refreshed(issuerCache, answer) ELSE issuerCache
SnapsAfter(answer) ==
  IF minute - snapCache.at >= CacheLife THEN Refreshed(snapCache, answer) ELSE snapCache

\* markFor: the first source that has a price, in this order.  The last two are
\* asked there and then.
MarkFor(issuer, snaps, routed, quoted) ==
  LET marks == <<[source |-> "prestocks", taken |-> IF asset.preIpo THEN issuer.taken ELSE 0],
                 [source |-> "tokens.xyz", taken |-> snaps.taken],
                 [source |-> "jupiter", taken |-> IF routed THEN minute ELSE 0],
                 [source |-> "xstocks", taken |-> IF quoted THEN minute ELSE 0]>>
      served == {i \in DOMAIN marks : marks[i].taken > 0}
  IN  IF served = {} THEN Unpriced ELSE marks[Min(served)]

\* Mainnet wants an oracle or the issuer of the token itself.
CanQuote(mark) ==
  mark.source \in {"hermes", "prestocks"} \/ (asset.testCluster /\ mark.source # "none")

\* Mutant of AgeSecs: every price counts as taken now.
AgeSecsNone(mark) == 0
\* Only the oracle's price has an age.
AgeSecs(mark) == IF mark.source = "hermes" THEN minute - mark.taken ELSE 0

\* A tick over the market: the snapshots first; then the oracle, and markFor when
\* there is no feed or the oracle serves nothing for it; then the quoter, unless
\* there is nothing to quote on, the volatility fell back to the floor, or the
\* price is too old.
Price(issuerAnswer, snapAnswer, sample, routed, quoted, volKnown) ==
  LET issuer == IF sample = 0 THEN IssuerAfter(issuerAnswer) ELSE issuerCache
      snaps == SnapsAfter(snapAnswer)
      mark == IF sample > 0 THEN [source |-> "hermes", taken |-> sample]
                            ELSE MarkFor(issuer, snaps, routed, quoted)
      quotes == /\ mark # Unpriced /\ CanQuote(mark) /\ (volKnown \/ asset.testCluster)
                /\ AgeSecs(mark) <= MaxPriceAge
  IN  /\ asset.hasFeed \/ sample = 0
      /\ issuerCache' = issuer /\ snapCache' = snaps
      /\ published' = IF sample > 0 THEN sample ELSE published
      /\ decided' = [does |-> IF quotes THEN "quote" ELSE "pull", on |-> mark]
      /\ UNCHANGED <<minute, asset>>

\* The oracle serves its newest price, which may be old, or none.
MarkTick ==
  \E issuerAnswer \in Answers, snapAnswer \in Answers,
     sample \in {0} \cup {t \in 1 .. minute : t >= published},
     routed \in BOOLEAN, quoted \in BOOLEAN, volKnown \in BOOLEAN :
       Price(issuerAnswer, snapAnswer, sample, routed, quoted, volKnown)

MinutePasses ==
  /\ minute < LastMinute /\ minute' = minute + 1
  /\ decided' = [does |-> "nothing", on |-> Unpriced]
  /\ UNCHANGED <<asset, issuerCache, snapCache, published>>

MarksNext == MarkTick \/ MinutePasses

MarksSpec == MarksInit /\ [][MarksNext]_marksVars

-----------------------------------------------------------------------------
(* Properties.                                                             *)

Quotes == decided.does = "quote"
Old == minute - decided.on.taken > MaxPriceAge

\* On a real cluster an ask is priced by the oracle or by the token's issuer, never
\* off a display mark; and an oracle that has stopped publishing, while it still
\* answers, takes the quotes with it.
OracleMarksAreFresh ==
  Quotes => /\ asset.testCluster \/ decided.on.source \in {"hermes", "prestocks"}
            /\ decided.on.source = "hermes" => ~Old

\* "a resident ask priced on a stale or missing input is the loss" (quoter.ts:77):
\* on a real cluster no ask is priced off a price older than the quoter's bound.
QuotedOnFresh == Quotes /\ ~asset.testCluster => ~Old
=============================================================================
