------------------------------ MODULE Screens ------------------------------
(***************************************************************************)
(* What a page of the app shows: the two hooks that read the app's own    *)
(* routes from the browser, of a market (apps/web/src/lib/use-roster.ts)   *)
(* and of the connected wallet (use-positions.ts).  Reads overlap, and are *)
(* answered in any order.                                                  *)
(***************************************************************************)
EXTENDS Integers

CONSTANTS
  Subjects,         (* what a page can be of: markets, or wallets          *)
  Nothing           (* a page that shows nothing                           *)

ASSUME ScreenConstants == Nothing \notin Subjects

Hooks == {"roster", "positions"}

VARIABLE shown      (* hook -> what it shows, and what it reads            *)

Blank == [of |-> Nothing, shows |-> Nothing, good |-> FALSE, reads |-> {}, retry |-> FALSE]
ScreenInit == shown = [h \in Hooks |-> Blank]

-----------------------------------------------------------------------------
\* Another market, or another wallet: the effect runs again.  Positions start
\* from nothing; what the roster shows stays until an answer replaces it.
Switch(h, x) ==
  /\ x \in Subjects \ {shown[h].of}
  /\ shown' = [shown EXCEPT ![h].of = x, ![h].good = FALSE, ![h].retry = FALSE,
                              ![h].reads = @ \cup {x},
                              ![h].shows = IF h = "positions" THEN Nothing ELSE @]

\* The background refresh, a return to the tab, a reload after a transaction.
Reload(h) ==
  /\ shown[h].of # Nothing
  /\ shown' = [shown EXCEPT ![h].reads = @ \cup {shown[h].of}]

\* A read (fetchJson with all its attempts) is answered.  Reads of one subject are
\* told apart by nothing, so another of the same may be under way still.
Arrives(h, x) ==
  /\ x \in shown[h].reads
  /\ \E rest \in {shown[h].reads, shown[h].reads \ {x}} :
       shown' = [shown EXCEPT ![h].reads = rest, ![h].shows = x, ![h].good = TRUE]

\* Mutant of RetryAfter: the failed reads of positions are left to the refresh.
NoRetry(h, reconnecting) == h = "roster"
RetryAfter(h, reconnecting) == h = "positions" \/ reconnecting \/ ~shown[h].good

\* A read fails after its last attempt, or for the roster is answered that the
\* services are out of reach: shown only where nothing good is on the page.
Disappoints(h, x, reconnecting) ==
  /\ x \in shown[h].reads /\ (reconnecting => h = "roster")
  /\ \E rest \in {shown[h].reads, shown[h].reads \ {x}} :
       shown' = [shown EXCEPT ![h].reads = rest,
                    ![h].retry = @ \/ RetryAfter(h, reconnecting),
                    ![h].shows = IF reconnecting /\ ~shown[h].good THEN Nothing ELSE @]

\* The retry's timer.
Retry(h) ==
  /\ shown[h].retry
  /\ shown' = [shown EXCEPT ![h].retry = FALSE, ![h].reads = @ \cup {shown[h].of}]

ReadEnds(h, x) == Arrives(h, x) \/ \E b \in BOOLEAN : Disappoints(h, x, b)

ScreenNext ==
  \E h \in Hooks :
    \/ Reload(h) \/ Retry(h)
    \/ \E x \in Subjects : Switch(h, x) \/ ReadEnds(h, x)

ScreenSpec == ScreenInit /\ [][ScreenNext]_shown

\* Every read ends and every timer fires; reads do not fail for ever.
ScreenFairness ==
  \A h \in Hooks :
    /\ WF_shown(Retry(h))
    /\ \A x \in Subjects : WF_shown(ReadEnds(h, x)) /\ SF_shown(Arrives(h, x))
FairScreenSpec == ScreenSpec /\ ScreenFairness

-----------------------------------------------------------------------------
(* Properties.                                                             *)

ScreenTypeOK ==
  \A h \in Hooks : /\ {shown[h].of, shown[h].shows} \subseteq Subjects \cup {Nothing}
                    /\ shown[h].reads \subseteq Subjects

\* A failed read "retries on its own" (use-positions.ts): the positions of a wallet
\* that stays connected come to the page without the background refresh.  Of the
\* roster that is not so: a late answer for the market before ends its retries.
PositionsArrive ==
  \A x \in Subjects : <>[](shown.positions.of = x) => <>(shown.positions.shows = x)

\* "A different wallet starts from nothing rather than showing the previous
\* wallet's positions" (use-positions.ts:46).
ShownIsOurs == shown.positions.shows \in {Nothing, shown.positions.of}
=============================================================================
