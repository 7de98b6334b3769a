------------------------------- MODULE Keeper -------------------------------
(***************************************************************************)
(* The keeper of packages/keeper driving one series: what one pass of      *)
(* Keeper.cycle and Keeper.vaultCycle sends, between the steps of everyone *)
(* else.                                                                   *)
(*                                                                         *)
(* A pass reads the clock and the mint once (services/src/main.ts tick),   *)
(* then the series, and works from those copies while the chain moves on.  *)
(* A send that is lost and one the program refuses look the same: the      *)
(* keeper logs "skip" and goes on.  Passes never overlap (main.ts).        *)
(***************************************************************************)
EXTENDS Series

VARIABLE keeper     (* where the pass is and the copies it works from       *)

kvars == <<vars, keeper>>

Phases == {"idle", "fetch", "observe", "settle", "close", "vault"}

KeeperInit ==
  /\ Init
  /\ keeper = [phase |-> "idle", paused |-> FALSE, halted |-> FALSE,
               expired |-> FALSE, graceOver |-> FALSE, todo |-> {}]

Goto(phase) == [keeper EXCEPT !.phase = phase]

\* The chain accepts this send, or it never takes effect.
Send(A) == A \/ UNCHANGED vars

-----------------------------------------------------------------------------
\* tick: read the clock and whether the issuer has the mint paused.
Wake ==
  /\ keeper.phase = "idle"
  /\ keeper' = [keeper EXCEPT !.phase = "fetch", !.paused = mintPaused,
                              !.expired = now >= Expiry,
                              !.graceOver = now >= Expiry + CloseGrace]
  /\ UNCHANGED vars

\* fetchSeriesForMarket.  A vault's slot is left to vaultCycle: the client
\* derives no token account for an owner off the curve.
Fetch ==
  /\ keeper.phase = "fetch"
  /\ keeper' =
       IF live
         THEN [keeper EXCEPT !.phase = "observe", !.halted = (halt.state = "halted"),
                             !.todo = {i \in SlotIds :
                                         /\ slots[i].writer \in Writers \ Vaults
                                         /\ ~slots[i].settled}]
         ELSE Goto("idle")
  /\ UNCHANGED vars

\* Record an issuer pause the series does not carry yet.
KeeperObserve ==
  /\ keeper.phase = "observe"
  /\ IF keeper.paused /\ ~keeper.halted THEN Send(ObserveHalt) ELSE UNCHANGED vars
  /\ keeper' = Goto(IF keeper.expired THEN "settle" ELSE "idle")

\* Settle one of the writers the copy lists; they fan out in any order.
KeeperSettle(i) ==
  /\ keeper.phase = "settle" /\ i \in keeper.todo
  /\ Send(Settle(i))
  /\ keeper' = [keeper EXCEPT !.todo = @ \ {i}]

AllSettled ==
  /\ keeper.phase = "settle" /\ keeper.todo = {}
  /\ keeper' = Goto(IF keeper.graceOver THEN "close" ELSE "vault")
  /\ UNCHANGED vars

\* Close on a fresh copy; the program checks the same condition again.
KeeperClose ==
  /\ keeper.phase = "close"
  /\ Send(CloseSeries)
  /\ keeper' = Goto("vault")

\* Mutant of KeeperVault: the vault's slot is left to others.
KeeperVaultIdle ==
  /\ keeper.phase = "vault"
  /\ keeper' = Goto("idle")
  /\ UNCHANGED vars

\* vaultCycle: settle the vault's slot, and the pass is over.
KeeperVault ==
  /\ keeper.phase = "vault"
  /\ \/ \E i \in SlotIds : slots[i].writer \in Vaults /\ Settle(i)
     \/ UNCHANGED vars
  /\ keeper' = Goto("idle")

KeeperStep ==
  \/ Wake
  \/ Fetch
  \/ KeeperObserve
  \/ \E i \in SlotIds : KeeperSettle(i)
  \/ AllSettled
  \/ KeeperClose
  \/ KeeperVault

\* The clock has no last value: at the bound the halt record grows older
\* instead.  Only now - at and now - resumed are ever compared then.
Age ==
  LET Older(t) == IF t > 1 THEN t - 1 ELSE t
  IN  /\ now = MaxTime
      /\ halt' = [halt EXCEPT !.at = Older(@), !.resumed = Older(@)]
      /\ halt' # halt
      /\ UNCHANGED <<pool, slots, asks, seq, totalSold, totalExercised, live, bal,
                     supply, exercises, world, keeper>>

KeeperNext ==
  \/ KeeperStep
  \/ Next /\ UNCHANGED keeper
  \/ Age

-----------------------------------------------------------------------------
(* Fairness.  The passes repeat for ever (setInterval), a crank retried in *)
(* every pass is not lost every time, the clock runs and the issuer does   *)
(* not pause for ever.  No holder, writer or stranger has to do anything.  *)

Fairness ==
  /\ WF_kvars(KeeperStep)
  /\ \A i \in SlotIds : SF_kvars(KeeperSettle(i) /\ Settle(i))
  /\ \A i \in SlotIds : SF_kvars(KeeperVault /\ Settle(i))
  /\ SF_kvars(KeeperClose /\ CloseSeries)
  /\ WF_kvars(Tick /\ UNCHANGED keeper)
  /\ WF_kvars(Age)
  /\ WF_kvars(IssuerResumes /\ UNCHANGED keeper)

KeeperSpec == KeeperInit /\ [][KeeperNext]_kvars /\ Fairness

\* Somebody else records what the mint looks like whenever that changes the
\* record: what the keeper needs and does not do itself.
Watched == WF_kvars(ObserveHalt /\ halt' # halt /\ UNCHANGED keeper)

-----------------------------------------------------------------------------
(* Properties.                                                             *)

\* "settles every writer after expiry, closes series after grace" (keeper.ts
\* header): whatever sends are lost, whoever races the keeper and whenever
\* the issuer pauses, the series is closed in the end.
EventuallyClosed == <>~live

\* The same when somebody records the mint's changes: all that the keeper
\* lacks is the observation it does not send.
ClosedIfWatched == Watched => EventuallyClosed

Done(s) == IsEmpty(s) \/ s.settled \/ NothingOwed(s)

\* The keeper alone closes every series except one it has to leave halted: no
\* resume was recorded, or nothing is left whose settlement would lift the halt.
ClosedUnlessHalted ==
  \/ EventuallyClosed
  \/ <>[](halt.state = "halted" /\ (halt.resumed = 0 \/ \A i \in SlotIds : Done(slots[i])))
=============================================================================
