------------------------------- MODULE TxFlow -------------------------------
(***************************************************************************)
(* One screen's transactions, from the button to the receipt: the server   *)
(* builds (apps/web/src/lib/tx-server.ts), the wallet signs, the server    *)
(* relays and polls (packages/sdk/src/client.ts), the hook reports         *)
(* (apps/web/src/lib/tx.ts).  Every call may be slow, lost or refused, the *)
(* server may restart, and the chain takes a transaction at any time while *)
(* its blockhash is valid, or never.                                       *)
(***************************************************************************)
EXTENDS Integers, FiniteSets

CONSTANTS
  BlockhashLife,    (* 150 blocks                                           *)
  HeightSlack,      (* 300: how far from now a height bound may be          *)
  MaxRuns,          (* bound: presses of the button                         *)
  MaxHeight         (* bound: blocks                                        *)

ASSUME TxFlowConstants ==
  /\ {BlockhashLife, HeightSlack} \subseteq Nat
  /\ {MaxRuns, MaxHeight} \subseteq Nat \ {0}

Runs == 1 .. MaxRuns

VARIABLES
  screen,           (* the hook's state: status, code of a failure, and run *)
  retried,          (* build() is on its second attempt                     *)
  bound,            (* run -> lastValidBlockHeight of what was built        *)
  issued,           (* the messages this server process remembers building  *)
  relay,            (* the send request the server is working on            *)
  landing,          (* run -> what became of its transaction on chain       *)
  height            (* the chain's block height                             *)

txVars == <<screen, retried, bound, issued, relay, landing, height>>

Screen(status, code, run) == [status |-> status, code |-> code, run |-> run]
Busy == screen.status \in {"building", "signing", "sending"}
Fail(code) == Screen("failed", code, screen.run)

\* What classify makes of the errors a step may end in.  A check of the program
\* is named in the message of a failed simulation, not of a failed landing.
ProgramCodes == {"quote_moved", "insufficient", "paused", "size"}
Codes == ProgramCodes \cup {"rpc", "other"}

TxInit ==
  /\ screen = Screen("idle", "none", 0) /\ retried = FALSE
  /\ bound = [r \in Runs |-> 0] /\ issued = {}
  /\ relay = [r \in Runs |-> "none"]
  /\ landing = [r \in Runs |-> "unsent"] /\ height = 0

-----------------------------------------------------------------------------
(* The hook: run(req), and reset().                                        *)

Press ==
  /\ ~Busy /\ screen.run < MaxRuns
  /\ screen' = Screen("building", "none", screen.run + 1) /\ retried' = FALSE
  /\ UNCHANGED <<bound, issued, relay, landing, height>>

Reset ==
  /\ screen.status \in {"done", "failed"}
  /\ screen' = Screen("idle", "none", screen.run)
  /\ UNCHANGED <<retried, bound, issued, relay, landing, height>>

\* /api/tx/build: reads, a blockhash, and the message is remembered.
Built ==
  /\ screen.status = "building"
  /\ screen' = [screen EXCEPT !.status = "signing"]
  /\ bound' = [bound EXCEPT ![screen.run] = height + BlockhashLife]
  /\ issued' = issued \cup {screen.run}
  /\ UNCHANGED <<retried, relay, landing, height>>

\* A refused request, a read that fails, a deadline, a Protected Buy no route
\* of which survives simulation: only a busy network is tried again, once.
BuildFails(code) ==
  /\ screen.status = "building"
  /\ IF code = "rpc" /\ ~retried
       THEN retried' = TRUE /\ UNCHANGED screen
       ELSE screen' = Fail(code) /\ UNCHANGED retried
  /\ UNCHANGED <<bound, issued, relay, landing, height>>

\* The wallet takes its time, and signs or declines.
Sign ==
  /\ screen.status = "signing"
  /\ screen' = [screen EXCEPT !.status = "sending"]
  /\ relay' = [relay EXCEPT ![screen.run] = "received"]
  /\ UNCHANGED <<retried, bound, issued, landing, height>>
Decline ==
  /\ screen.status = "signing"
  /\ screen' = Fail("rejected")
  /\ UNCHANGED <<retried, bound, issued, relay, landing, height>>

\* Mutant of GivesUp: the send is not bounded.
NeverGivesUp == FALSE
\* post() aborts after 110 s; the server goes on with what it was given.
GivesUp == screen.status = "sending"

SendTimesOut ==
  /\ GivesUp
  /\ screen' = Fail("rpc")
  /\ UNCHANGED <<retried, bound, issued, relay, landing, height>>

-----------------------------------------------------------------------------
(* /api/tx/send: sendSigned and sendRawAndConfirm, for each run on its own. *)

\* An answer reaches the screen only while it still waits for this run.
Answer(run, verdict) ==
  /\ screen' = IF screen.status = "sending" /\ screen.run = run THEN verdict ELSE screen
  /\ relay' = [relay EXCEPT ![run] = "none"]

\* The height bound comes back from the browser and must be near the chain's.
Accepted(run) ==
  /\ run \in issued
  /\ bound[run] >= height - HeightSlack /\ bound[run] <= height + HeightSlack

Refuse(run) ==
  /\ relay[run] = "received" /\ ~Accepted(run)
  /\ Answer(run, Fail("other"))
  /\ UNCHANGED <<retried, bound, issued, landing, height>>

\* sendRawTransaction: the preflight passes and the node forwards it.
Submit(run) ==
  /\ relay[run] = "received" /\ Accepted(run) /\ height <= bound[run]
  /\ landing' = [landing EXCEPT ![run] = "pending"]
  /\ relay' = [relay EXCEPT ![run] = "polling"]
  /\ UNCHANGED <<screen, retried, bound, issued, height>>

\* The preflight fails, or the node knows no such blockhash any more.
PreflightFails(run, code) ==
  /\ relay[run] = "received" /\ Accepted(run)
  /\ code = "rpc" \/ height <= bound[run]
  /\ Answer(run, Fail(code))
  /\ UNCHANGED <<retried, bound, issued, landing, height>>

\* The node forwarded it, and its answer was lost.
SubmitUnanswered(run) ==
  /\ relay[run] = "received" /\ Accepted(run) /\ height <= bound[run]
  /\ landing' = [landing EXCEPT ![run] = "pending"]
  /\ Answer(run, Fail("rpc"))
  /\ UNCHANGED <<retried, bound, issued, height>>

\* getSignatureStatuses finds it: confirmed, or failed on chain.
PollSeen(run) ==
  /\ relay[run] = "polling" /\ landing[run] \in {"landed", "reverted"}
  /\ Answer(run, IF landing[run] = "landed" THEN Screen("done", "none", run) ELSE Fail("other"))
  /\ UNCHANGED <<retried, bound, issued, landing, height>>

\* It does not, or the node asked is behind; a re-send changes nothing.
PollUnseen(run) ==
  /\ relay[run] = "polling"
  /\ relay' = [relay EXCEPT ![run] = "unseen"]
  /\ UNCHANGED <<screen, retried, bound, issued, landing, height>>

\* Mutant of PastBound: the last valid height counts as over.
AtBound(run) == height >= bound[run]
PastBound(run) == height > bound[run]

\* getBlockHeight, after a status that was not seen: expired, or once more.
PollHeight(run) ==
  /\ relay[run] = "unseen"
  /\ IF PastBound(run)
       THEN Answer(run, Fail("expired"))
       ELSE relay' = [relay EXCEPT ![run] = "polling"] /\ UNCHANGED screen
  /\ UNCHANGED <<retried, bound, issued, landing, height>>

\* Ninety seconds are over, or a poll's own read fails.
RelayGivesUp(run, code) ==
  /\ relay[run] \in {"polling", "unseen"}
  /\ Answer(run, Fail(code))
  /\ UNCHANGED <<retried, bound, issued, landing, height>>

\* The map of issued messages is in memory, and so is every request; a message
\* is forgotten after ten minutes too.
Restart ==
  /\ issued' = {} /\ relay' = [r \in Runs |-> "none"]
  /\ screen' = IF screen.status = "sending" THEN Fail("rpc") ELSE screen
  /\ UNCHANGED <<retried, bound, landing, height>>
Forget(run) ==
  /\ run \in issued /\ issued' = issued \ {run}
  /\ UNCHANGED <<screen, retried, bound, relay, landing, height>>

-----------------------------------------------------------------------------
(* The chain: a transaction lands once, while its blockhash is valid.      *)

Land(run, how) ==
  /\ landing[run] = "pending" /\ height <= bound[run]
  /\ landing' = [landing EXCEPT ![run] = how]
  /\ UNCHANGED <<screen, retried, bound, issued, relay, height>>

Block ==
  /\ height < MaxHeight /\ height' = height + 1
  /\ UNCHANGED <<screen, retried, bound, issued, relay, landing>>

HookStep ==
  \/ Press \/ Reset \/ Built \/ (\E code \in Codes : BuildFails(code))
  \/ Sign \/ Decline \/ SendTimesOut

RelayStep(run) ==
  \/ Refuse(run) \/ Submit(run) \/ SubmitUnanswered(run)
  \/ \E code \in ProgramCodes \cup {"rpc"} : PreflightFails(run, code)
  \/ PollSeen(run) \/ PollUnseen(run) \/ PollHeight(run)
  \/ \E code \in {"rpc", "other"} : RelayGivesUp(run, code)

ChainStep ==
  \/ \E run \in Runs, how \in {"landed", "reverted"} : Land(run, how)
  \/ Block

TxNext ==
  \/ HookStep \/ ChainStep \/ Restart
  \/ \E run \in Runs : RelayStep(run) \/ Forget(run)

TxSpec == TxInit /\ [][TxNext]_txVars

\* A build answers or its deadline passes; a send times out.  Nothing is
\* assumed of the wallet, the relay or the chain.
TxFairness ==
  /\ WF_txVars(Built \/ BuildFails("rpc"))
  /\ WF_txVars(SendTimesOut)
FairTxSpec == TxSpec /\ TxFairness

-----------------------------------------------------------------------------
(* Properties.                                                             *)

TxTypeOK ==
  /\ screen \in [status : {"idle", "building", "signing", "sending", "done", "failed"},
                 code : Codes \cup {"none", "rejected", "expired"},
                 run : 0 .. MaxRuns]
  /\ retried \in BOOLEAN /\ bound \in [Runs -> Nat] /\ issued \subseteq Runs
  /\ relay \in [Runs -> {"none", "received", "polling", "unseen"}]
  /\ landing \in [Runs -> {"unsent", "pending", "landed", "reverted"}]
  /\ height \in Nat

\* What the screen says of a run stays true: a receipt is of a transaction that
\* landed, one declined never lands, and one reported as expired lands no more (it
\* may have landed between the poll's two reads: the status lags the height).
VerdictsStand ==
  /\ screen.status = "done" => landing[screen.run] = "landed"
  /\ screen.code = "expired" => height > bound[screen.run]
  /\ screen.code = "rejected" => landing[screen.run] = "unsent"

\* "a slow network ends in a message with a next step, never in a button that
\* spins forever" (tx.ts): only the wallet can keep a run from ending.
RunsEnd ==
  screen.status \in {"building", "sending"} ~> screen.status \in {"signing", "done", "failed"}

\* "Nothing was signed or sent twice. Try again" (tx.ts): what failed as a busy
\* network has not reached the chain, so the next attempt is the only one.
NothingSentTwice == screen.code = "rpc" => landing[screen.run] = "unsent"
=============================================================================
