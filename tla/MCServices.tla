----------------------------- MODULE MCServices -----------------------------
(***************************************************************************)
(* The parts of the services and of the web application, each on an        *)
(* instance of its own: the concurrency helpers, the services' tick, the   *)
(* event pull, the failover of RPC calls, the quoters of one market's      *)
(* series, the memo of a warm instance, a transaction from button to       *)
(* receipt, the screens that read, the grid of a market, what its asks are *)
(* priced on, and a purchase from ticket to charge.  They share no state,  *)
(* so a behaviour moves one of them and leaves the others at their start.  *)
(* The layouts have no state: their assumptions are evaluated here.        *)
(***************************************************************************)
EXTENDS Concurrency, Ticks, Indexer, RpcFailover, Quoting, Memo, TxFlow, Screens,
        Grid, Marks, Ticket, Layouts

CONSTANTS m1, m2, m3

VARIABLE part

gates == <<gateVars, tickVars>>
feeds == <<indexVars, rpcVars>>
answers == <<quotingVars, memoVars>>
pages == <<txVars, shown>>
markets == <<gridVars, marksVars, ticketVars>>

servicesVars == <<part, gates, feeds, answers, pages, markets>>

\* Values of the parameters that are sequences or functions.
LaunchSet == <<m1, m2, m3>>
AForward == 40
AnAsset == [testCluster |-> FALSE, preIpo |-> FALSE, hasFeed |-> TRUE]
OneSideBacked == {[treasury |-> 4, vault |-> 0], [treasury |-> 0, vault |-> 4]}

ServicesInit ==
  /\ part \in {"gate", "ticks", "index", "rpc", "quoting", "memo", "tx", "screens",
               "grid", "marks", "ticket"}
  /\ GateInit /\ TickInit /\ IndexInit /\ RpcInit
  /\ QuotingInit /\ MemoInit /\ TxInit /\ ScreenInit
  /\ GridInit /\ MarksInit /\ TicketInit
  /\ part # "index" => newest = 0
  /\ part # "quoting" => purse.treasury = 0
  /\ part # "grid" => forward = AForward
  /\ part # "marks" => asset = AnAsset

ServicesNext ==
  \/ part = "gate" /\ GateNext /\ UNCHANGED <<part, tickVars, feeds, answers, pages, markets>>
  \/ part = "ticks" /\ TickNext /\ UNCHANGED <<part, gateVars, feeds, answers, pages, markets>>
  \/ part = "index" /\ IndexNext /\ UNCHANGED <<part, gates, rpcVars, answers, pages, markets>>
  \/ part = "rpc" /\ RpcNext /\ UNCHANGED <<part, gates, indexVars, answers, pages, markets>>
  \/ part = "quoting" /\ QuotingNext /\ UNCHANGED <<part, gates, feeds, memoVars, pages, markets>>
  \/ part = "memo" /\ MemoNext /\ UNCHANGED <<part, gates, feeds, quotingVars, pages, markets>>
  \/ part = "tx" /\ TxNext /\ UNCHANGED <<part, gates, feeds, answers, shown, markets>>
  \/ part = "screens" /\ ScreenNext /\ UNCHANGED <<part, gates, feeds, answers, txVars, markets>>
  \/ /\ part = "grid" /\ GridNext
     /\ UNCHANGED <<part, gates, feeds, answers, pages, marksVars, ticketVars>>
  \/ /\ part = "marks" /\ MarksNext
     /\ UNCHANGED <<part, gates, feeds, answers, pages, gridVars, ticketVars>>
  \/ /\ part = "ticket" /\ TicketNext
     /\ UNCHANGED <<part, gates, feeds, answers, pages, gridVars, marksVars>>

\* QuotingFairness, TxFairness and ScreenFairness, each in the behaviours that
\* move its part.
ServicesFairness ==
  /\ WF_quotingVars(part = "quoting" /\ QuoterSteps)
  /\ WF_quotingVars(part = "quoting" /\ \E t \in late : LateSend(t))
  /\ SF_quotingVars(/\ part = "quoting" /\ leg.who = "treasury"
                    /\ \E k \in leg.todo : CancelLands(k))
  /\ WF_txVars(part = "tx" /\ (Built \/ BuildFails("rpc")))
  /\ WF_txVars(part = "tx" /\ SendTimesOut)
  /\ \A h \in Hooks :
       /\ WF_shown(part = "screens" /\ Retry(h))
       /\ \A x \in Subjects :
            /\ WF_shown(part = "screens" /\ ReadEnds(h, x))
            /\ SF_shown(part = "screens" /\ Arrives(h, x))

ServicesSpec == ServicesInit /\ [][ServicesNext]_servicesVars /\ ServicesFairness
=============================================================================
