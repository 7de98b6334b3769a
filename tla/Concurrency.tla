----------------------------- MODULE Concurrency -----------------------------
(***************************************************************************)
(* packages/core/src/concurrency.ts: fan-outs of a few workers each        *)
(* (mapLimit) whose jobs all pass one gate (limiter), as the keeper's do.  *)
(*                                                                         *)
(* One thread runs it.  A job's answer wakes the head of the gate's queue  *)
(* and then returns to the worker: two continuations, run in that order    *)
(* before the next answer is looked at.  The gate counts a woken job only  *)
(* when its continuation runs, and does not ask again whether there is     *)
(* room, so that order is what keeps the count.                            *)
(***************************************************************************)
EXTENDS Integers, Sequences, FiniteSets

CONSTANTS
  Fans,             (* fan-outs that share the gate                         *)
  Width,            (* mapLimit's limit: workers of one fan-out             *)
  Items,            (* bound: items of one fan-out                          *)
  Gate,             (* limiter's n                                          *)
  Nobody

ASSUME ConcurrencyConstants ==
  /\ Width \in Nat \ {0} /\ Items \in Nat /\ Gate \in Nat \ {0}
  /\ IsFiniteSet(Fans) /\ Nobody \notin Fans \X (1 .. Width)

FanWorkers == Fans \X (1 .. Width)

VARIABLES
  nextItem,         (* fan -> the shared index of its next item             *)
  inside,           (* workers whose job is under way                       *)
  ready,            (* workers about to take an item, in order              *)
  woken,            (* the job whose wait is over and has not gone on yet   *)
  waiting,          (* the gate's queue                                     *)
  active,           (* the gate's count                                     *)
  outcome           (* fan -> what Promise.all makes of it                  *)

gateVars == <<nextItem, inside, ready, woken, waiting, active, outcome>>

GateInit ==
  /\ nextItem = [f \in Fans |-> 1] /\ inside = {} /\ ready = <<>>
  /\ woken = Nobody /\ waiting = <<>> /\ active = 0
  /\ outcome = [f \in Fans |-> "unborn"]

\* Nothing is left to run: the thread takes the next event.
Drained == woken = Nobody /\ ready = <<>>

-----------------------------------------------------------------------------
\* mapLimit: every worker runs up to its first wait.
StartFan(f) ==
  /\ Drained /\ outcome[f] = "unborn"
  /\ outcome' = [outcome EXCEPT ![f] = "pending"]
  /\ ready' = [k \in 1 .. Width |-> <<f, k>>]
  /\ UNCHANGED <<nextItem, inside, woken, waiting, active>>

\* Mutant of WokenFirst: the worker whose job is over goes on first.
WokenAnytime == TRUE
WokenFirst == woken = Nobody

\* The worker in front takes the next item and calls the gate, or is over.
TakeItem ==
  /\ WokenFirst /\ ready # <<>>
  /\ LET w == Head(ready)
     IN  IF nextItem[w[1]] > Items
           THEN UNCHANGED <<nextItem, inside, waiting, active>>
           ELSE /\ nextItem' = [nextItem EXCEPT ![w[1]] = @ + 1]
                /\ IF active >= Gate
                     THEN waiting' = Append(waiting, w) /\ UNCHANGED <<inside, active>>
                     ELSE /\ active' = active + 1 /\ inside' = inside \cup {w}
                          /\ UNCHANGED waiting
  /\ ready' = Tail(ready)
  /\ UNCHANGED <<woken, outcome>>

\* The woken job goes on.
GoOn ==
  /\ woken # Nobody
  /\ active' = active + 1 /\ inside' = inside \cup {woken} /\ woken' = Nobody
  /\ UNCHANGED <<nextItem, ready, waiting, outcome>>

\* finally: one fewer, and the head of the queue is woken.
Leave(w) ==
  /\ Drained /\ w \in inside
  /\ active' = active - 1 /\ inside' = inside \ {w}
  /\ IF waiting = <<>>
       THEN UNCHANGED <<woken, waiting>>
       ELSE woken' = Head(waiting) /\ waiting' = Tail(waiting)

\* The job is answered, and its worker goes on to the next item.
Answered(w) ==
  /\ Leave(w) /\ ready' = <<w>>
  /\ UNCHANGED <<nextItem, outcome>>

\* It throws: that worker is over and the fan-out has failed, while the other
\* workers take the items that are left.
Thrown(w) ==
  /\ Leave(w)
  /\ outcome' = [outcome EXCEPT ![w[1]] = "rejected"]
  /\ UNCHANGED <<nextItem, ready>>

GateNext ==
  \/ \E f \in Fans : StartFan(f)
  \/ TakeItem
  \/ GoOn
  \/ \E w \in FanWorkers : Answered(w) \/ Thrown(w)

GateSpec == GateInit /\ [][GateNext]_gateVars

-----------------------------------------------------------------------------
(* Properties.                                                             *)

GateTypeOK ==
  /\ nextItem \in [Fans -> Nat] /\ inside \subseteq FanWorkers
  /\ ready \in Seq(FanWorkers) /\ woken \in FanWorkers \cup {Nobody}
  /\ waiting \in Seq(FanWorkers) /\ active \in Int
  /\ outcome \in [Fans -> {"unborn", "pending", "rejected"}]

\* "one number" for several fan-outs at once (concurrency.ts): never more jobs
\* in flight than the gate lets in.
AtMostLimit == Cardinality(inside) <= Gate

\* Places the gate has given out, the one of a woken job included.
Taken == active + (IF woken = Nobody THEN 0 ELSE 1)

\* No wake-up is lost: whoever waits, waits for a full gate.
NobodyForgotten == waiting # <<>> => Taken = Gate

\* The gate is neither exceeded nor left idle: both at once, over every order in
\* which the jobs of several fan-outs end and throw.
GateIsExact == AtMostLimit /\ NobodyForgotten
=============================================================================
