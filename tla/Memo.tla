-------------------------------- MODULE Memo --------------------------------
(***************************************************************************)
(* How an answer of the services reaches the app's routes: the answer they *)
(* keep for a few seconds (packages/services/src/main.ts) and the memo in  *)
(* front of them in each warm instance (apps/web/src/lib/services.ts).     *)
(* An answer is known by the moment the services made it.                  *)
(***************************************************************************)
EXTENDS Integers, FiniteSets

CONSTANTS
  Pages,            (* bound: requests in one warm instance at once         *)
  Ttl, Stale,       (* memo's ttlMs and staleMs                             *)
  Kept,             (* how long the services keep their answer              *)
  Timeout,          (* how long a request to them may take                  *)
  LastSecond        (* bound: time                                          *)

ASSUME MemoConstants ==
  /\ {Ttl, Stale, Timeout, LastSecond} \subseteq Nat \ {0} /\ Kept \in Nat /\ Ttl <= Stale

VARIABLES
  second,           (* Date.now()                                           *)
  served,           (* what the services keep: the moment they made it      *)
  memo,             (* memoStore's entry: at, value (0: none), inflight     *)
  requests,         (* requests to the services: [id, since]                *)
  page              (* what a request to the app waits for, or was handed   *)

memoVars == <<second, served, memo, requests, page>>

NoPage == [at |-> "idle", on |-> 0, value |-> 0, handed |-> 0]

MemoInit ==
  /\ second = 1 /\ served = 0
  /\ memo = [at |-> 0, value |-> 0, inflight |-> 0] /\ requests = {}
  /\ page = [p \in Pages |-> NoPage]

-----------------------------------------------------------------------------
Handed(value) == [at |-> "has", on |-> 0, value |-> value, handed |-> second]
Waits(id) == [at |-> "waits", on |-> id, value |-> 0, handed |-> 0]

FreshIn == memo.value # 0 /\ second - memo.at < Ttl
UsableIn == memo.value # 0 /\ second - memo.at < Stale

\* Mutant of UnderWay: concurrent misses do not share a request.
NotShared == FALSE
UnderWay == memo.inflight # 0

NextId == Cardinality(requests) + 1 + memo.inflight
Ask(p) ==
  /\ page[p].at = "idle"
  /\ IF FreshIn \/ UnderWay
       THEN /\ page' = [page EXCEPT ![p] = IF FreshIn \/ UsableIn THEN Handed(memo.value)
                                           ELSE Waits(memo.inflight)]
            /\ UNCHANGED <<memo, requests>>
       ELSE /\ requests' = requests \cup {[id |-> NextId, since |-> second]}
            /\ memo' = [memo EXCEPT !.inflight = NextId]
            /\ page' = [page EXCEPT ![p] = IF UsableIn THEN Handed(memo.value) ELSE Waits(NextId)]
  /\ UNCHANGED <<second, served>>

\* The request is answered with what the services keep, which other instances may
\* have had them make since, or, when that is a few seconds old or a tick has
\* dropped it, make while the request is with them; whoever waits on it has that.
MemoFilled(value) == [at |-> second, value |-> value, inflight |-> 0]
ServicesAnswer(r) ==
  /\ r \in requests
  /\ \E made \in {s \in 1 .. second : s >= r.since \/ (s >= served /\ r.since - s < Kept)} :
       /\ served' = made /\ memo' = MemoFilled(made)
       /\ page' = [p \in Pages |-> IF page[p].at = "waits" /\ page[p].on = r.id THEN Handed(made) ELSE page[p]]
  /\ requests' = requests \ {r}
  /\ UNCHANGED second

MemoAfterFailure == [memo EXCEPT !.inflight = 0]

\* It fails or times out: the entry keeps its value and its age.
ServicesFail(r) ==
  /\ r \in requests
  /\ memo' = MemoAfterFailure
  /\ page' = [p \in Pages |-> IF page[p].at = "waits" /\ page[p].on = r.id
                              THEN [NoPage EXCEPT !.at = "failed"] ELSE page[p]]
  /\ requests' = requests \ {r}
  /\ UNCHANGED <<second, served>>

PageDone(p) ==
  /\ page[p].at \in {"has", "failed"}
  /\ page' = [page EXCEPT ![p] = NoPage]
  /\ UNCHANGED <<second, served, memo, requests>>

\* No request outlives its timeout.
Second ==
  /\ second < LastSecond /\ \A r \in requests : second - r.since < Timeout
  /\ second' = second + 1
  /\ UNCHANGED <<served, memo, requests, page>>

MemoNext ==
  \/ Second
  \/ \E p \in Pages : Ask(p) \/ PageDone(p)
  \/ \E r \in requests : ServicesAnswer(r) \/ ServicesFail(r)

MemoSpec == MemoInit /\ [][MemoNext]_memoVars

-----------------------------------------------------------------------------
(* Properties.                                                             *)

MemoTypeOK ==
  /\ second \in 1 .. LastSecond /\ served \in 0 .. LastSecond
  /\ memo \in [at : 0 .. LastSecond, value : 0 .. LastSecond, inflight : Nat]
  /\ \A r \in requests : r.id \in Nat \ {0} /\ r.since \in 1 .. LastSecond
  /\ \A p \in Pages : page[p].at \in {"idle", "waits", "has", "failed"}

\* What the app is handed is never older than its three waits together, the
\* services', the memo's and the request's, however often a refresh failed.
AgeBounded ==
  \A p \in Pages : page[p].at = "has" => page[p].handed - page[p].value <= Kept + Stale + Timeout

\* An answer never gives way to an older one.
NeverBackwards == [][memo'.value >= memo.value]_memoVars
=============================================================================
