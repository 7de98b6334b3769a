----------------------------- MODULE RpcFailover -----------------------------
(***************************************************************************)
(* failoverFetch of packages/core/src/rpc.ts: calls in flight at once over *)
(* one chain of endpoints, sharing which endpoint is preferred and which   *)
(* are benched.  Between an attempt and its answer the other calls run;    *)
(* an endpoint is picked in the same turn in which the one before it       *)
(* refused, from what the shared variables hold by then.                   *)
(***************************************************************************)
EXTENDS Integers, FiniteSets, FiniteSetsExt

CONSTANTS
  Endpoints,        (* urls.length                                          *)
  Calls,            (* bound: calls in flight                               *)
  Home,             (* 30 s: how long a detour lasts                        *)
  Bench,            (* ten minutes                                          *)
  LastMoment        (* bound: time                                          *)

ASSUME RpcConstants ==
  {Endpoints, Home, Bench, LastMoment} \subseteq Nat \ {0}

Urls == 0 .. Endpoints - 1

VARIABLES
  preferred, preferredSince, benchedUntil,
  moment,           (* Date.now()                                           *)
  call              (* the calls                                            *)

rpcVars == <<preferred, preferredSince, benchedUntil, moment, call>>
shared == <<preferred, preferredSince, benchedUntil>>

\* `untried` and `disturbed` are history: the endpoints open when this call began
\* that it has not asked, and whether another has changed what they share since.
Fresh == [at |-> "idle", began |-> 0, anyOpen |-> FALSE, i |-> 0, url |-> 0,
          untried |-> {}, disturbed |-> FALSE]

RpcInit ==
  /\ preferred = 0 /\ preferredSince = 0 /\ benchedUntil = [u \in Urls |-> 0]
  /\ moment = 0 /\ call = [c \in Calls |-> Fresh]

-----------------------------------------------------------------------------
\* The loop from index i on: the first endpoint that is not skipped, with the
\* preference and the benches as they are now.
At(home, i) == (home + i) % Endpoints

\* Mutant of Reached: the last endpoint of the chain is never come to.
AllButLast(r, home, bench, i) ==
  {j \in i .. Endpoints - 2 : ~(r.anyOpen /\ bench[At(home, j)] > r.began)}
Reached(r, home, bench, i) ==
  {j \in i .. Endpoints - 1 : ~(r.anyOpen /\ bench[At(home, j)] > r.began)}

\* r goes on with the next endpoint, or has none left and fails.
GoOnFrom(r, home, bench, i) ==
  LET left == Reached(r, home, bench, i)
  IN  IF left = {}
        THEN [Fresh EXCEPT !.at = "failed", !.untried = r.untried, !.disturbed = r.disturbed]
        ELSE [r EXCEPT !.at = "asking", !.i = Min(left), !.url = At(home, Min(left)),
                       !.untried = @ \ {At(home, Min(left))}]

\* What c's step leaves of the calls: the others in flight are disturbed by it
\* when it changes what they share.
After(c, r) ==
  [d \in Calls |->
    IF d = c THEN r
    ELSE IF shared' # shared /\ call[d].at = "asking" THEN [call[d] EXCEPT !.disturbed = TRUE]
    ELSE call[d]]

\* A detour older than thirty seconds is over.
BeginCall(c) ==
  /\ call[c].at = "idle"
  /\ preferred' = IF preferred # 0 /\ moment - preferredSince > Home THEN 0 ELSE preferred
  /\ UNCHANGED <<preferredSince, benchedUntil, moment>>
  /\ LET open == {u \in Urls : benchedUntil[u] <= moment}
         r == [Fresh EXCEPT !.began = moment, !.anyOpen = (open # {}), !.untried = open]
     IN  call' = After(c, GoOnFrom(r, preferred', benchedUntil, 0))

\* A usable answer: from elsewhere than the preferred endpoint it moves the preference.
Served(c) ==
  /\ call[c].at = "asking"
  /\ IF call[c].url # preferred
       THEN preferred' = call[c].url /\ preferredSince' = moment
       ELSE UNCHANGED <<preferred, preferredSince>>
  /\ UNCHANGED <<benchedUntil, moment>>
  /\ call' = After(c, [Fresh EXCEPT !.at = "served"])

\* A spent quota or a revoked key: benched for ten minutes, and the next.
Refused(c) ==
  /\ call[c].at = "asking"
  /\ benchedUntil' = [benchedUntil EXCEPT ![call[c].url] = moment + Bench]
  /\ UNCHANGED <<preferred, preferredSince, moment>>
  /\ call' = After(c, GoOnFrom(call[c], preferred, benchedUntil', call[c].i + 1))

\* The third 429 or 5xx, no answer within the timeout, no connection: the next.
\* The attempts before the third change nothing the calls share.
GivenUp(c) ==
  /\ call[c].at = "asking"
  /\ UNCHANGED <<shared, moment>>
  /\ call' = After(c, GoOnFrom(call[c], preferred, benchedUntil, call[c].i + 1))

\* The caller has its answer, and may call again.
Return(c) ==
  /\ call[c].at \in {"served", "failed"}
  /\ call' = [call EXCEPT ![c] = Fresh]
  /\ UNCHANGED <<shared, moment>>

Pass ==
  /\ moment < LastMoment /\ moment' = moment + 1
  /\ UNCHANGED <<shared, call>>

RpcNext ==
  \/ Pass
  \/ \E c \in Calls : BeginCall(c) \/ Served(c) \/ Refused(c) \/ GivenUp(c) \/ Return(c)

RpcSpec == RpcInit /\ [][RpcNext]_rpcVars

-----------------------------------------------------------------------------
(* Properties.                                                             *)

RpcTypeOK ==
  /\ preferred \in Urls /\ preferredSince \in 0 .. LastMoment
  /\ benchedUntil \in [Urls -> 0 .. LastMoment + Bench] /\ moment \in 0 .. LastMoment
  /\ \A c \in Calls : /\ call[c].at \in {"idle", "asking", "served", "failed"}
                      /\ call[c].untried \subseteq Urls

\* A call nobody disturbed fails only after every endpoint that was open when it
\* began: the wrap-around and the skipping leave none out.
FailsAfterAll ==
  \A c \in Calls : call[c].at = "failed" /\ ~call[c].disturbed => call[c].untried = {}

\* "a refusal ... is retried against the next, in order ... Slower, never dark"
\* (rpc.ts:2-6): no call fails before it has asked every endpoint open when it began.
NeverDark ==
  \A c \in Calls : call[c].at = "failed" => call[c].untried = {}
=============================================================================
