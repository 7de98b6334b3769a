------------------------------- MODULE Indexer -------------------------------
(***************************************************************************)
(* The event indexer: Indexer.pullEvents and ingest over the store of      *)
(* packages/indexer.  The program's signatures are numbered from the       *)
(* oldest; new ones appear at the head while a pull works its way down the *)
(* pages it lists.  Pulls do not overlap (main.ts pullEvents).  A listing  *)
(* may be refused, a transaction not be served, and the process may stop   *)
(* between any two writes; the store survives it.                          *)
(***************************************************************************)
EXTENDS Integers, FiniteSets, FiniteSetsExt

CONSTANTS
  MaxSignatures,    (* bound: the program's signatures                      *)
  FullPage,         (* 1000: signatures of a page once history is filled    *)
  BackfillPage,     (* 200: of a page until then                            *)
  HeadPages,        (* HEAD_PAGES_PER_PULL                                  *)
  BackfillPages     (* BACKFILL_PAGES_PER_PULL                              *)

ASSUME IndexerConstants ==
  /\ {MaxSignatures, FullPage, BackfillPage, HeadPages, BackfillPages} \subseteq Nat \ {0}
  /\ BackfillPage <= FullPage

VARIABLES
  newest,           (* the chain: signatures so far                         *)
  stored,           (* signatures whose events are in the store             *)
  marked,           (* signatures the store has as read                     *)
  cursor,           (* backfill_before, 0 when it is not set                *)
  backfilled,       (* backfill_done                                        *)
  firstCursor,      (* the cursor's first value: a history variable         *)
  pull              (* the pull under way                                   *)

indexVars == <<newest, stored, marked, cursor, backfilled, firstCursor, pull>>
store == <<stored, marked, cursor, backfilled, firstCursor>>

Idle == [at |-> "idle", limit |-> 0, before |-> 0, pages |-> 0,
         page |-> {}, fresh |-> {}, left |-> {}, writing |-> 0]

IndexInit ==
  /\ newest \in 0 .. MaxSignatures
  /\ stored = {} /\ marked = {} /\ cursor = 0 /\ backfilled = FALSE /\ firstCursor = 0
  /\ pull = Idle

-----------------------------------------------------------------------------
\* A transaction of the program is confirmed.
Emit ==
  /\ newest < MaxSignatures /\ newest' = newest + 1
  /\ UNCHANGED <<store, pull>>

\* The process stops, and comes back with its store.
Crash ==
  /\ pull # Idle /\ pull' = Idle
  /\ UNCHANGED <<newest, store>>

\* While history is being filled a pull lists small pages.
BeginPull ==
  /\ pull = Idle
  /\ pull' = [Idle EXCEPT !.at = "head",
                          !.limit = IF backfilled THEN FullPage ELSE BackfillPage]
  /\ UNCHANGED <<newest, store>>

\* getSignaturesForAddress: the newest first, below `before` when it is given.
Listed(before, limit) ==
  LET top == IF before = 0 THEN newest ELSE before - 1
  IN  {s \in 1 .. top : s > top - limit}

\* One page, and what of it is not marked yet.
List(phase, before) ==
  /\ LET page == Listed(before, pull.limit)
     IN  pull' = [pull EXCEPT !.at = phase, !.page = page,
                              !.fresh = page \ marked, !.left = page \ marked]
  /\ UNCHANGED <<newest, store>>

FullyListed == Cardinality(pull.page) = pull.limit

-----------------------------------------------------------------------------
(* ingest: the oldest first, a signature's events and then its mark.       *)

Ingesting == pull.at \in {"ingest head", "ingest backfill"} /\ pull.left # {}
InHand == Min(pull.left)

StoreEvents ==
  /\ Ingesting /\ pull.writing = 0
  /\ stored' = stored \cup {InHand}
  /\ pull' = [pull EXCEPT !.writing = InHand]
  /\ UNCHANGED <<newest, marked, cursor, backfilled, firstCursor>>

MarkSignature ==
  /\ Ingesting /\ pull.writing # 0
  /\ marked' = marked \cup {pull.writing}
  /\ pull' = [pull EXCEPT !.left = @ \ {pull.writing}, !.writing = 0]
  /\ UNCHANGED <<newest, stored, cursor, backfilled, firstCursor>>

\* getTransaction was refused or serves nothing: it stays unread.
SkipUnserved ==
  /\ Ingesting /\ pull.writing = 0
  /\ pull' = [pull EXCEPT !.left = @ \ {InHand}]
  /\ UNCHANGED <<newest, store>>

-----------------------------------------------------------------------------
(* The head pass.                                                          *)

ListHead == pull.at = "head" /\ List("ingest head", pull.before)

\* Refused: on the first page the pull fails, further down the pass is over.
HeadRefused ==
  /\ pull.at = "head"
  /\ pull' = IF pull.before = 0 THEN Idle ELSE [pull EXCEPT !.at = "backfill", !.pages = 0]
  /\ UNCHANGED <<newest, store>>

HeadPageDone ==
  /\ pull.at = "ingest head" /\ pull.left = {}
  /\ IF ~FullyListed
       THEN \* The whole history fits above here.
            /\ backfilled' = TRUE /\ pull' = Idle /\ UNCHANGED <<cursor, firstCursor>>
       ELSE LET oldest == Min(pull.page)
                starts == ~backfilled /\ cursor = 0
            IN  /\ cursor' = IF starts THEN oldest ELSE cursor
                /\ firstCursor' = IF starts THEN oldest ELSE firstCursor
                /\ pull' = IF pull.fresh = {} \/ pull.pages + 1 = HeadPages
                             THEN [pull EXCEPT !.at = "backfill", !.pages = 0]
                             ELSE [pull EXCEPT !.at = "head", !.before = oldest, !.pages = @ + 1]
                /\ UNCHANGED backfilled
  /\ UNCHANGED <<newest, stored, marked>>

-----------------------------------------------------------------------------
(* The backfill pass.                                                      *)

ListBackfill ==
  /\ pull.at = "backfill" /\ ~backfilled /\ cursor # 0
  /\ List("ingest backfill", cursor)

\* History is filled, or has to wait: a backoff, a degraded endpoint.
SkipBackfill ==
  /\ pull.at = "backfill" /\ pull.pages = 0
  /\ pull' = Idle
  /\ UNCHANGED <<newest, store>>

\* "A fork cannot page past what it holds": any refusal ends the backfill.
BackfillRefused ==
  /\ pull.at = "backfill" /\ ~backfilled /\ cursor # 0
  /\ backfilled' = TRUE /\ pull' = Idle
  /\ UNCHANGED <<newest, stored, marked, cursor, firstCursor>>

\* Mutant of ReadInFull: the cursor moves whatever was read.
ReadAnyhow == TRUE
ReadInFull == pull.fresh \subseteq marked

\* A page with unread transactions is listed again, later.
BackfillPageDone ==
  /\ pull.at = "ingest backfill" /\ pull.left = {}
  /\ IF ~ReadInFull
       THEN pull' = Idle /\ UNCHANGED <<cursor, backfilled>>
       ELSE /\ backfilled' = ~FullyListed
            /\ cursor' = IF FullyListed THEN Min(pull.page) ELSE cursor
            /\ pull' = IF FullyListed /\ pull.pages + 1 < BackfillPages
                         THEN [pull EXCEPT !.at = "backfill", !.pages = @ + 1]
                         ELSE Idle
  /\ UNCHANGED <<newest, stored, marked, firstCursor>>

PullStep ==
  \/ ListHead \/ HeadRefused \/ HeadPageDone
  \/ StoreEvents \/ MarkSignature \/ SkipUnserved
  \/ ListBackfill \/ SkipBackfill \/ BackfillRefused \/ BackfillPageDone

IndexNext == Emit \/ Crash \/ BeginPull \/ PullStep

IndexSpec == IndexInit /\ [][IndexNext]_indexVars

-----------------------------------------------------------------------------
(* Properties.                                                             *)

IndexTypeOK ==
  /\ newest \in 0 .. MaxSignatures
  /\ marked \subseteq 1 .. newest /\ stored \subseteq 1 .. newest
  /\ cursor \in 0 .. newest /\ firstCursor \in 0 .. newest /\ backfilled \in BOOLEAN
  /\ pull.page \cup pull.fresh \subseteq 1 .. newest /\ pull.left \subseteq pull.fresh

\* A signature that will never be fetched again has its events in the store,
\* whenever the process stopped.
MarkedAreStored == marked \subseteq stored

\* The cursor has gone past nothing unread, whatever the RPC left out, and it
\* never goes back: what a later pull resumes from is safe to resume from.
NothingPassedUnread ==
  cursor # 0 => /\ cursor <= firstCursor
                /\ \A s \in cursor .. firstCursor - 1 : s \in marked

\* Nothing the pulls have left behind is lost: not by a stop between an event and
\* its signature's mark, not by a page served in part.
NothingIsLost == MarkedAreStored /\ NothingPassedUnread

\* "a fresh host with ten thousand signatures behind it catches up a page per
\* pull" (indexer.ts:143): once the history counts as filled, all that was
\* behind the cursor's start has been read.
HistoryIsFilled ==
  backfilled /\ firstCursor # 0 => \A s \in 1 .. firstCursor - 1 : s \in marked
=============================================================================
