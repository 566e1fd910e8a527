---------------------------- MODULE StreamReader ----------------------------
(***************************************************************************)
(* Reading the messages of a stream: the pager, which pulls pages through  *)
(* a consumer or gets messages one by one, the batched direct get, and the *)
(* search for gaps.                                                        *)
(*                                                                         *)
(* A message is its sequence; 0 on the wire is a status message (404, 408).*)
(* Messages that the filter does not match are those not in stored.        *)
(***************************************************************************)
EXTENDS Integers, FiniteSets, Sequences

CONSTANTS
    MaxSeq,      \* bound: the largest stream sequence
    PageSize,    \* messages in a page
    MaxNext      \* bound: calls of NextMsg

ASSUME ReaderAssumption ==
    /\ MaxSeq \in Nat \ {0}
    /\ PageSize \in Nat \ {0}   \* 0 stands for 25 (start)
    /\ MaxNext \in Nat

VARIABLES
    stored,   \* the messages in the stream
    pgr,      \* the pager
    asks,     \* requests on their way to the server
    wire,     \* messages on their way to the subscription
    q,        \* the subscription's channel
    cons,     \* the pager's consumer: what it has not delivered, or was not acked
    out,      \* the messages NextMsg returned, in order
    seenBy,   \* what else happened: [stays, slow, lost, ended, added, nexts]
    get,      \* the direct get
    search    \* the search for gaps

pagerVars == <<stored, pgr, asks, wire, q, cons, out, seenBy>>

Seqs == 1..MaxSeq
least(S) == CHOOSE s \in S : \A t \in S : s <= t

Retentions == {"limits", "workqueue", "interest"}
Pagers == [retention : Retentions, directAllowed : BOOLEAN, startSeq : {-1, 0, 1, 2},
           delta : {0, 1}]

PagerInit ==
    /\ stored \in SUBSET (Seqs \ {MaxSeq})
    /\ pgr = [phase |-> "new", direct |-> FALSE, seen |-> -1, curSeq |-> 0, sub |-> FALSE]
    /\ asks = <<>> /\ wire = <<>> /\ q = <<>>
    /\ cons = {}
    /\ out = <<>>
    /\ seenBy = [stays |-> {}, slow |-> FALSE, lost |-> FALSE, ended |-> FALSE, added |-> FALSE,
               nexts |-> 0]

-----------------------------------------------------------------------------
(* start: the checks, the subscription and where to begin.                 *)

\* A stream that removes messages once they are consumed is read by direct
\* gets, which must be allowed.
useDirect(p) == p.retention \in {"workqueue", "interest"}
CanPage(p)   == p.startSeq # 0 /\ (useDirect(p) => p.directAllowed)

\* The first sequence: the one given, or that of the stream; a time stands
\* for all messages here.
firstSeq(p) ==
    IF p.startSeq > 0 /\ (useDirect(p) \/ p.delta = 0) THEN p.startSeq
    ELSE IF stored = {} THEN 1 ELSE least(stored)

createConsumer(p) == {s \in stored : s >= firstSeq(p)}

start(p) ==
    /\ pgr.phase = "new"
    /\ \/ /\ CanPage(p) /\ ~(useDirect(p) /\ p.delta > 0)
          /\ pgr' = [pgr EXCEPT !.phase = "ready", !.direct = useDirect(p), !.sub = TRUE,
                                !.curSeq = IF useDirect(p) THEN firstSeq(p) ELSE 0]
          /\ cons' = IF useDirect(p) THEN {} ELSE createConsumer(p)
          /\ seenBy' = [seenBy EXCEPT !.stays = createConsumer(p)]
       \/ \* refused before there is a subscription
          /\ ~CanPage(p)
          /\ pgr' = [pgr EXCEPT !.phase = "failed"]
          /\ UNCHANGED <<cons, seenBy>>
       \/ \* refused, or failing, after: a direct pager keeps its subscription
          /\ CanPage(p)
          /\ pgr' = [pgr EXCEPT !.phase = "failed", !.sub = useDirect(p)]
          /\ UNCHANGED <<cons, seenBy>>
    /\ UNCHANGED <<stored, asks, wire, q, out>>

PageContents == \E p \in Pagers : start(p)

-----------------------------------------------------------------------------
(* NextMsg: one request, and the wait for one message.                     *)

pageSeen == pgr.seen \in {PageSize, -1}

\* (A mutated fetchBatch: one message more than the channel holds.)
fetchBatchMore == [kind |-> "fetch", n |-> PageSize + 1]

\* Both ask for what comes next without knowing what came last.
fetchBatch == [kind |-> "fetch", n |-> PageSize]
directGetBatch == [kind |-> "get", n |-> pgr.curSeq]

PagerNextMsg ==
    /\ pgr.phase = "ready"
    /\ seenBy.nexts < MaxNext
    /\ seenBy' = [seenBy EXCEPT !.nexts = @ + 1]
    /\ pgr' = [pgr EXCEPT !.phase = "wait",
                          !.seen = IF pageSeen THEN 0 ELSE @,
                          !.curSeq = IF pgr.direct THEN @ + 1 ELSE @]
    /\ asks' = IF pgr.direct THEN Append(asks, directGetBatch)
               ELSE IF pageSeen THEN Append(asks, fetchBatch) ELSE asks
    /\ UNCHANGED <<stored, wire, q, cons, out>>

\* The request cannot be published: the page counts as asked for all the same.
NextMsgFails ==
    /\ pgr.phase = "ready" /\ (pgr.direct \/ pageSeen)
    /\ seenBy.nexts < MaxNext
    /\ seenBy' = [seenBy EXCEPT !.nexts = @ + 1, !.lost = TRUE]
    /\ pgr' = IF pgr.direct THEN pgr ELSE [pgr EXCEPT !.seen = 0]
    /\ UNCHANGED <<stored, asks, wire, q, cons, out>>

\* A message, or the status that says there are no more.
TakeMsg ==
    /\ pgr.phase = "wait" /\ q # <<>>
    /\ pgr' = [pgr EXCEPT !.phase = "ready", !.seen = @ + 1]
    /\ q' = Tail(q)
    /\ out' = IF Head(q) = 0 THEN out ELSE Append(out, Head(q))
    /\ seenBy' = [seenBy EXCEPT !.ended = @ \/ Head(q) = 0]
    /\ UNCHANGED <<stored, asks, wire, cons>>

\* The time is over, or the caller's context; what is late stays queued.
NextTimesOut ==
    /\ pgr.phase = "wait"
    /\ pgr' = [pgr EXCEPT !.phase = "ready"]
    /\ seenBy' = [seenBy EXCEPT !.slow = TRUE]
    /\ UNCHANGED <<stored, asks, wire, q, cons, out>>

\* Close: the subscription, then the consumer, then the channel.
Close ==
    /\ pgr.phase = "ready"
    /\ pgr' = [pgr EXCEPT !.phase = "closed", !.sub = FALSE]
    /\ asks' = <<>> /\ wire' = <<>> /\ q' = <<>> /\ cons' = {}
    /\ UNCHANGED <<stored, out, seenBy>>

-----------------------------------------------------------------------------
(* The server and the connection.                                          *)

\* The n first of a set, in order.
sorted[S \in SUBSET Seqs] ==
    IF S = {} THEN <<>> ELSE <<least(S)>> \o sorted[S \ {least(S)}]
firsts(S, n) == {s \in S : Cardinality({t \in S : t < s}) < n}

\* A pull that does not wait: what there is, then a status if that is less.
ServeFetch ==
    /\ asks # <<>> /\ Head(asks).kind = "fetch"
    /\ LET batch == firsts(cons, Head(asks).n) IN
          /\ wire' = wire \o sorted[batch]
                          \o (IF Cardinality(batch) < Head(asks).n THEN <<0>> ELSE <<>>)
          /\ cons' = cons \ batch
    /\ asks' = Tail(asks)
    /\ UNCHANGED <<stored, pgr, q, out, seenBy>>

\* A direct get: the first message from a sequence on.  Any replica answers,
\* so of two answers the second may come first.
ServeGet ==
    /\ asks # <<>> /\ Head(asks).kind = "get"
    /\ LET from == {s \in stored : s >= Head(asks).n}
           msg == IF from = {} THEN 0 ELSE least(from)
       IN  wire' \in {Append(wire, msg), <<msg>> \o wire}
    /\ asks' = Tail(asks)
    /\ UNCHANGED <<stored, pgr, q, cons, out, seenBy>>

\* A message that finds the channel full is dropped.
Arrive ==
    /\ wire # <<>>
    /\ wire' = Tail(wire)
    /\ q' = IF Len(q) < PageSize THEN Append(q, Head(wire)) ELSE q
    /\ UNCHANGED <<stored, pgr, asks, cons, out, seenBy>>

\* A message on the wire, or the acknowledgement of one, is lost; the
\* consumer delivers again what it has no acknowledgement for.
LoseMessage ==
    /\ ~seenBy.lost
    /\ \/ wire # <<>> /\ wire' = Tail(wire) /\ UNCHANGED cons
       \/ /\ ~pgr.direct /\ pgr.phase # "closed" /\ out # <<>>
          /\ cons' = cons \cup ({out[Len(out)]} \cap stored)
          /\ UNCHANGED wire
    /\ seenBy' = [seenBy EXCEPT !.lost = TRUE]
    /\ UNCHANGED <<stored, pgr, asks, q, out>>

\* Messages are added at the end and removed anywhere.
Publish ==
    /\ pgr.phase \in {"ready", "wait"}
    /\ ~seenBy.added /\ seenBy' = [seenBy EXCEPT !.added = TRUE]
    /\ stored' = stored \cup {MaxSeq}
    /\ cons' = IF pgr.direct THEN cons ELSE cons \cup {MaxSeq}
    /\ UNCHANGED <<pgr, asks, wire, q, out>>

RemoveMessages ==
    /\ pgr.phase \in {"ready", "wait"}
    /\ \E s \in stored :
          /\ stored' = stored \ {s} /\ cons' = cons \ {s}
          /\ seenBy' = [seenBy EXCEPT !.stays = @ \ {s}]
    /\ UNCHANGED <<pgr, asks, wire, q, out>>

PagerNext ==
    \/ PageContents \/ PagerNextMsg \/ NextMsgFails \/ TakeMsg \/ NextTimesOut \/ Close
    \/ ServeFetch \/ ServeGet \/ Arrive \/ LoseMessage \/ Publish \/ RemoveMessages

-----------------------------------------------------------------------------
(* DirectGet: a subscription, one request, and messages until a status, an *)
(* error, the timer or the context cancels the wait.                       *)

NoGet == [phase |-> "idle", cause |-> "none", handled |-> 0, ended |-> FALSE, gone |-> FALSE]

Bad == {"404", "408", "413", "noPending", "badPending", "badLast"}

\* The first cause is the one that counts.
cancel(d, cause) == [d EXCEPT !.cause = IF @ = "none" THEN cause ELSE @]

DirectGet(allowed, batch, lastFor) ==
    /\ get.phase = "idle"
    /\ get' = [NoGet EXCEPT !.phase = IF ~allowed \/ (~batch /\ lastFor) THEN "refused" ELSE "wait"]

\* A message is handled, even after the wait was cancelled; 204 ends the batch.
HandleMsg ==
    /\ get.phase = "wait"
    /\ \/ get.handled < MaxSeq /\ get' = [get EXCEPT !.handled = @ + 1]
       \/ get' = [cancel(get, "canceled") EXCEPT !.ended = TRUE]
       \/ \E status \in Bad : get' = cancel(get, status)

DirectGetTimesOut == get.phase = "wait" /\ get' = cancel(get, "timeout")
DirectGetContextEnds ==
    /\ get.phase = "wait"
    /\ \E cause \in {"canceled", "deadline"} : get' = [cancel(get, cause) EXCEPT !.gone = TRUE]

\* (A mutated causeError: the timer cancels without a cause.)
causeErrorTimer(cause) == IF cause \in {"canceled", "timeout"} THEN "" ELSE cause

causeError(cause) == IF cause = "canceled" THEN "" ELSE cause

DirectGetReturns ==
    /\ get.phase = "wait" /\ get.cause # "none"
    /\ get' = [get EXCEPT !.phase = "returned", !.cause = causeError(@)]

DirectGetNext ==
    \/ \E allowed, batch, lastFor \in BOOLEAN : DirectGet(allowed, batch, lastFor)
    \/ HandleMsg \/ DirectGetTimesOut \/ DirectGetContextEnds \/ DirectGetReturns

-----------------------------------------------------------------------------
(* DetectGaps: the sequences the server says are deleted, which it lists   *)
(* up to a limit.  The loop over them returns at the last one, so the walk *)
(* of the rest with a consumer, which the code has after it, never runs.   *)

detectGaps(D) ==
    LET n == Len(D)
        at[i \in 0..n] ==
            IF i = 0 THEN [start |-> D[1], gaps |-> {}]
            ELSE LET p == at[i - 1] IN
                 IF i = n
                 THEN [p EXCEPT !.gaps = @ \cup {<<IF D[n] - 1 = D[n-1] THEN p.start ELSE D[n], D[n]>>}]
                 ELSE IF D[i+1] # D[i] + 1
                 THEN [start |-> D[i+1], gaps |-> p.gaps \cup {<<p.start, D[i]>>}]
                 ELSE p
    IN  IF n = 0 THEN {} ELSE IF n = 1 THEN {<<D[1], D[1]>>} ELSE at[n].gaps

NoSearch == [deleted |-> {}, listed |-> {}, gaps |-> {}, done |-> FALSE]

DetectGaps(deleted, limit) ==
    /\ ~search.done
    /\ LET listed == firsts(deleted, limit) IN
          search' = [deleted |-> deleted, listed |-> listed,
                     gaps |-> detectGaps(sorted[listed]), done |-> TRUE]

GapsNext == \E deleted \in SUBSET Seqs, limit \in Seqs : DetectGaps(deleted, limit)

-----------------------------------------------------------------------------
ReaderInit == PagerInit /\ get = NoGet /\ search = NoSearch

ReaderStep ==
    \/ PagerNext /\ UNCHANGED <<get, search>>
    \/ DirectGetNext /\ UNCHANGED <<pagerVars, search>>
    \/ GapsNext /\ UNCHANGED <<pagerVars, get>>

readerVars == <<pagerVars, get, search>>
ReaderSpec == ReaderInit /\ [][ReaderStep]_readerVars

-----------------------------------------------------------------------------
(* Properties.                                                             *)

Returned == {out[i] : i \in DOMAIN out}

(***************************************************************************)
(* NextMsg says "last message reached" only after it returned every        *)
(* message that was in the stream all along, unless the network lost       *)
(* something; a page never overruns the channel.  Through a consumer the   *)
(* messages come in order and once, however late.                          *)
(***************************************************************************)
PagerReturnsAll ==
    ~seenBy.lost =>
        /\ seenBy.ended /\ ~(pgr.direct /\ seenBy.slow) => seenBy.stays \subseteq Returned
        /\ ~pgr.direct => \A i, j \in DOMAIN out : i < j => out[i] < out[j]

(***************************************************************************)
(* "NextMsg retrieves the next message from the pager": none is returned   *)
(* twice when nothing is late or lost.                                     *)
(***************************************************************************)
PagerReturnsOnce ==
    ~seenBy.lost /\ ~seenBy.slow =>
        \A i, j \in DOMAIN out : i < j => out[i] # out[j]

Reported == UNION {g[1]..g[2] : g \in search.gaps}

(***************************************************************************)
(* DirectGet returns no error only when the server ended the batch or the  *)
(* caller cancelled its context.  DetectGaps reports nothing that is in    *)
(* the stream and no run of deleted messages in pieces, and when the       *)
(* server lists all of the deleted messages it reports them all.           *)
(***************************************************************************)
ReadsAreHonest ==
    /\ get.phase = "returned" /\ get.cause = "" => get.ended \/ get.gone
    /\ Reported \subseteq search.deleted
    /\ \A g, h \in search.gaps : g # h => g[2] + 1 < h[1] \/ h[2] + 1 < g[1]
    /\ search.listed = search.deleted => Reported = search.deleted

(***************************************************************************)
(* "The Deleted information in StreamInfo is capped at some amount so if   *)
(* it determines there are more messages that are deleted in the stream it *)
(* will then make a consumer and walk the remainder" (DetectGaps): all the *)
(* deleted messages are reported, listed or not.                           *)
(***************************************************************************)
GapsAreReported == search.done => Reported = search.deleted
=============================================================================
