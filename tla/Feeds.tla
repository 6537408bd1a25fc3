------------------------------- MODULE Feeds -------------------------------
(***************************************************************************)
(* How candles reach the program: the watch and poll loops into the bounded*)
(* buffer of a heartbeat (src/src/trading/data/websocket_feed.py), and the *)
(* paged fetch into the database (src/src/trading/data/pipeline.py).       *)
(*                                                                         *)
(* A candle is named by its open time.  The venue's newest one is still    *)
(* forming; some times have no candle.                                     *)
(***************************************************************************)
EXTENDS Integers, Sequences, FiniteSets, SequencesExt, FiniteSetsExt

CONSTANTS
    LastCandle,     \* bound: the newest open time of the run
    Skippable,      \* times at which the venue may have no candle
    VenueLimit,     \* how many candles the venue answers with by default
    MaxLen,         \* maxlen of the heartbeat buffer
    MaxExponent,    \* the largest n for which 2^n fits a float: 1023 in the code
    PageLimit,      \* page_limit
    MaxPages,       \* max_pages, 0 for None
    Windows         \* times of the maintenance calendar

ASSUME FeedsAssumption ==
    /\ LastCandle \in Nat \ {0} /\ VenueLimit \in Nat \ {0} /\ MaxLen \in Nat \ {0}
    /\ PageLimit \in Nat \ {0} /\ MaxPages \in Nat /\ MaxExponent \in Nat
    /\ Skippable \subseteq 1..LastCandle /\ Windows \subseteq 1..LastCandle

VARIABLES
    newest,         \* the venue's newest open time
    skipped,        \* times without a candle
    poll,           \* the loop: its kind, where it is, its cursor and attempt
    buffer,         \* HeartbeatBuffer._buf
    shed,           \* HeartbeatBuffer.dropped
    beaten,         \* for the properties: candles the heartbeat has drained
    first,          \* for the properties: the oldest candle asked for, 0 before
    fetch,          \* fetch_and_store_ohlcv: where it is, its cursor and what it saw
    ohlcv           \* the table

pollVars == <<poll, buffer, shed, beaten, first>>
fetchVars == <<fetch, ohlcv>>
feedVars == <<newest, skipped, pollVars, fetchVars>>

Candles == 1..LastCandle
Candle == [open : Candles, closed : BOOLEAN]

FeedsTypeOK ==
    /\ newest \in Candles /\ skipped \subseteq Skippable
    /\ poll \in [kind : {"watch", "poll"}, pc : {"receive", "sleep", "backoff", "stopped", "died"},
                 since : 0..LastCandle, attempt : 0..MaxExponent + 1]
    /\ buffer \in Seq(Candle) /\ Len(buffer) <= MaxLen /\ shed \in Nat /\ beaten \subseteq Candle
    /\ first \in 0..LastCandle
    /\ fetch \in [pc : {"idle", "page", "done", "failed"}, from : 0..LastCandle, cursor : 0..LastCandle,
                  seen : SUBSET Candles, until : 0..LastCandle, pages : Nat]
    /\ ohlcv \in [Candles -> {"absent", "forming", "closed"}]

FeedsInit ==
    /\ newest = 1 /\ skipped \in SUBSET (Skippable \ {1})
    /\ \E kind \in {"watch", "poll"} : poll = [kind |-> kind, pc |-> "receive", since |-> 0, attempt |-> 0]
    /\ buffer = <<>> /\ shed = 0 /\ beaten = {} /\ first = 0
    /\ fetch = [pc |-> "idle", from |-> 0, cursor |-> 0, seen |-> {}, until |-> 0, pages |-> 0]
    /\ ohlcv = [t \in Candles |-> "absent"]

----------------------------------------------------------------------------
(* The venue.                                                              *)

Listed == (1..newest) \ skipped
Ascending(times) == \A i, j \in DOMAIN times : i < j => times[i] < times[j]
InOrder(times) == CHOOSE s \in SetToSeqs(times) : Ascending(s)

NewCandle ==
    /\ newest < LastCandle /\ newest' = newest + 1
    /\ UNCHANGED <<skipped, pollVars, fetchVars>>

(* A page: the first `limit` candles from `since` on, the last `limit` when*)
(* there is no `since`.                                                    *)
Page(since, limit) ==
    LET times == InOrder({t \in Listed : t >= since})
        n     == IF Len(times) < limit THEN Len(times) ELSE limit
    IN  IF since = 0 THEN SubSeq(times, Len(times) - n + 1, Len(times)) ELSE SubSeq(times, 1, n)

AsOfNow(times) == [i \in DOMAIN times |-> [open |-> times[i], closed |-> times[i] < newest]]

----------------------------------------------------------------------------
(* The heartbeat's buffer.                                                 *)

(* push, once for each: a full buffer sheds its oldest.                    *)
Push(candles) ==
    LET all == buffer \o candles
    IN  IF Len(all) > MaxLen
        THEN /\ buffer' = SubSeq(all, Len(all) - MaxLen + 1, Len(all))
             /\ shed' = shed + (Len(all) - MaxLen)
        ELSE buffer' = all /\ shed' = shed

Drain ==
    /\ buffer # <<>>
    /\ beaten' = beaten \cup ToSet(buffer) /\ buffer' = <<>>
    /\ UNCHANGED <<newest, skipped, poll, shed, first, fetchVars>>

----------------------------------------------------------------------------
(* The loops.                                                              *)

(* A bug: the cursor moves past the last candle received.                  *)
CursorPast(times) == times[Len(times)] + 1

(* poll_ohlcv_loop: the cursor is the last candle received, to be asked    *)
(* for again; all but that one are passed on, or that one when it is alone.*)
Cursor(times) == times[Len(times)]

Closed(times) == IF Len(times) > 1 THEN SubSeq(times, 1, Len(times) - 1) ELSE times

PollReceives ==
    /\ poll.kind = "poll" /\ poll.pc = "receive" /\ shed < LastCandle
    /\ LET times == Page(poll.since, VenueLimit)
       IN  IF times = <<>>
           THEN /\ poll' = [poll EXCEPT !.pc = "sleep", !.attempt = 0]
                /\ UNCHANGED <<buffer, shed, first>>
           ELSE /\ poll' = [poll EXCEPT !.pc = "sleep", !.attempt = 0, !.since = Cursor(times)]
                /\ Push(AsOfNow(Closed(times)))
                /\ first' = IF first = 0 THEN times[1] ELSE first
    /\ UNCHANGED <<newest, skipped, beaten, fetchVars>>

(* watch_ohlcv: whatever the stream carries now, nothing of what it carried*)
(* while the loop was away.                                                *)
WatchReceives ==
    /\ poll.kind = "watch" /\ poll.pc = "receive" /\ shed < LastCandle
    /\ poll' = [poll EXCEPT !.attempt = 0]
    /\ \E t \in Listed : t >= newest - 1 /\ Push(AsOfNow(<<t>>))
    /\ UNCHANGED <<newest, skipped, beaten, first, fetchVars>>

(* compute_backoff multiplies a float by 2^attempt before it takes the       *)
(* minimum: past MaxExponent failures in a row that raises OverflowError,   *)
(* inside the handler, and ends the loop.                                   *)
ReceiveFails ==
    /\ poll.pc = "receive"
    /\ \/ poll.attempt <= MaxExponent
          /\ poll' = [poll EXCEPT !.pc = "backoff", !.attempt = @ + 1]
       \/ poll.attempt > MaxExponent /\ poll' = [poll EXCEPT !.pc = "died"]
    /\ UNCHANGED <<newest, skipped, buffer, shed, beaten, first, fetchVars>>

Wakes ==
    /\ poll.pc \in {"sleep", "backoff"}
    /\ poll' = [poll EXCEPT !.pc = "receive"]
    /\ UNCHANGED <<newest, skipped, buffer, shed, beaten, first, fetchVars>>

StopRequested ==
    /\ poll.pc \notin {"stopped", "died"}
    /\ poll' = [poll EXCEPT !.pc = "stopped"]
    /\ UNCHANGED <<newest, skipped, buffer, shed, beaten, first, fetchVars>>

----------------------------------------------------------------------------
(* fetch_and_store_ohlcv                                                   *)

FetchAndStore(since) ==
    /\ fetch.pc # "page"
    /\ fetch' = [pc |-> "page", from |-> since, cursor |-> since, seen |-> {}, until |-> 0, pages |-> 0]
    /\ UNCHANGED <<newest, skipped, pollVars, ohlcv>>

(* One page: its candles newer than the last seen are inserted unless the  *)
(* table has them; the last seen is where the next page starts.            *)
NextPage ==
    /\ fetch.pc = "page"
    /\ LET times == Page(fetch.cursor, PageLimit)
           fresh == {t \in ToSet(times) : \A s \in fetch.seen : t > s}
           seen  == fetch.seen \cup fresh
           pages == fetch.pages + 1
           over  == Len(times) < PageLimit \/ pages = MaxPages
       IN  /\ ohlcv' = [t \in Candles |-> IF t \in fresh /\ ohlcv[t] = "absent"
                                          THEN IF t < newest THEN "closed" ELSE "forming"
                                          ELSE ohlcv[t]]
           /\ fetch' = [fetch EXCEPT !.seen = seen, !.pages = IF MaxPages = 0 THEN 0 ELSE pages,
                          !.until = IF Len(times) < PageLimit THEN newest ELSE 0,
                          !.pc = IF over THEN "done" ELSE "page",
                          !.cursor = IF over THEN 0 ELSE Max(seen)]
    /\ UNCHANGED <<newest, skipped, pollVars>>

PageFails ==
    /\ fetch.pc = "page" /\ fetch' = [fetch EXCEPT !.pc = "failed"]
    /\ UNCHANGED <<newest, skipped, pollVars, ohlcv>>

(* detect_gaps and _in_maintenance: a gap that starts in a window is not   *)
(* reported, however long it is.                                           *)
Gaps ==
    {g \in (fetch.seen \X fetch.seen) : g[2] > g[1] + 1 /\ ~\E t \in fetch.seen : g[1] < t /\ t < g[2]}
ReportedGaps == {g \in Gaps : g[1] + 1 \notin Windows}

(* The loops and the fetch share the venue and nothing else.               *)
LoopNext ==
    \/ NewCandle \/ Drain \/ PollReceives \/ WatchReceives \/ ReceiveFails \/ Wakes \/ StopRequested

FetchNext ==
    \/ NewCandle
    \/ \E since \in Candles : FetchAndStore(since)
    \/ NextPage \/ PageFails

FeedsSpec == FeedsInit /\ [][LoopNext \/ FetchNext]_feedVars

----------------------------------------------------------------------------
(* Whatever fails or is late, every closed candle between the first one    *)
(* polled and the cursor reaches the heartbeat in its closed form, is in   *)
(* the buffer, or is among those the full buffer counted as dropped        *)
(* (websocket_feed.py:46-74, :144-170).                                    *)
Delivered == beaten \cup ToSet(buffer)
PolledCandlesArrive ==
    poll.kind = "poll" /\ first > 0 =>
        LET lost == {t \in Listed : first <= t /\ t < poll.since
                                    /\ [open |-> t, closed |-> TRUE] \notin Delivered}
        IN  Cardinality(lost) <= shed

(* A fetch that ends on a short page has stored every candle the venue had *)
(* from its start on, and reports each hole among them unless it begins in *)
(* a maintenance window (pipeline.py:112-224).                             *)
FetchIsComplete ==
    fetch.pc = "done" /\ fetch.until > 0 =>
        /\ \A t \in fetch.from..fetch.until : t \notin skipped => ohlcv[t] # "absent"
        /\ \A t \in skipped : (\E s \in fetch.seen : s < t) /\ (\E s \in fetch.seen : s > t) =>
              \E g \in Gaps : g[1] < t /\ t < g[2] /\ (g \in ReportedGaps \/ g[1] + 1 \in Windows)

(* A loop ends only when it is asked to (websocket_feed.py:91-94, "Returns  *)
(* only when stop_event is set or the task is cancelled"): not after a long *)
(* outage.                                                                  *)
OnlyStopEnds == poll.pc # "died"

(* Each page but the last brings something new (pipeline.py:192, "to        *)
(* guarantee progress"): not with pages of one candle.                      *)
PagesProgress == [][fetch.pc = "page" /\ fetch'.pc = "page" => fetch'.seen # fetch.seen]_feedVars

(* websocket_feed.py:156-161: the last candle may still be forming, so it  *)
(* is fetched again.  Alone it is passed on as it is.                      *)
OnlyClosedCandles == poll.kind = "poll" => \A c \in Delivered : c.closed

(* The table holds closed candles only: what was stored while it formed is *)
(* never replaced (pipeline.py:85, ON CONFLICT DO NOTHING).                *)
StoredCandlesClose ==
    [][\A t \in Candles : (fetch.pc = "page" /\ fetch'.pc = "done" /\ t < newest) => ohlcv'[t] # "forming"]_feedVars
=============================================================================
