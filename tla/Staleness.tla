----------------------------- MODULE Staleness -----------------------------
(***************************************************************************)
(* StalenessSentinel (src/src/trading/data/staleness.py): whether a symbol *)
(* is fresh, asked by the OMS before every submission, from ticks that a   *)
(* reconnecting feed delivers late, twice and out of order.  A symbol is   *)
(* independent of the others, so there is one.  The latencies it also      *)
(* keeps decide nothing and are left out.                                  *)
(***************************************************************************)
EXTENDS Integers, FiniteSets

CONSTANTS
    MaxStale,       \* default_max_staleness_ms, in ticks of the clock
    LastTick        \* bound: the last time of the run

ASSUME StalenessAssumption == MaxStale \in Nat /\ LastTick \in Nat \ {0}

VARIABLES
    clock,          \* received_at_ms of what happens now, from 1
    known,          \* symbol in self.stats
    hwm,            \* last_event_hwm_ms, 0 before the first tick
    receivedAt,     \* last_received_at_ms, 0 before the first tick
    tripped,        \* circuit_tripped
    answer,         \* what is_stale last returned
    ticks,          \* for the property: what was received, and when
    resets          \* for the property: when the breaker was last tripped, or reset by hand

sentinelVars == <<clock, known, hwm, receivedAt, tripped, answer, ticks, resets>>

Times == 0..LastTick
Received == [event : Times, at : Times]

StalenessTypeOK ==
    /\ clock \in 1..LastTick /\ known \in BOOLEAN /\ hwm \in Times
    /\ receivedAt \in 0..clock /\ tripped \in BOOLEAN
    /\ answer \in {"unasked", "fresh", "stale"}
    /\ ticks \subseteq Received /\ resets \in [tripped : Times, reset : Times]

SentinelInit ==
    /\ clock = 1 /\ known = FALSE /\ hwm = 0 /\ receivedAt = 0 /\ tripped = FALSE
    /\ answer = "unasked" /\ ticks = {} /\ resets = [tripped |-> 0, reset |-> 0]

Later == clock < LastTick /\ clock' = clock + 1

(* A bug: the newest tick, replayed, is taken as fresh.                    *)
NotOlder(event) == event >= hwm

Newer(event) == event > hwm

(* record_tick: only a tick newer than every one before counts, and closes *)
(* the breaker.                                                            *)
RecordTick(event) ==
    /\ Later /\ event <= clock
    /\ known' = TRUE
    /\ ticks' = ticks \cup {[event |-> event, at |-> clock]}
    /\ IF Newer(event)
       THEN hwm' = event /\ receivedAt' = clock /\ tripped' = FALSE
       ELSE UNCHANGED <<hwm, receivedAt, tripped>>
    /\ answer' = "unasked" /\ UNCHANGED resets

(* time_since_last_tick_ms is infinite before the first tick.              *)
Elapsed == IF receivedAt = 0 THEN LastTick + MaxStale ELSE clock - receivedAt

(* is_stale: a question that trips the breaker.                            *)
IsStale ==
    /\ answer = "unasked"
    /\ LET late == known /\ Elapsed > MaxStale
       IN  /\ tripped' = (tripped \/ late)
           /\ answer' = IF ~known \/ tripped \/ late THEN "stale" ELSE "fresh"
    /\ UNCHANGED <<clock, known, hwm, receivedAt, ticks, resets>>

TripCircuitBreaker ==
    /\ Later /\ known' = TRUE /\ tripped' = TRUE /\ answer' = "unasked"
    /\ resets' = [resets EXCEPT !.tripped = clock]
    /\ UNCHANGED <<hwm, receivedAt, ticks>>

ResetCircuitBreaker ==
    /\ known /\ Later /\ tripped' = FALSE /\ answer' = "unasked"
    /\ resets' = [resets EXCEPT !.reset = clock]
    /\ UNCHANGED <<known, hwm, receivedAt, ticks>>

Silence == Later /\ answer' = "unasked"
           /\ UNCHANGED <<known, hwm, receivedAt, tripped, ticks, resets>>

SentinelNext ==
    \/ \E event \in 1..LastTick : RecordTick(event)
    \/ IsStale \/ TripCircuitBreaker \/ ResetCircuitBreaker \/ Silence

SentinelSpec == SentinelInit /\ [][SentinelNext]_sentinelVars

----------------------------------------------------------------------------
(* A tick that says something new: newer than all received before it.      *)
News == {t \in ticks : \A u \in ticks : u.at < t.at => u.event < t.event}

(* A symbol is reported fresh only on the strength of a tick received      *)
(* within the last MaxStale that was newer than all before it, and after   *)
(* the breaker was tripped by hand only when such a tick, or a reset, came *)
(* later: a replay after a reconnect clears nothing (staleness.py:3-8,     *)
(* :80-85).                                                                *)
FreshOnNewsOnly ==
    answer = "fresh" => \E t \in News : /\ clock - t.at <= MaxStale
                                        /\ resets.tripped <= t.at \/ resets.tripped <= resets.reset

(* staleness.py:136: the breaker can be tripped manually.  Any newer tick  *)
(* closes it again, so the operator's stop lasts until the next quote.     *)
ManualTripHolds ==
    [][tripped /\ resets.tripped > 0 /\ resets.reset < resets.tripped => tripped']_sentinelVars
=============================================================================
