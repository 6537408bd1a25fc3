----------------------------- MODULE Allocation -----------------------------
(***************************************************************************)
(* Capital among competing orders, and the portfolio's drawdown tiers:     *)
(* CapitalAllocator (src/src/trading/risk/capital_allocator.py) and        *)
(* PortfolioCircuitBreaker (src/src/trading/risk/portfolio_circuit_        *)
(* breaker.py), over a sequence of batches, fills, closes and prices.      *)
(*                                                                         *)
(* Money is in units such that percentages of the equities are integers.   *)
(* A score is the order's merit (the prices and correlations of            *)
(* calculate_priority_score) and its asset's recency.                      *)
(***************************************************************************)
EXTENDS Integers, FiniteSets, Sequences, SequencesExt, FiniteSetsExt

CONSTANTS
    Offers,         \* orders: [asset, notional, side, merit]
    MaxBatch,       \* bound: orders that compete in one call
    Equities,       \* what account_state.equity may be
    Peaks,          \* what account_state.peak_equity may be
    MaxPositions, ExposurePct, SinglePct,   \* the allocator's limits
    WarnPct, BlockPct, FlattenPct,          \* the breaker's thresholds
    Moves,          \* price moves since entry, in percent
    Clocked         \* whether callers pass now_ts

ASSUME AllocationAssumption ==
    /\ IsFiniteSet(Offers)
    /\ Offers \subseteq [asset : STRING, notional : Nat, side : {-1, 1}, merit : Int]
    /\ Equities \subseteq Nat /\ Peaks \subseteq Nat /\ Moves \subseteq Int
    /\ MaxPositions \in Nat /\ ExposurePct \in Nat /\ SinglePct \in Nat
    /\ WarnPct <= BlockPct /\ BlockPct <= FlattenPct /\ Clocked \in BOOLEAN

VARIABLES
    granted,        \* accepted orders that are not positions yet
    held,           \* account_state.open_positions
    spent,          \* orders already decided: a rejected one is discarded
    equity,
    recent,         \* last_trade_time: assets traded within a day
    batch,          \* for the properties: the last call and its outcome
    tier,           \* current_tier
    told,           \* what the breaker last returned
    exiting         \* the exits it last minted

allocationVars == <<granted, held, spent, equity, recent, batch, tier, told, exiting>>

OfferAssets == {o.asset : o \in Offers}
BreakerTiers == {"normal", "warning", "entry_block", "flatten"}
NoBatch == [before |-> {}, accepted |-> {}, rejected |-> {}, equity |-> 0]

AllocationTypeOK ==
    /\ granted \subseteq Offers /\ held \subseteq Offers /\ spent \subseteq Offers
    /\ equity \in Equities /\ recent \subseteq OfferAssets
    /\ tier \in BreakerTiers /\ told \in BreakerTiers /\ exiting \subseteq Offers

AllocationInit ==
    /\ granted = {} /\ held = {} /\ spent = {} /\ equity \in Equities /\ recent = {}
    /\ batch = NoBatch /\ tier = "normal" /\ told = "normal" /\ exiting = {}

SumOf(orders) == SumFunctionOnSet([o \in Offers |-> o.notional], orders)

----------------------------------------------------------------------------
(* CapitalAllocator                                                        *)

Score(o) == o.merit + (IF o.asset \in recent THEN 0 ELSE 1)

(* The sort is stable and the batch comes in any order.                    *)
Ranked(orders) ==
    {s \in SetToSeqs(orders) : \A i \in 1..Len(s) - 1 : Score(s[i]) >= Score(s[i + 1])}

WithinExposure(exposure) == 100 * exposure <= equity * ExposurePct
WithinSingle(o) == 100 * o.notional <= equity * SinglePct

(* A bug: what this call has granted already is not counted.               *)
ConsiderAlone(got, o) ==
    IF /\ Cardinality(held) + Cardinality(got) < MaxPositions
       /\ WithinExposure(SumOf(held) + o.notional) /\ WithinSingle(o)
    THEN got \cup {o} ELSE got

(* One turn of the loop: an order is granted whole or passed over.         *)
Consider(got, o) ==
    IF /\ Cardinality(held) + Cardinality(got) < MaxPositions
       /\ WithinExposure(SumOf(held) + SumOf(got) + o.notional) /\ WithinSingle(o)
    THEN got \cup {o} ELSE got

AllocateCapital(orders) ==
    /\ orders \cap spent = {}
    /\ \E ranking \in Ranked(orders) :
         LET got == FoldLeft(Consider, {}, ranking)
         IN  /\ granted' = granted \cup got
             /\ recent' = IF Clocked THEN recent \cup {o.asset : o \in got} ELSE recent
             /\ batch' = [before |-> held, accepted |-> got, rejected |-> orders \ got, equity |-> equity]
    /\ spent' = spent \cup orders
    /\ UNCHANGED <<held, equity, tier, told, exiting>>

----------------------------------------------------------------------------
(* The account and the clock.                                              *)

Others == UNCHANGED <<spent, tier, told, exiting>> /\ batch' = NoBatch

PositionOpens(o) ==
    /\ o \in granted /\ granted' = granted \ {o} /\ held' = held \cup {o}
    /\ Others /\ UNCHANGED <<equity, recent>>

PositionCloses(o, e) ==
    /\ o \in held /\ held' = held \ {o} /\ equity' = e
    /\ Others /\ UNCHANGED <<granted, recent>>

DayPasses ==
    /\ recent # {} /\ recent' = {}
    /\ Others /\ UNCHANGED <<granted, held, equity>>

----------------------------------------------------------------------------
(* PortfolioCircuitBreaker                                                 *)

(* calculate_unrealized_pnl, in hundredths: without a mark a position is   *)
(* taken at its entry price.                                               *)
UnrealizedPnl(move, marked) ==
    SumFunctionOnSet([o \in Offers |-> IF o.asset \in marked
                                       THEN o.side * o.notional * move[o.asset] ELSE 0], held)

(* The drawdown, in hundredths of money, against the peak.                 *)
TierOf(drawdown, peak) ==
    IF drawdown >= peak * FlattenPct THEN "flatten"
    ELSE IF drawdown >= peak * BlockPct THEN "entry_block"
    ELSE IF drawdown >= peak * WarnPct THEN "warning" ELSE "normal"

(* Without a peak the answer is "normal" and the tier stays what it was.   *)
EvaluatePortfolioDrawdown(move, marked, peak) ==
    /\ LET drawdown == 100 * (peak - equity) - UnrealizedPnl(move, marked)
           now      == TierOf(drawdown, peak)
       IN  IF peak = 0
           THEN told' = "normal" /\ tier' = tier /\ exiting' = {}
           ELSE /\ told' = now /\ tier' = now
                /\ exiting' = IF now = "flatten" THEN held ELSE {}
    /\ batch' = NoBatch /\ UNCHANGED <<granted, held, spent, equity, recent>>

IsEntryAllowed == tier \notin {"entry_block", "flatten"}

AllocationNext ==
    \/ \E orders \in SUBSET Offers :
         orders # {} /\ Cardinality(orders) <= MaxBatch /\ AllocateCapital(orders)
    \/ \E o \in Offers : PositionOpens(o) \/ \E e \in Equities : PositionCloses(o, e)
    \/ DayPasses
    \/ \E move \in [OfferAssets -> Moves], marked \in SUBSET OfferAssets, peak \in Peaks :
         EvaluatePortfolioDrawdown(move, marked, peak)

AllocationSpec == AllocationInit /\ [][AllocationNext]_allocationVars

----------------------------------------------------------------------------
(* In whatever order a batch is ranked, what is granted fits the limits    *)
(* together with the positions, each order whole, and the capital is used: *)
(* an order is turned away only if it would still not fit at the end       *)
(* (capital_allocator.py:9-13, :139-188).                                  *)
BatchFitsAndIsMaximal ==
    LET exposure == SumOf(batch.before) + SumOf(batch.accepted)
        count    == Cardinality(batch.before) + Cardinality(batch.accepted)
        fits(x)  == 100 * x <= batch.equity * ExposurePct
    IN  /\ batch.accepted # {} => count <= MaxPositions /\ fits(exposure)
        /\ \A o \in batch.accepted : 100 * o.notional <= batch.equity * SinglePct
        /\ \A o \in batch.rejected :
             \/ count >= MaxPositions
             \/ ~fits(exposure + o.notional)
             \/ 100 * o.notional > batch.equity * SinglePct

(* The exposure cap bounds what has been granted, too.  Only open positions*)
(* are counted: two batches before a fill exceed it.                       *)
GrantsFitTogether == batch.accepted # {} => WithinExposure(SumOf(held) + SumOf(granted))

(* max_single_asset_pct bounds an asset.  It is compared with each order   *)
(* by itself.                                                              *)
SingleAssetBounded ==
    batch.accepted # {} =>
        \A a \in OfferAssets :
            LET mine == {o \in batch.before \cup batch.accepted : o.asset = a}
            IN  100 * SumOf(mine) <= equity * SinglePct

(* What the breaker answers and the entries it then allows agree: not when  *)
(* there is no peak.                                                        *)
ToldIsCurrent == IsEntryAllowed <=> told \notin {"entry_block", "flatten"}
=============================================================================
