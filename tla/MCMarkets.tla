------------------------------ MODULE MCMarkets ------------------------------
(* Markets, from their data and the research on it to the orders, one unit  *)
(* at a time: the units keep no state in common, so a behaviour of the run  *)
(* is one of a unit.  A unit that does not run has one initial state.       *)
EXTENDS SyntheticBook, Backtest, LiveAdapter, Recovery, Staleness, Feeds, Allocation, Splits,
        LearningGraph, Promotion

VARIABLE unit   \* the unit that runs

MCAssets == <<"btc", "eth">>
MCBars == {b \in [open : 2..5, high : 2..5, low : 2..5, close : 2..5] :
             /\ {b.open, b.close} \subseteq b.low..b.high
             /\ b.high - b.low <= 2}
MCMaxTimeline == 3  \* bound: bars of one replay
Offer(asset, notional, side, merit) ==
  [asset |-> asset, notional |-> notional, side |-> side, merit |-> merit]
(* Of three small ones the positions turn one away, of the large one and    *)
(* another the exposure, and at the lower equity the large one is too large.*)
MCOffers == {Offer("btc", 14, 1, 1), Offer("btc", 6, 1, 2), Offer("eth", 7, -1, 1),
             Offer("sol", 5, 1, 2)}
MCMoves == {-40, 0}
(* A history without a hole, one with a hole, and one with two of them.     *)
MCHistories == {[i \in 1..34 |-> i],
                [i \in 1..33 |-> IF i > 12 THEN i + 3 ELSE i],
                [i \in 1..32 |-> IF i > 20 THEN i + 6 ELSE IF i > 5 THEN i + 1 ELSE i]}
MCCpcvConfigs == [folds : {2, 3}, purge : {0, 1, 3}, embargo : {0, 2}, minTrain : {3},
                  minTest : {5, 11}]
MCWalkConfigs == [train : {4}, validate : {5, 26}, step : {1, 2}]
(* Of three records of the first kind the total fails, of three of the      *)
(* second only their row.                                                   *)
MCDays == {[pnl |-> -100, slipped |-> FALSE], [pnl |-> 700, slipped |-> TRUE]}
MCSmallLosses == {[pnl |-> -148, slipped |-> FALSE]}  \* Days for HardStopSticks
MCZero == [a \in Held |-> 0]
MCNoBars == [a \in ToSet(MCAssets) |-> {}]

MCVars == <<unit, bookVars, venueVars, backtestVars, adapterVars, recoveryVars, sentinelVars,
            feedVars, allocationVars, splitsVars, graphVars, promotionVars>>

Units == {"book", "backtest", "adapter", "recovery", "staleness", "loops", "fetch",
          "allocation", "splits", "learning", "promotion"}

MCInit ==
  /\ unit \in Units
  /\ BookInit /\ SentinelInit /\ GraphInit /\ PromotionInit
  /\ IF unit = "backtest" THEN BacktestInit /\ Cardinality(Timeline) <= MCMaxTimeline
     ELSE BacktestInit /\ engine = "portfolio" /\ calendar = MCNoBars
  /\ AdapterInit /\ (unit # "adapter" => grid = CHOOSE g \in Grids : TRUE)
  /\ RecoveryInit /\ (unit # "recovery" => keyed /\ venueQty = MCZero /\ localQty = MCZero)
  /\ FeedsInit /\ (unit \notin {"loops", "fetch"} => skipped = {})
               /\ (unit # "loops" => poll.kind = "poll")
  /\ AllocationInit /\ (unit # "allocation" => equity = CHOOSE e \in Equities : TRUE)
  /\ IF unit = "splits" THEN SplitsInit
     ELSE /\ bars = [a \in SplitAssets |-> CHOOSE h \in Histories : TRUE]
          /\ cpcv = [config |-> CHOOSE c \in CpcvConfigs : TRUE, outcome |-> "pending", splits |-> {}]
          /\ walk = [config |-> CHOOSE w \in WalkConfigs : TRUE, results |-> <<>>]

Book ==       /\ unit = "book" /\ BookNext
              /\ UNCHANGED <<unit, backtestVars, adapterVars, recoveryVars, sentinelVars,
                             feedVars, allocationVars, splitsVars, graphVars, promotionVars>>
Backtests ==  /\ unit = "backtest" /\ BacktestNext
              /\ UNCHANGED <<unit, bookVars, venueVars, adapterVars, recoveryVars, sentinelVars,
                             feedVars, allocationVars, splitsVars, graphVars, promotionVars>>
Adapter ==    /\ unit = "adapter" /\ AdapterNext
              /\ UNCHANGED <<unit, bookVars, venueVars, backtestVars, recoveryVars, sentinelVars,
                             feedVars, allocationVars, splitsVars, graphVars, promotionVars>>
\* The reconciliation and the recovery change nothing the other reads: one at a time.
Reconciles == /\ unit = "recovery" /\ RecoveryNext
              /\ (cycle'.running => recovery'.pc = "idle")
              /\ UNCHANGED <<unit, bookVars, venueVars, backtestVars, adapterVars, sentinelVars,
                             feedVars, allocationVars, splitsVars, graphVars, promotionVars>>
Sentinel ==   /\ unit = "staleness" /\ SentinelNext
              /\ UNCHANGED <<unit, bookVars, venueVars, backtestVars, adapterVars, recoveryVars,
                             feedVars, allocationVars, splitsVars, graphVars, promotionVars>>
Loops ==      /\ unit = "loops" /\ LoopNext
              /\ UNCHANGED <<unit, bookVars, venueVars, backtestVars, adapterVars, recoveryVars,
                             sentinelVars, fetchVars, allocationVars, splitsVars, graphVars, promotionVars>>
Fetches ==    /\ unit = "fetch" /\ FetchNext
              /\ UNCHANGED <<unit, bookVars, venueVars, backtestVars, adapterVars, recoveryVars,
                             sentinelVars, pollVars, allocationVars, splitsVars, graphVars, promotionVars>>
Allocations == /\ unit = "allocation" /\ AllocationNext
               /\ UNCHANGED <<unit, bookVars, venueVars, backtestVars, adapterVars, recoveryVars,
                              sentinelVars, feedVars, splitsVars, graphVars, promotionVars>>
Validation == /\ unit = "splits" /\ SplitsNext
              /\ UNCHANGED <<unit, bookVars, venueVars, backtestVars, adapterVars, recoveryVars,
                             sentinelVars, feedVars, allocationVars, graphVars, promotionVars>>
Learning ==   /\ unit = "learning" /\ GraphNext
              /\ UNCHANGED <<unit, bookVars, venueVars, backtestVars, adapterVars, recoveryVars,
                             sentinelVars, feedVars, allocationVars, splitsVars, promotionVars>>
Campaign ==   /\ unit = "promotion" /\ PromotionNext
              /\ UNCHANGED <<unit, bookVars, venueVars, backtestVars, adapterVars, recoveryVars,
                             sentinelVars, feedVars, allocationVars, splitsVars, graphVars>>

MCNext == Book \/ Backtests \/ Adapter \/ Reconciles \/ Sentinel \/ Loops \/ Fetches
          \/ Allocations \/ Validation \/ Learning \/ Campaign

MCSpec == MCInit /\ [][MCNext]_MCVars
=============================================================================
